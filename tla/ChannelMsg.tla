------------------------------ MODULE ChannelMsg ------------------------------
(***************************************************************************)
(* The requests by which a channel is opened, buffers are shared with the  *)
(* host as GPADLs, and both are undone (vmbus/hv_channel.c), with the      *)
(* handlers of the answers (vmbus/hv_channel_mgmt.c).                      *)
(*                                                                         *)
(* Every channel has a control thread of its own (ControlWQ), which opens  *)
(* it and, for a network device, shares and unshares its buffers.  The     *)
(* threads meet in gVmbusConnection: the counter NextGpadlHandle and the   *)
(* list ChannelMsgList of requests waiting for an answer.  The answers     *)
(* come one at a time from the vmbusQ worker, in any order here: SynicMsg  *)
(* is how they get there.                                                  *)
(*                                                                         *)
(* A step on the list, the whole of a handler included, is atomic: it runs *)
(* under ChannelMsgLock, and a thread that a handler wakes needs the lock  *)
(* before it frees its entry.                                              *)
(***************************************************************************)
EXTENDS Integers, Sequences, FiniteSets, FiniteSetsExt, SequencesExt

CONSTANTS
  Channels,     \* the channels, each with its control thread
  FirstHandle,  \* the initial NextGpadlHandle (0xE1E10)
  Bodies,       \* how many GPADL body messages follow a header
  Retries,      \* posts of bodies repeated in one call (5)
  MaxShared,    \* bound: GPADLs made for one channel
  MaxRefused    \* bound: posts the hypervisor refuses for another reason
                \* than a lack of buffers

ASSUME ChannelsAssumption == IsFiniteSet(Channels)
ASSUME HandleAssumption == FirstHandle \in Nat \ {0}
ASSUME BoundsAssumption ==
  Bodies \in Nat /\ Retries \in Nat /\ MaxShared \in Nat /\ MaxRefused \in Nat

Buffers == {"ring", "buffer"}  \* the ring pages, and one buffer of the device
NoHandle == 0

VARIABLES
  nextHandle,  \* NextGpadlHandle
  list,        \* ChannelMsgList: records [type, chan, gpadl]
  life,        \* life[c]: "new", "open" or "closed" as its driver sees it
  pc,          \* pc[c]: what the control thread of c does next
  call,        \* call[c]: the buffer its present call is about
  gpadl,       \* gpadl[c]: nextGpadlHandle of EstablishGpadl
  left,        \* left[c]: bodies yet to be posted
  tries,       \* tries[c]: retrycnt
  failed,      \* failed[c]: ret # 0
  event,       \* event[c]: the condition of the WaitEvent of its request
  handle,      \* handle[c][b]: RingBufferGpadlHandle, ReceiveBufferGpadlHandle
  pages,       \* pages[c]: the buffers of c that are allocated
  refused,     \* posts refused so far
  toHost,      \* toHost[c]: requests of c the host has not acted on
  answers,     \* answers on their way to the worker
  mapped,      \* the host's GPADLs: records [chan, gpadl]
  hostOpen,    \* the channels the host has open
  made         \* history: made[c]: the handles taken for c

host == <<toHost, answers, mapped, hostOpen>>
local == <<gpadl, left, tries>>
driver == <<life, handle, pages>>
vars == <<nextHandle, list, pc, call, failed, event, refused, made, local, driver, host>>

Init ==
  /\ nextHandle = FirstHandle /\ list = <<>>
  /\ life = [c \in Channels |-> "new"]
  /\ pc = [c \in Channels |-> "idle"]
  /\ call = [c \in Channels |-> "ring"]
  /\ gpadl = [c \in Channels |-> NoHandle]
  /\ left = [c \in Channels |-> 0]
  /\ tries = [c \in Channels |-> 0]
  /\ failed = [c \in Channels |-> FALSE]
  /\ event = [c \in Channels |-> FALSE]
  /\ handle = [c \in Channels |-> [b \in Buffers |-> NoHandle]]
  /\ pages = [c \in Channels |-> {}]
  /\ refused = 0
  /\ toHost = [c \in Channels |-> <<>>]
  /\ answers = {} /\ mapped = {} /\ hostOpen = {}
  /\ made = [c \in Channels |-> {}]

Goto(c, l) == pc' = [pc EXCEPT ![c] = l]

\* Any failed ASSERT stops the kernel.
Panicked == \E c \in Channels : pc[c] = "panic"

\* INSERT_TAIL_LIST with a fresh WaitEvent.
Register(type, c, h) ==
  /\ list' = Append(list, [type |-> type, chan |-> c, gpadl |-> h])
  /\ event' = [event EXCEPT ![c] = FALSE]

\* REMOVE_ENTRY_LIST of the entry of c, which is then freed.
Unlink(c) == list' = RemoveAt(list, CHOOSE i \in DOMAIN list : list[i].chan = c)

\* VmbusPostMessage: the host gets the message, or the caller an error.
Accepted(c, type, h) ==
  /\ toHost' = [toHost EXCEPT ![c] = Append(@, [type |-> type, gpadl |-> h])]
  /\ UNCHANGED refused

Refused ==
  /\ refused < MaxRefused
  /\ refused' = refused + 1
  /\ UNCHANGED toHost

-----------------------------------------------------------------------------
(* VmbusChannelEstablishGpadl, for the ring or for a buffer of the device. *)

\* VmbusChannelOpen up to its call.
Open(c) ==
  /\ pc[c] = "idle" /\ life[c] = "new"
  /\ pages' = [pages EXCEPT ![c] = {"ring"}]
  /\ handle' = [handle EXCEPT ![c].ring = NoHandle]
  /\ call' = [call EXCEPT ![c] = "ring"]
  /\ Goto(c, "take")
  /\ UNCHANGED <<nextHandle, list, failed, event, refused, made, local, life, host>>

\* NetVscInitializeReceiveBufferWithNetVsp up to its call.
InitializeBuffer(c) ==
  /\ pc[c] = "idle" /\ life[c] = "open" /\ "buffer" \notin pages[c]
  /\ Cardinality(made[c]) < MaxShared
  /\ pages' = [pages EXCEPT ![c] = @ \cup {"buffer"}]
  /\ call' = [call EXCEPT ![c] = "buffer"]
  /\ Goto(c, "take")
  /\ UNCHANGED <<nextHandle, list, failed, event, refused, made, local, life, handle, host>>

TakeHandle(c) ==
  /\ pc[c] = "take"
  /\ gpadl' = [gpadl EXCEPT ![c] = nextHandle]
  /\ made' = [made EXCEPT ![c] = @ \cup {nextHandle}]
  /\ Goto(c, "count")
  /\ UNCHANGED <<nextHandle, list, call, failed, event, refused, left, tries, driver, host>>

CountHandle(c) ==
  /\ pc[c] = "count"
  /\ nextHandle' = nextHandle + 1
  /\ Goto(c, "share")
  /\ UNCHANGED <<list, call, failed, event, refused, made, local, driver, host>>

RegisterGpadl(c) ==
  /\ pc[c] = "share"
  /\ Register("gpadl", c, gpadl[c])
  /\ left' = [left EXCEPT ![c] = Bodies]
  /\ tries' = [tries EXCEPT ![c] = 0]
  /\ Goto(c, "header")
  /\ UNCHANGED <<nextHandle, call, failed, refused, made, gpadl, driver, host>>

\* The host learns of the GPADL with the last of its messages.
PostHeader(c) ==
  /\ pc[c] = "header"
  /\ \/ /\ Bodies = 0 /\ Accepted(c, "gpadl", gpadl[c])
        /\ failed' = [failed EXCEPT ![c] = FALSE] /\ Goto(c, "shareWait")
     \/ /\ Bodies > 0 /\ UNCHANGED <<toHost, refused>>
        /\ failed' = [failed EXCEPT ![c] = FALSE] /\ Goto(c, "body")
     \/ /\ Refused
        /\ failed' = [failed EXCEPT ![c] = TRUE] /\ Goto(c, "shareEnd")
  /\ UNCHANGED <<nextHandle, list, call, event, made, local, driver, answers, mapped, hostOpen>>

PostBody(c) ==
  /\ pc[c] = "body"
  /\ left' = [left EXCEPT ![c] = @ - 1]
  /\ \/ /\ left[c] = 1 /\ Accepted(c, "gpadl", gpadl[c]) /\ Goto(c, "shareWait")
     \/ left[c] > 1 /\ UNCHANGED <<toHost, refused, pc>>
  /\ UNCHANGED <<nextHandle, list, call, failed, event, made, gpadl, tries, driver,
                 answers, mapped, hostOpen>>

\* Broken: repeats once more than allowed.
RetryBodyOnceMore(c) ==
  /\ pc[c] = "body" /\ tries[c] <= Retries
  /\ tries' = [tries EXCEPT ![c] = @ + 1]
  /\ UNCHANGED <<nextHandle, list, pc, call, failed, event, refused, made, gpadl, left,
                 driver, host>>

\* HV_STATUS_INSUFFICIENT_BUFFERS.
RetryBody(c) ==
  /\ pc[c] = "body" /\ tries[c] < Retries
  /\ tries' = [tries EXCEPT ![c] = @ + 1]
  /\ UNCHANGED <<nextHandle, list, pc, call, failed, event, refused, made, gpadl, left,
                 driver, host>>

\* ASSERT(ret == 0).
BodyRefused(c) ==
  /\ pc[c] = "body"
  /\ \/ tries[c] = Retries /\ UNCHANGED <<toHost, refused>>
     \/ Refused
  /\ Goto(c, "panic")
  /\ UNCHANGED <<nextHandle, list, call, failed, event, made, local, driver, answers, mapped,
                 hostOpen>>

\* The CreationStatus of the answer is not looked at.
Shared(c) ==
  /\ pc[c] = "shareWait" /\ event[c]
  /\ event' = [event EXCEPT ![c] = FALSE]
  /\ handle' = [handle EXCEPT ![c][call[c]] = gpadl[c]]
  /\ Goto(c, "shareEnd")
  /\ UNCHANGED <<nextHandle, list, call, failed, refused, made, local, life, pages, host>>

\* VmbusChannelOpen goes on whatever the result; the device gives up a
\* buffer that could not be shared (NetVscDestroyReceiveBuffer).
ShareReturns(c) ==
  /\ pc[c] = "shareEnd"
  /\ Unlink(c)
  /\ Goto(c, IF call[c] = "ring" THEN "open" ELSE "idle")
  /\ pages' = IF call[c] = "buffer" /\ failed[c]
                THEN [pages EXCEPT ![c] = @ \ {"buffer"}] ELSE pages
  /\ gpadl' = [gpadl EXCEPT ![c] = NoHandle]
  /\ left' = [left EXCEPT ![c] = 0] /\ tries' = [tries EXCEPT ![c] = 0]
  /\ UNCHANGED <<nextHandle, call, failed, event, refused, made, life, handle, host>>

-----------------------------------------------------------------------------
(* The rest of VmbusChannelOpen.                                           *)

\* ASSERT(openMsg->RingBufferGpadlHandle).
NoRingHandle(c) ==
  /\ pc[c] = "open" /\ handle[c].ring = NoHandle
  /\ Goto(c, "panic")
  /\ UNCHANGED <<nextHandle, list, call, failed, event, refused, made, local, driver, host>>

RegisterOpen(c) ==
  /\ pc[c] = "open" /\ handle[c].ring # NoHandle
  /\ Register("open", c, NoHandle)
  /\ Goto(c, "openPost")
  /\ UNCHANGED <<nextHandle, call, failed, refused, made, local, driver, host>>

PostOpen(c) ==
  /\ pc[c] = "openPost"
  /\ \/ Accepted(c, "open", handle[c].ring) /\ Goto(c, "openWait")
     \/ Refused /\ Goto(c, "openEnd")
  /\ UNCHANGED <<nextHandle, list, call, failed, event, made, local, driver, answers, mapped,
                 hostOpen>>

\* The Status of the answer is only logged.
OpenAnswered(c) ==
  /\ pc[c] = "openWait" /\ event[c]
  /\ event' = [event EXCEPT ![c] = FALSE]
  /\ Goto(c, "openEnd")
  /\ UNCHANGED <<nextHandle, list, call, failed, refused, made, local, driver, host>>

\* Returns 0 in every case: for its driver the channel is open.
OpenReturns(c) ==
  /\ pc[c] = "openEnd"
  /\ Unlink(c)
  /\ life' = [life EXCEPT ![c] = "open"]
  /\ failed' = [failed EXCEPT ![c] = FALSE]
  /\ Goto(c, "idle")
  /\ UNCHANGED <<nextHandle, call, event, refused, made, local, handle, pages, host>>

-----------------------------------------------------------------------------
(* VmbusChannelClose, VmbusChannelTeardownGpadl and their callers.         *)

\* NetVscDestroyReceiveBuffer, for a buffer that was shared.
DestroyBuffer(c) ==
  /\ pc[c] = "idle" /\ life[c] = "open" /\ handle[c].buffer # NoHandle
  /\ call' = [call EXCEPT ![c] = "buffer"]
  /\ Goto(c, "teardown")
  /\ UNCHANGED <<nextHandle, list, failed, event, refused, made, local, driver, host>>

\* The close message has no answer, and its result is ignored.  The device
\* has given its buffer back, unless that failed.
Close(c) ==
  /\ pc[c] = "idle" /\ life[c] = "open"
  /\ "buffer" \notin pages[c] \/ failed[c]
  /\ life' = [life EXCEPT ![c] = "closed"]
  /\ Accepted(c, "close", NoHandle) \/ Refused
  /\ call' = [call EXCEPT ![c] = "ring"]
  /\ Goto(c, "teardown")
  /\ UNCHANGED <<nextHandle, list, failed, event, made, local, handle, pages,
                 answers, mapped, hostOpen>>

RegisterTeardown(c) ==
  /\ pc[c] = "teardown"
  /\ Register("teardown", c, handle[c][call[c]])
  /\ Goto(c, "teardownPost")
  /\ UNCHANGED <<nextHandle, call, failed, refused, made, local, driver, host>>

\* Broken: returns at once after a refusal, and the caller frees the ring.
PostTeardownOrReturn(c) ==
  /\ pc[c] = "teardownPost"
  /\ \/ /\ Accepted(c, "teardown", handle[c][call[c]])
        /\ failed' = [failed EXCEPT ![c] = FALSE] /\ Goto(c, "teardownWait")
     \/ Refused /\ failed' = [failed EXCEPT ![c] = TRUE] /\ Goto(c, "teardownEnd")
  /\ UNCHANGED <<nextHandle, list, call, event, made, local, driver, answers, mapped, hostOpen>>

\* A refused message is waited for like one that was sent.
PostTeardown(c) ==
  /\ pc[c] = "teardownPost"
  /\ \/ /\ Accepted(c, "teardown", handle[c][call[c]])
        /\ failed' = [failed EXCEPT ![c] = FALSE]
     \/ Refused /\ failed' = [failed EXCEPT ![c] = TRUE]
  /\ Goto(c, "teardownWait")
  /\ UNCHANGED <<nextHandle, list, call, event, made, local, driver, answers, mapped, hostOpen>>

Torndown(c) ==
  /\ pc[c] = "teardownWait" /\ event[c]
  /\ event' = [event EXCEPT ![c] = FALSE]
  /\ Goto(c, "teardownEnd")
  /\ UNCHANGED <<nextHandle, list, call, failed, refused, made, local, driver, host>>

\* NetVscDestroyReceiveBuffer leaks the buffer after a failure;
\* VmbusChannelClose frees the ring whatever the result.
TeardownReturns(c) ==
  /\ pc[c] = "teardownEnd"
  /\ Unlink(c)
  /\ IF call[c] = "buffer" /\ failed[c]
       THEN UNCHANGED <<handle, pages>>
       ELSE /\ pages' = [pages EXCEPT ![c] = @ \ {call[c]}]
            /\ handle' = IF call[c] = "buffer"
                           THEN [handle EXCEPT ![c].buffer = NoHandle] ELSE handle
  /\ Goto(c, "idle")
  /\ UNCHANGED <<nextHandle, call, failed, event, refused, made, local, life, host>>

-----------------------------------------------------------------------------
(* The host (external): it acts on the requests of a channel in order, and *)
(* may fail to make a GPADL or to open a channel.                          *)

Answer(type, c, h) == answers' = answers \cup {[type |-> type, chan |-> c, gpadl |-> h]}

HostActs(c) ==
  /\ toHost[c] # <<>>
  /\ toHost' = [toHost EXCEPT ![c] = Tail(@)]
  /\ LET m == Head(toHost[c])
         g == [chan |-> c, gpadl |-> m.gpadl]
     IN  \/ /\ m.type = "gpadl"
            /\ mapped' \in {mapped, mapped \cup {g}}
            /\ Answer("gpadl", c, m.gpadl) /\ UNCHANGED hostOpen
         \/ /\ m.type = "open"
            /\ \/ UNCHANGED hostOpen
               \/ g \in mapped /\ hostOpen' = hostOpen \cup {c}
            /\ Answer("open", c, NoHandle) /\ UNCHANGED mapped
         \/ /\ m.type = "teardown"
            /\ mapped' = mapped \ {g}
            /\ Answer("teardown", c, m.gpadl) /\ UNCHANGED hostOpen
         \/ /\ m.type = "close"
            /\ hostOpen' = hostOpen \ {c}
            /\ UNCHANGED <<mapped, answers>>
  /\ UNCHANGED <<nextHandle, list, pc, call, failed, event, refused, made, local, driver>>

-----------------------------------------------------------------------------
(* The handlers of the answers, run by the worker.                         *)

\* The first entry among those that match is woken.
Wake(a, matches) ==
  /\ answers' = answers \ {a}
  /\ event' = IF matches = {} THEN event
              ELSE [event EXCEPT ![list[Min(matches)].chan] = TRUE]
  /\ UNCHANGED <<nextHandle, list, pc, call, failed, refused, made, local, driver,
                 toHost, mapped, hostOpen>>

OnOpenResult(a) ==
  /\ a.type = "open"
  /\ Wake(a, {i \in DOMAIN list : list[i].type = "open" /\ list[i].chan = a.chan})

\* Broken: does not compare the channels.
OnGpadlCreatedAnyChannel(a) ==
  /\ a.type = "gpadl"
  /\ Wake(a, {i \in DOMAIN list : list[i].type = "gpadl" /\ list[i].gpadl = a.gpadl})

OnGpadlCreated(a) ==
  /\ a.type = "gpadl"
  /\ Wake(a, {i \in DOMAIN list :
                list[i].type = "gpadl" /\ list[i].chan = a.chan /\ list[i].gpadl = a.gpadl})

\* Broken: looks at the head of the list only.
OnGpadlTorndownHead(a) ==
  /\ a.type = "teardown"
  /\ Wake(a, {i \in DOMAIN list \cap {1} : list[i].type = "teardown" /\ list[i].gpadl = a.gpadl})

\* The message does not name the channel.
OnGpadlTorndown(a) ==
  /\ a.type = "teardown"
  /\ Wake(a, {i \in DOMAIN list : list[i].type = "teardown" /\ list[i].gpadl = a.gpadl})

-----------------------------------------------------------------------------
Establish(c) ==
  \/ TakeHandle(c) \/ CountHandle(c) \/ RegisterGpadl(c) \/ PostHeader(c)
  \/ PostBody(c) \/ RetryBody(c) \/ BodyRefused(c) \/ Shared(c) \/ ShareReturns(c)
OpenChannel(c) ==
  \/ NoRingHandle(c) \/ RegisterOpen(c) \/ PostOpen(c) \/ OpenAnswered(c) \/ OpenReturns(c)
Teardown(c) ==
  RegisterTeardown(c) \/ PostTeardown(c) \/ Torndown(c) \/ TeardownReturns(c)
Driver(c) == Open(c) \/ InitializeBuffer(c) \/ DestroyBuffer(c) \/ Close(c)
Worker == \E a \in answers : OnOpenResult(a) \/ OnGpadlCreated(a) \/ OnGpadlTorndown(a)

Next ==
  /\ ~Panicked
  /\ \/ \E c \in Channels :
          Driver(c) \/ Establish(c) \/ OpenChannel(c) \/ Teardown(c) \/ HostActs(c)
     \/ Worker

Spec == Init /\ [][Next]_vars

-----------------------------------------------------------------------------
Steps == {"idle", "take", "count", "share", "header", "body", "shareWait", "shareEnd",
          "open", "openPost", "openWait", "openEnd",
          "teardown", "teardownPost", "teardownWait", "teardownEnd", "panic"}
Types == {"gpadl", "open", "teardown"}
Handles == Nat
Requests == [type : Types, chan : Channels, gpadl : Handles]
Messages == [type : Types \cup {"close"}, gpadl : Handles]

\* The call of c has its entry in the list.
Registered(c) == pc[c] \notin {"idle", "take", "count", "share", "open", "teardown", "panic"}

StateOK ==
  /\ nextHandle \in Handles /\ nextHandle >= FirstHandle
  /\ list \in Seq(Requests)
  /\ life \in [Channels -> {"new", "open", "closed"}]
  /\ pc \in [Channels -> Steps]
  /\ call \in [Channels -> Buffers]
  /\ gpadl \in [Channels -> Handles]
  /\ left \in [Channels -> 0..Bodies]
  /\ tries \in [Channels -> 0..Retries]
  /\ failed \in [Channels -> BOOLEAN]
  /\ event \in [Channels -> BOOLEAN]
  /\ handle \in [Channels -> [Buffers -> Handles]]
  /\ pages \in [Channels -> SUBSET Buffers]
  /\ refused \in 0..MaxRefused
  /\ toHost \in [Channels -> Seq(Messages)]
  /\ answers \subseteq Requests
  /\ mapped \subseteq [chan : Channels, gpadl : Handles]
  /\ hostOpen \subseteq Channels
  /\ made \in [Channels -> SUBSET Handles]

\* Types; and every thread has at most one entry in the list, which is there
\* from the registration of its request until the call returns, never
\* doubled and never left behind.
TypeOK ==
  /\ StateOK
  /\ \A c \in Channels :
       pc[c] # "panic" =>
         Cardinality({i \in DOMAIN list : list[i].chan = c}) = IF Registered(c) THEN 1 ELSE 0

\* The handle of a GPADL is its name: no two channels use the same one.
\* (TakeHandle and CountHandle are two steps, of threads that run at once.)
HandleNamesOneGpadl ==
  \A c, d \in Channels : c # d => made[c] \cap made[d] = {}

IsSingleton(S) == \E p \in S : S = {p}

\* Where the answer to the request of c of type t can be: still to be given
\* by the host, on its way, or noted in the event the thread waits for.
Places(c, t) ==
  {p \in {"asked", "answered", "woken"} :
     \/ p = "asked" /\ \E i \in DOMAIN toHost[c] : toHost[c][i].type = t
     \/ p = "answered" /\ \E a \in answers : a.type = t /\ a.chan = c
     \/ p = "woken" /\ event[c]}

\* A thread that waits for a GPADL or for an open has exactly one answer to
\* come, whatever the others do at the same time and even when two channels
\* took the same handle: no answer is lost, given to another request or
\* given twice.
AnswerToCome ==
  \A c \in Channels :
    /\ pc[c] = "shareWait" => IsSingleton(Places(c, "gpadl"))
    /\ pc[c] = "openWait" => IsSingleton(Places(c, "open"))

\* The same for a teardown that was posted, as long as handles are names:
\* OnGpadlTorndown has nothing else to find its request by.
TorndownToCome ==
  HandleNamesOneGpadl =>
    \A c \in Channels :
      pc[c] = "teardownWait" /\ ~failed[c] => IsSingleton(Places(c, "teardown"))

\* What the host can reach is allocated: no pages are freed while a GPADL
\* of them exists, as long as handles are names.
MappedIsAllocated ==
  HandleNamesOneGpadl =>
    \A g \in mapped : \E b \in pages[g.chan] :
      g.gpadl = handle[g.chan][b] \/ (call[g.chan] = b /\ g.gpadl = gpadl[g.chan])
=============================================================================
