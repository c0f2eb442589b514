------------------------------ MODULE NetDevice ------------------------------
(***************************************************************************)
(* The life of a NETVSC_DEVICE (netvsc/hv_net_vsc.c): its reference count, *)
(* the sends it has outstanding, and the two ways it goes away, the        *)
(* clean-up of a failing NetVscOnDeviceAdd and NetVscOnDeviceRemove.       *)
(*                                                                         *)
(* A count of 2 lets traffic through both ways, 1 only inbound, 0 none.    *)
(* Senders run NetVscOnSend, Callbacks run NetVscOnChannelCallback, and    *)
(* one manager thread adds and removes the device.  Taking a reference is  *)
(* three separate accesses (load the extension, test the count, add one),  *)
(* so the manager can act between any two of them.                         *)
(*                                                                         *)
(* The nested references that NetVscOnSendCompletion and NetVscOnReceive   *)
(* take and drop inside the callback are folded into its own.              *)
(***************************************************************************)
EXTENDS Integers, FiniteSets

CONSTANTS
  Senders,
  Callbacks,
  MaxSends,     \* bound: calls of NetVscOnSend
  MaxFailures,  \* bound: sends the ring refuses
  MaxOthers,    \* bound: inbound packets other than send completions
  MaxPolls      \* bound: callbacks that find nothing to do

ASSUME ThreadsAssumption ==
  Senders \cap Callbacks = {} /\ IsFiniteSet(Senders) /\ IsFiniteSet(Callbacks)
ASSUME BoundsAssumption == {MaxSends, MaxFailures, MaxOthers, MaxPolls} \subseteq Nat

VARIABLES
  extension,    \* Device->Extension is not NULL
  freed,        \* FreeNetDevice ran
  refCount,     \* RefCount
  outstanding,  \* NumOutstandingSends
  channelOpen,
  path,         \* which way the manager is on: "add", "fail" or "remove"
  step,         \* where on it
  pc,           \* where each sender and callback is
  calls,        \* calls of NetVscOnSend so far
  failures,     \* sends the ring refused so far
  inFlight,     \* sends the host has not completed
  completions,  \* send completions in the inbound ring
  others,       \* other packets in the inbound ring
  arrived,      \* those that ever arrived
  polls

device == <<extension, freed, refCount, outstanding>>
manager == <<path, step, channelOpen>>
traffic == <<inFlight, completions, others, arrived>>
counters == <<calls, failures, polls>>
vars == <<device, manager, traffic, counters, pc>>

Threads == Senders \cup Callbacks

Init ==
  /\ extension = FALSE /\ freed = FALSE /\ refCount = 0 /\ outstanding = 0
  /\ channelOpen = FALSE /\ path = "add" /\ step = "alloc"
  /\ pc = [t \in Threads |-> "idle"]
  /\ calls = 0 /\ failures = 0 /\ polls = 0
  /\ inFlight = 0 /\ completions = 0 /\ others = 0 /\ arrived = 0

Goto(t, l) == pc' = [pc EXCEPT ![t] = l]

-----------------------------------------------------------------------------
(* The manager: NetVscOnDeviceAdd and NetVscOnDeviceRemove.                *)

\* The steps of each way, in the order of the code.  The failing add closes
\* the channel and releases what the device owns first; the removal disables
\* all traffic before it does either.
After ==
  [add    |-> [alloc |-> "open", open |-> "connect", connect |-> "up"],
   fail   |-> [close |-> "release", release |-> "stopOutbound",
               stopOutbound |-> "stopInbound", stopInbound |-> "free",
               free |-> "gone"],
   remove |-> [stopOutbound |-> "waitSends", waitSends |-> "disconnect",
               disconnect |-> "stopInbound", stopInbound |-> "close",
               close |-> "release", release |-> "free", free |-> "gone"]]

At(s) == step = s /\ step' = After[path][s]

AllocNetDevice ==
  /\ At("alloc")
  /\ extension' = TRUE /\ refCount' = 2
  /\ UNCHANGED <<freed, outstanding, path, channelOpen, traffic, counters, pc>>

OpenChannel ==
  /\ At("open")
  /\ channelOpen' = TRUE
  /\ UNCHANGED <<device, path, traffic, counters, pc>>

\* goto Cleanup, before there is a channel to close.
OpenFails ==
  /\ step = "open"
  /\ path' = "fail" /\ step' = "release"
  /\ UNCHANGED <<device, channelOpen, traffic, counters, pc>>

ConnectToVsp ==
  /\ At("connect")
  /\ UNCHANGED <<device, path, channelOpen, traffic, counters, pc>>

\* goto Close
ConnectFails ==
  /\ step = "connect"
  /\ path' = "fail" /\ step' = "close"
  /\ UNCHANGED <<device, channelOpen, traffic, counters, pc>>

OnDeviceRemove ==
  /\ step = "up"
  /\ path' = "remove" /\ step' = "stopOutbound"
  /\ UNCHANGED <<device, channelOpen, traffic, counters, pc>>

\* Broken: takes any count for one with no holders.
ReleaseAnyOutbound ==
  /\ At("stopOutbound")
  /\ refCount >= 2
  /\ refCount' = refCount - 1
  /\ UNCHANGED <<extension, freed, outstanding, path, channelOpen, traffic,
                 counters, pc>>

\* The compare-and-exchange that ends the busy wait.
ReleaseOutboundNetDevice ==
  /\ At("stopOutbound")
  /\ refCount = 2
  /\ refCount' = 1
  /\ UNCHANGED <<extension, freed, outstanding, path, channelOpen, traffic,
                 counters, pc>>

WaitSends ==
  /\ At("waitSends")
  /\ outstanding = 0
  /\ UNCHANGED <<device, path, channelOpen, traffic, counters, pc>>

\* NetVscDisconnectFromVsp, whose failures are ignored.
Disconnect ==
  /\ At("disconnect")
  /\ UNCHANGED <<device, path, channelOpen, traffic, counters, pc>>

ReleaseInboundNetDevice ==
  /\ At("stopInbound")
  /\ refCount = 1
  /\ refCount' = 0
  /\ extension' = FALSE
  /\ UNCHANGED <<freed, outstanding, path, channelOpen, traffic, counters, pc>>

CloseChannel ==
  /\ At("close")
  /\ channelOpen' = FALSE
  /\ UNCHANGED <<device, path, traffic, counters, pc>>

\* The receive packets, their lock and the event.
ReleaseResources ==
  /\ At("release")
  /\ UNCHANGED <<device, path, channelOpen, traffic, counters, pc>>

FreeNetDevice ==
  /\ At("free")
  /\ refCount = 0
  /\ extension' = FALSE
  /\ freed' = TRUE
  /\ UNCHANGED <<refCount, outstanding, path, channelOpen, traffic, counters, pc>>

\* ASSERT(RefCount == 0) fails: somebody still holds a reference.
FreeAsserts ==
  /\ step = "free"
  /\ refCount # 0
  /\ step' = "panic"
  /\ UNCHANGED <<device, path, channelOpen, traffic, counters, pc>>

Manager ==
  \/ AllocNetDevice \/ OpenChannel \/ OpenFails \/ ConnectToVsp \/ ConnectFails
  \/ ReleaseOutboundNetDevice \/ WaitSends \/ Disconnect
  \/ ReleaseInboundNetDevice \/ CloseChannel \/ ReleaseResources
  \/ FreeNetDevice \/ FreeAsserts

-----------------------------------------------------------------------------
(* References.                                                             *)

\* The extension is loaded; NULL ends the call.
Load(t) ==
  /\ extension
  /\ Goto(t, "test")

\* The count is tested against least, 1 outbound and 0 inbound.
Test(t, least) ==
  /\ pc[t] = "test"
  /\ Goto(t, IF refCount > least THEN "get" ELSE "idle")
  /\ UNCHANGED <<device, manager, traffic, counters>>

Get(t) ==
  /\ pc[t] = "get"
  /\ refCount' = refCount + 1
  /\ Goto(t, "use")
  /\ UNCHANGED <<extension, freed, outstanding, manager, traffic, counters>>

\* Broken: drops the reference twice, as the Count == 0 branch of
\* NetVscOnReceiveCompletion would.
PutTwice(t) ==
  /\ pc[t] = "put"
  /\ extension
  /\ refCount' = refCount - 2
  /\ Goto(t, "idle")
  /\ UNCHANGED <<extension, freed, outstanding, manager, traffic, counters>>

PutNetDevice(t) ==
  /\ pc[t] = "put"
  /\ extension
  /\ refCount' = refCount - 1
  /\ Goto(t, "idle")
  /\ UNCHANGED <<extension, freed, outstanding, manager, traffic, counters>>

\* ASSERT(netDevice) fails: the reference was no protection.
PutAsserts(t) ==
  /\ pc[t] = "put"
  /\ ~ extension
  /\ Goto(t, "panic")
  /\ UNCHANGED <<device, manager, traffic, counters>>

-----------------------------------------------------------------------------
(* NetVscOnSend.                                                           *)

\* The interface exists once NetVscOnDeviceAdd returned 0.
Attached == step = "up" \/ path = "remove"

OnSend(s) ==
  /\ pc[s] = "idle"
  /\ Attached
  /\ calls < MaxSends
  /\ calls' = calls + 1
  /\ Load(s)
  /\ UNCHANGED <<device, manager, traffic, failures, polls>>

SendAccepted(s) ==
  /\ pc[s] = "use"
  /\ channelOpen
  /\ inFlight' = inFlight + 1
  /\ Goto(s, "count")
  /\ UNCHANGED <<device, manager, completions, others, arrived, counters>>

\* Broken: returns at once, keeping its reference.
RefusedReturns(s) ==
  /\ pc[s] = "use"
  /\ failures < MaxFailures
  /\ failures' = failures + 1
  /\ Goto(s, "idle")
  /\ UNCHANGED <<device, manager, traffic, calls, polls>>

\* The ring is full.  The code reports it and goes on all the same.
SendRefused(s) ==
  /\ pc[s] = "use"
  /\ failures < MaxFailures
  /\ failures' = failures + 1
  /\ Goto(s, "count")
  /\ UNCHANGED <<device, manager, traffic, calls, polls>>

\* A closed channel takes nothing.
SendClosed(s) ==
  /\ pc[s] = "use"
  /\ ~ channelOpen
  /\ Goto(s, "count")
  /\ UNCHANGED <<device, manager, traffic, counters>>

\* Broken: a send is not counted.
SkipCount(s) ==
  /\ pc[s] = "count"
  /\ Goto(s, "put")
  /\ UNCHANGED <<device, manager, traffic, counters>>

\* After the send, whatever became of it.
CountSend(s) ==
  /\ pc[s] = "count"
  /\ outstanding' = outstanding + 1
  /\ Goto(s, "put")
  /\ UNCHANGED <<extension, freed, refCount, manager, traffic, counters>>

Send(s) ==
  \/ Test(s, 1) \/ Get(s) \/ SendAccepted(s) \/ SendRefused(s) \/ SendClosed(s)
  \/ CountSend(s) \/ PutNetDevice(s) \/ PutAsserts(s)

-----------------------------------------------------------------------------
(* The host (external) and NetVscOnChannelCallback.                        *)

HostCompletes ==
  /\ inFlight > 0
  /\ inFlight' = inFlight - 1
  /\ completions' = completions + 1
  /\ UNCHANGED <<device, manager, others, arrived, counters, pc>>

HostSends ==
  /\ channelOpen
  /\ arrived < MaxOthers
  /\ arrived' = arrived + 1
  /\ others' = others + 1
  /\ UNCHANGED <<device, manager, inFlight, completions, counters, pc>>

\* The event or the polling timer of an open channel calls back.
OnChannelCallback(c) ==
  /\ pc[c] = "idle"
  /\ channelOpen
  /\ completions + others > 0
  /\ Load(c)
  /\ UNCHANGED <<device, manager, traffic, counters>>

Poll(c) ==
  /\ pc[c] = "idle"
  /\ channelOpen
  /\ completions + others = 0
  /\ polls < MaxPolls
  /\ polls' = polls + 1
  /\ Load(c)
  /\ UNCHANGED <<device, manager, traffic, calls, failures>>

\* NetVscOnSendCompletion; it ignores the packet if the device is gone.
OnSendCompletion(c) ==
  /\ pc[c] = "use"
  /\ completions > 0
  /\ completions' = completions - 1
  /\ outstanding' = IF extension /\ refCount # 0 THEN outstanding - 1 ELSE outstanding
  /\ UNCHANGED <<extension, freed, refCount, manager, inFlight, others, arrived,
                 counters, pc>>

OnOther(c) ==
  /\ pc[c] = "use"
  /\ others > 0
  /\ others' = others - 1
  /\ UNCHANGED <<device, manager, inFlight, completions, arrived, counters, pc>>

RingEmpty(c) ==
  /\ pc[c] = "use"
  /\ completions + others = 0
  /\ Goto(c, "put")
  /\ UNCHANGED <<device, manager, traffic, counters>>

Callback(c) ==
  \/ Test(c, 0) \/ Get(c) \/ OnSendCompletion(c) \/ OnOther(c) \/ RingEmpty(c)
  \/ PutNetDevice(c) \/ PutAsserts(c)

-----------------------------------------------------------------------------
Next ==
  \/ Manager \/ OnDeviceRemove
  \/ \E s \in Senders : OnSend(s) \/ Send(s)
  \/ \E c \in Callbacks : OnChannelCallback(c) \/ Poll(c) \/ Callback(c)
  \/ HostCompletes \/ HostSends

Spec == Init /\ [][Next]_vars

\* Threads inside a call run on, the host completes what it accepted, and the
\* channel calls back while something is in the ring.  Calls and polls are
\* bounded, so the manager's busy waits need no more than weak fairness.
FairSpec ==
  /\ Spec
  /\ WF_vars(Manager)
  /\ \A s \in Senders : WF_vars(Send(s))
  /\ \A c \in Callbacks : WF_vars(Callback(c)) /\ WF_vars(OnChannelCallback(c))
  /\ WF_vars(HostCompletes)

-----------------------------------------------------------------------------
(* Properties.                                                             *)

ThreadSteps == {"idle", "test", "get", "use", "count", "put", "panic"}

\* Every variable keeps its type.  RefCount never falls below zero;
\* NumOutstandingSends does, when the callback sees the completion of a send before
\* its sender has counted it, by as many as there are such senders and no more.
TypeOK ==
  /\ {extension, freed, channelOpen} \subseteq BOOLEAN
  /\ refCount \in Nat /\ outstanding \in Int
  /\ outstanding >= - Cardinality({s \in Senders : pc[s] = "count"})
  /\ path \in DOMAIN After
  /\ step \in {"up", "gone", "panic"} \cup DOMAIN After[path]
  /\ pc \in [Threads -> ThreadSteps]
  /\ {calls, failures, polls, inFlight, completions, others, arrived} \subseteq Nat

\* The threads between their get and their put.
Holders == {t \in Threads : pc[t] \in {"use", "count", "put", "panic"}}

InboundCut ==
  \/ path = "remove" /\ step \in {"close", "release", "free", "gone", "panic"}
  \/ path = "fail" /\ step \in {"free", "gone", "panic"}
OutboundCut ==
  \/ path = "remove" /\ step # "stopOutbound"
  \/ path = "fail" /\ step \in {"stopInbound", "free", "gone", "panic"}

\* What the manager's own steps leave of the count.
Base ==
  IF step = "alloc" \/ InboundCut THEN 0 ELSE IF OutboundCut THEN 1 ELSE 2

\* The count is exact: the manager's share and one for every thread between
\* its get and its put, however their steps interleave.
RefCountIsHolders == refCount = Base + Cardinality(Holders)

\* When outbound traffic is cut, nobody is in the middle of a send and no
\* callback is running: the busy wait is for all of them.
CutFindsNoHolder ==
  [][step = "stopOutbound" /\ step' # step => Holders = {}]_vars

\* The sends the removal waits for are those the host has not completed,
\* those whose completion waits in the ring, those the ring refused, less
\* those a sender has not counted yet.
OutstandingIsSends ==
  ~ freed /\ extension =>
    outstanding = inFlight + completions + failures
                  - Cardinality({s \in Senders : pc[s] = "count"})

\* "At this point, no one should be accessing netDevice except in here".
NobodyElseHoldsIt ==
  path = "remove" /\ InboundCut => Holders = {}

\* A device that starts to go away is freed, unless a send of it failed (it was
\* counted, and no completion will come for it) or the kernel has panicked in an ASSERT because a thread got its
\* reference too late.
GoesAway ==
  path # "add" ~>
    step \in {"gone", "panic"} \/ failures > 0 \/ \E t \in Threads : pc[t] = "panic"
=============================================================================
