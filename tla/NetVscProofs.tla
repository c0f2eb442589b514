----------------------------- MODULE NetVscProofs -----------------------------
(***************************************************************************)
(* Proofs about the two halves of netvsc/hv_net_vsc.c, each for any number *)
(* of threads and any bounds.                                              *)
(*                                                                         *)
(* NetDevice: the reference count is exact, so the compare-and-exchange    *)
(* that cuts outbound traffic finds nobody inside; and the sends the       *)
(* removal waits for are exact as well, which takes that count to be.      *)
(*                                                                         *)
(* NetVscRecv: each receive packet is in one place, however the ranges of  *)
(* a transfer come back, and each transfer is completed once and last.     *)
(***************************************************************************)
EXTENDS NetDevice, NetVscRecv, FiniteSetTheorems, SequenceTheorems, TLAPS

-----------------------------------------------------------------------------
(* The life of the device.                                                 *)

\* What RefCountIsHolders needs to be inductive: where the manager can be on
\* each way, and that nobody runs before the device is allocated.
Places ==
  /\ path \in {"add", "fail", "remove"}
  /\ path = "add" => step \in {"alloc", "open", "connect", "up"}
  /\ path = "fail" =>
       step \in {"close", "release", "stopOutbound", "stopInbound", "free", "gone",
                "panic"}
  /\ path = "remove" =>
       step \in {"stopOutbound", "waitSends", "disconnect", "stopInbound",
                 "close", "release", "free", "gone", "panic"}

Quiet == step = "alloc" => ~ extension /\ \A t \in Threads : pc[t] = "idle"

IInv ==
  /\ Places
  /\ pc \in [Threads -> ThreadSteps]
  /\ refCount \in Int
  /\ Quiet
  /\ RefCountIsHolders

Holding == {"use", "count", "put", "panic"}

LEMMA ThreadsFinite ==
  /\ IsFiniteSet(Threads)
  /\ IsFiniteSet(Holders) /\ Cardinality(Holders) \in Nat
<1>1. IsFiniteSet(Threads)
  BY ThreadsAssumption, FS_Union DEF Threads
<1>2. Holders \subseteq Threads
  BY DEF Holders
<1> QED
  BY <1>1, <1>2, FS_Subset, FS_CardinalityType

\* A thread that stays on its side leaves the set of holders as it is.
LEMMA SameHolders ==
  ASSUME pc \in [Threads -> ThreadSteps], NEW t \in Threads, NEW l \in ThreadSteps,
         Goto(t, l), pc[t] \in Holding <=> l \in Holding
  PROVE  pc' \in [Threads -> ThreadSteps] /\ Holders' = Holders
<1>1. pc' \in [Threads -> ThreadSteps]
  BY DEF Goto
<1>2. \A u \in Threads : pc'[u] \in Holding <=> pc[u] \in Holding
  BY DEF Goto
<1> QED
  BY <1>1, <1>2 DEF Holders, Holding

\* A get adds its thread to the holders, a put takes it away.
LEMMA GetCounts ==
  ASSUME pc \in [Threads -> ThreadSteps], NEW t \in Threads,
         Goto(t, "use"), pc[t] \notin Holding
  PROVE  /\ pc' \in [Threads -> ThreadSteps]
         /\ Cardinality(Holders') = Cardinality(Holders) + 1
<1>1. pc' \in [Threads -> ThreadSteps]
  BY DEF Goto, ThreadSteps
<1>2. t \notin Holders
  BY DEF Holders, Holding
<1>3. Holders' = Holders \cup {t}
  BY DEF Holders, Goto
<1> QED
  BY <1>1, <1>2, <1>3, ThreadsFinite, FS_AddElement

LEMMA PutCounts ==
  ASSUME pc \in [Threads -> ThreadSteps], NEW t \in Threads,
         Goto(t, "idle"), pc[t] \in Holding
  PROVE  /\ pc' \in [Threads -> ThreadSteps]
         /\ Cardinality(Holders') = Cardinality(Holders) - 1
<1>1. pc' \in [Threads -> ThreadSteps]
  BY DEF Goto, ThreadSteps
<1>2. t \in Holders
  BY DEF Holders, Holding
<1>3. Holders' = Holders \ {t}
  BY DEF Holders, Goto
<1> QED
  BY <1>1, <1>2, <1>3, ThreadsFinite, FS_RemoveElement

\* Steps that leave the manager, the count and the holders alone.
LEMMA NothingCounted ==
  ASSUME IInv, UNCHANGED <<extension, refCount, path, step>>,
         pc' \in [Threads -> ThreadSteps], Holders' = Holders,
         step = "alloc" => pc' = pc
  PROVE  IInv'
<1>1. Base' = Base
  BY DEF Base, InboundCut, OutboundCut
<1>2. RefCountIsHolders'
  <2>1. Cardinality(Holders)' = Cardinality(Holders)
    OBVIOUS
  <2> QED
    BY <1>1, <2>1 DEF IInv, RefCountIsHolders
<1> QED
  BY <1>2 DEF IInv, Places, Quiet

\* A step of the manager that changes the count by what its own share changes.
LEMMA ManagerCounts ==
  ASSUME IInv, Places', pc' = pc, step' # "alloc", refCount' \in Int,
         refCount' - Base' = refCount - Base
  PROVE  IInv'
<1>1. Base \in Int /\ Base' \in Int
  BY DEF Base
<1>2. Holders' = Holders
  BY DEF Holders
<1>3. RefCountIsHolders'
  <2>1. Cardinality(Holders)' = Cardinality(Holders)
    BY <1>2
  <2>2. refCount = Base + Cardinality(Holders)
    BY DEF IInv, RefCountIsHolders
  <2>3. refCount' = Base' + Cardinality(Holders)
    BY <1>1, <2>2, ThreadsFinite DEF IInv
  <2> QED
    BY <2>1, <2>3 DEF RefCountIsHolders
<1> QED
  BY <1>3 DEF IInv, Quiet

\* A step that changes the count and the holders alike.
LEMMA CountMoves ==
  ASSUME IInv, pc' \in [Threads -> ThreadSteps], step # "alloc",
         UNCHANGED <<path, step>>, refCount' \in Int,
         refCount' - Cardinality(Holders') = refCount - Cardinality(Holders)
  PROVE  IInv'
<1>1. Base' = Base /\ Base \in Int
  BY DEF Base, InboundCut, OutboundCut
<1>2. Holders' \subseteq Threads
  BY DEF Holders, Threads
<1>3. Cardinality(Holders') \in Nat
  BY <1>2, ThreadsFinite, FS_Subset, FS_CardinalityType
<1>4. Cardinality(Holders)' = Cardinality(Holders')
  OBVIOUS
<1> QED
  BY <1>1, <1>3, <1>4, ThreadsFinite DEF IInv, Places, Quiet, RefCountIsHolders

\* A step of a thread that takes no reference and drops none.
LEMMA ThreadMoves ==
  ASSUME IInv, NEW t \in Threads, NEW l \in ThreadSteps, Goto(t, l),
         pc[t] \in Holding <=> l \in Holding, step # "alloc",
         UNCHANGED <<extension, refCount, path, step>>
  PROVE  IInv'
BY SameHolders, NothingCounted DEF IInv

\* Nobody is inside a call before the device is allocated.
LEMMA NobodyEarly ==
  ASSUME IInv, NEW t \in Threads, extension \/ pc[t] # "idle"
  PROVE  step # "alloc"
BY DEF IInv, Quiet

LEMMA ReferenceKeeps ==
  ASSUME IInv, NEW t \in Threads, NEW least \in {0, 1},
         Test(t, least) \/ Get(t) \/ PutNetDevice(t) \/ PutAsserts(t)
  PROVE  IInv'
<1>1. CASE Test(t, least)
  <2>1. PICK l \in {"get", "idle"} : Goto(t, l)
    BY <1>1 DEF Test
  <2>2. pc[t] = "test" /\ step # "alloc" /\ l \in ThreadSteps
    BY <1>1, NobodyEarly DEF Test, ThreadSteps
  <2> QED
    BY <1>1, <2>1, <2>2, ThreadMoves DEF Test, Holding, device, manager
<1>2. CASE Get(t)
  <2>1. /\ pc[t] = "get" /\ Goto(t, "use") /\ step # "alloc"
        /\ refCount' = refCount + 1 /\ UNCHANGED <<extension, path, step>>
    BY <1>2, NobodyEarly DEF Get, manager
  <2>2. pc' \in [Threads -> ThreadSteps] /\ Cardinality(Holders') = Cardinality(Holders) + 1
    BY <2>1, GetCounts DEF IInv, Holding
  <2>3. refCount' \in Int /\ refCount' - Cardinality(Holders') = refCount - Cardinality(Holders)
    BY <2>1, <2>2, ThreadsFinite DEF IInv
  <2> QED
    BY <2>1, <2>2, <2>3, CountMoves
<1>3. CASE PutNetDevice(t)
  <2>1. /\ pc[t] = "put" /\ Goto(t, "idle") /\ step # "alloc"
        /\ refCount' = refCount - 1 /\ UNCHANGED <<extension, path, step>>
    BY <1>3, NobodyEarly DEF PutNetDevice, manager
  <2>2. pc' \in [Threads -> ThreadSteps] /\ Cardinality(Holders') = Cardinality(Holders) - 1
    BY <2>1, PutCounts DEF IInv, Holding
  <2>3. refCount' \in Int /\ refCount' - Cardinality(Holders') = refCount - Cardinality(Holders)
    BY <2>1, <2>2, ThreadsFinite DEF IInv
  <2> QED
    BY <2>1, <2>2, <2>3, CountMoves
<1>4. CASE PutAsserts(t)
  <2>1. pc[t] = "put" /\ Goto(t, "panic") /\ step # "alloc"
    BY <1>4, NobodyEarly DEF PutAsserts
  <2> QED
    BY <1>4, <2>1, ThreadMoves DEF PutAsserts, Holding, ThreadSteps, device, manager
<1> QED
  BY <1>1, <1>2, <1>3, <1>4

LEMMA SendKeeps ==
  ASSUME IInv, NEW s \in Senders, OnSend(s) \/ Send(s)
  PROVE  IInv'
<1> s \in Threads
  BY DEF Threads
<1>1. CASE OnSend(s)
  <2>1. pc[s] = "idle" /\ Goto(s, "test") /\ step # "alloc"
    BY <1>1, NobodyEarly DEF OnSend, Load
  <2> QED
    BY <1>1, <2>1, ThreadMoves DEF OnSend, Holding, ThreadSteps, device, manager
<1>2. CASE Test(s, 1) \/ Get(s) \/ PutNetDevice(s) \/ PutAsserts(s)
  BY <1>2, ReferenceKeeps
<1>3. CASE SendAccepted(s) \/ SendRefused(s) \/ SendClosed(s)
  <2>1. pc[s] = "use" /\ Goto(s, "count") /\ step # "alloc"
    BY <1>3, NobodyEarly DEF SendAccepted, SendRefused, SendClosed
  <2>2. UNCHANGED <<extension, refCount, path, step>>
    BY <1>3 DEF SendAccepted, SendRefused, SendClosed, device, manager
  <2> QED
    BY <2>1, <2>2, ThreadMoves DEF Holding, ThreadSteps
<1>4. CASE CountSend(s)
  <2>1. pc[s] = "count" /\ Goto(s, "put") /\ step # "alloc"
    BY <1>4, NobodyEarly DEF CountSend
  <2> QED
    BY <1>4, <2>1, ThreadMoves DEF CountSend, Holding, ThreadSteps, manager
<1> QED
  BY <1>1, <1>2, <1>3, <1>4 DEF Send

LEMMA CallbackKeeps ==
  ASSUME IInv, NEW c \in Callbacks, OnChannelCallback(c) \/ Poll(c) \/ Callback(c)
  PROVE  IInv'
<1> c \in Threads
  BY DEF Threads
<1>1. CASE OnChannelCallback(c) \/ Poll(c)
  <2>1. pc[c] = "idle" /\ Goto(c, "test") /\ step # "alloc"
    BY <1>1, NobodyEarly DEF OnChannelCallback, Poll, Load
  <2>2. UNCHANGED <<extension, refCount, path, step>>
    BY <1>1 DEF OnChannelCallback, Poll, device, manager
  <2> QED
    BY <2>1, <2>2, ThreadMoves DEF Holding, ThreadSteps
<1>2. CASE Test(c, 0) \/ Get(c) \/ PutNetDevice(c) \/ PutAsserts(c)
  BY <1>2, ReferenceKeeps
<1>3. CASE OnSendCompletion(c) \/ OnOther(c)
  <2>1. UNCHANGED <<extension, refCount, path, step, pc>>
    BY <1>3 DEF OnSendCompletion, OnOther, device, manager
  <2> QED
    BY <2>1, NothingCounted DEF IInv, Holders
<1>4. CASE RingEmpty(c)
  <2>1. pc[c] = "use" /\ Goto(c, "put") /\ step # "alloc"
    BY <1>4, NobodyEarly DEF RingEmpty
  <2> QED
    BY <1>4, <2>1, ThreadMoves DEF RingEmpty, Holding, ThreadSteps, device, manager
<1> QED
  BY <1>1, <1>2, <1>3, <1>4 DEF Callback

\* The only step that lets traffic begin.
LEMMA AllocKeeps ==
  ASSUME IInv, AllocNetDevice
  PROVE  IInv'
<1>1. /\ step = "alloc" /\ path = "add" /\ path' = "add" /\ step' = "open"
      /\ refCount' = 2 /\ pc' = pc
  BY DEF IInv, Places, AllocNetDevice, At, After
<1>2. Holders = {} /\ Holders' = {}
  BY <1>1 DEF IInv, Quiet, Holders
<1>3. Cardinality(Holders)' = 0
  BY <1>2, FS_EmptySet
<1>4. Base' = 2
  BY <1>1 DEF Base, InboundCut, OutboundCut
<1> QED
  BY <1>1, <1>3, <1>4 DEF IInv, Places, Quiet, RefCountIsHolders

LEMMA ManagerKeeps ==
  ASSUME IInv, Manager \/ OnDeviceRemove
  PROVE  IInv'
<1> USE DEF IInv, Places, At, After
<1>1. CASE AllocNetDevice
  BY <1>1, AllocKeeps
<1>2. CASE ReleaseOutboundNetDevice
  <2>1. Places' /\ pc' = pc /\ step' # "alloc" /\ refCount' \in Int
    BY <1>2 DEF ReleaseOutboundNetDevice
  <2>2. refCount' - Base' = refCount - Base
    BY <1>2 DEF ReleaseOutboundNetDevice, Base, InboundCut, OutboundCut
  <2> QED
    BY <2>1, <2>2, ManagerCounts
<1>3. CASE ReleaseInboundNetDevice
  <2>1. Places' /\ pc' = pc /\ step' # "alloc" /\ refCount' \in Int
    BY <1>3 DEF ReleaseInboundNetDevice
  <2>2. refCount' - Base' = refCount - Base
    BY <1>3 DEF ReleaseInboundNetDevice, Base, InboundCut, OutboundCut
  <2> QED
    BY <2>1, <2>2, ManagerCounts
<1>4. CASE \/ OpenChannel \/ OpenFails \/ ConnectToVsp \/ ConnectFails
           \/ WaitSends \/ Disconnect \/ CloseChannel \/ ReleaseResources
           \/ FreeNetDevice \/ FreeAsserts \/ OnDeviceRemove
  <2> USE DEF OpenChannel, OpenFails, ConnectToVsp, ConnectFails, WaitSends,
              Disconnect, CloseChannel, ReleaseResources, FreeNetDevice, FreeAsserts,
              OnDeviceRemove, device
  <2>1. Places' /\ pc' = pc /\ step' # "alloc" /\ refCount' = refCount
    BY <1>4
  <2>2. Base' = Base
    BY <1>4 DEF Base, InboundCut, OutboundCut
  <2> QED
    BY <2>1, <2>2, ManagerCounts DEF Base
<1> QED
  BY <1>1, <1>2, <1>3, <1>4 DEF Manager

LEMMA InitHolds == Init => IInv
<1> SUFFICES ASSUME Init PROVE IInv
  OBVIOUS
<1>1. Holders = {}
  BY DEF Init, Holders
<1>2. Cardinality(Holders) = 0
  BY <1>1, FS_EmptySet
<1> QED
  BY <1>2 DEF Init, IInv, Places, Quiet, RefCountIsHolders, Base, ThreadSteps

LEMMA NextKeeps == IInv /\ [Next]_vars => IInv'
<1> SUFFICES ASSUME IInv, [Next]_vars PROVE IInv'
  OBVIOUS
<1>1. CASE Manager \/ OnDeviceRemove
  BY <1>1, ManagerKeeps
<1>2. CASE \E s \in Senders : OnSend(s) \/ Send(s)
  BY <1>2, SendKeeps
<1>3. CASE \E c \in Callbacks : OnChannelCallback(c) \/ Poll(c) \/ Callback(c)
  BY <1>3, CallbackKeeps
<1>4. CASE HostCompletes \/ HostSends \/ UNCHANGED vars
  <2>1. UNCHANGED <<extension, refCount, path, step, pc>>
    BY <1>4 DEF HostCompletes, HostSends, vars, device, manager
  <2> QED
    BY <2>1, NothingCounted DEF IInv, Holders
<1> QED
  BY <1>1, <1>2, <1>3, <1>4 DEF Next

-----------------------------------------------------------------------------
\* The strengthened invariant holds of every behaviour.
THEOREM Invariant == Spec => []IInv
BY InitHolds, NextKeeps, PTL DEF Spec

\* GetOutboundNetDevice, GetInboundNetDevice and PutNetDevice keep the count
\* exact for any number of threads.
THEOREM RefCountExact == Spec => []RefCountIsHolders
<1>1. IInv => RefCountIsHolders
  BY DEF IInv
<1> QED
  BY <1>1, Invariant, PTL

\* The compare-and-exchange of ReleaseOutboundNetDevice succeeds only when no
\* thread is between its get and its put.
THEOREM CutIsClean == Spec => CutFindsNoHolder
<1>1. IInv /\ [Next]_vars => [step = "stopOutbound" /\ step' # step => Holders = {}]_vars
  <2> SUFFICES ASSUME IInv, Next, step = "stopOutbound", step' # step
               PROVE  Holders = {}
    OBVIOUS
  <2>1. path \in {"remove", "fail"}
    BY DEF IInv, Places
  <2>2. ReleaseOutboundNetDevice
    <3>1. Manager \/ OnDeviceRemove
      BY DEF Next, OnSend, Send, Test, Get, SendAccepted, SendRefused, SendClosed,
             CountSend, PutNetDevice, PutAsserts, OnChannelCallback, Poll, Callback,
             OnSendCompletion, OnOther, RingEmpty, HostCompletes, HostSends, manager
    <3> QED
      BY <3>1 DEF Manager, At, AllocNetDevice, OpenChannel, OpenFails, ConnectToVsp,
                  ConnectFails, WaitSends, Disconnect, ReleaseInboundNetDevice,
                  CloseChannel, ReleaseResources, FreeNetDevice, FreeAsserts,
                  OnDeviceRemove
  <2>3. Base = 2
    BY <2>1 DEF Base, InboundCut, OutboundCut
  <2>4. Cardinality(Holders) = 0
    BY <2>2, <2>3, ThreadsFinite DEF IInv, RefCountIsHolders, ReleaseOutboundNetDevice
  <2> QED
    BY <2>4, ThreadsFinite, FS_EmptySet
<1> QED
  BY <1>1, Invariant, PTL DEF Spec, CutFindsNoHolder

-----------------------------------------------------------------------------
(* The sends.  What OutstandingIsSends needs on top: nobody sends before   *)
(* the device is up, the channel is open as long as somebody may send      *)
(* through the extension, and nothing is counted before the device is      *)
(* allocated.                                                              *)

Counting == {s \in Senders : pc[s] = "count"}

Types ==
  /\ extension \in BOOLEAN /\ freed \in BOOLEAN /\ channelOpen \in BOOLEAN
  /\ outstanding \in Int
  /\ calls \in Nat /\ failures \in Nat /\ polls \in Nat /\ inFlight \in Nat
  /\ completions \in Nat /\ others \in Nat /\ arrived \in Nat

SendersAttached == \A s \in Senders : pc[s] # "idle" => Attached
OpenWhileAttached ==
  Attached \/ step = "connect" => IF InboundCut THEN ~ extension ELSE channelOpen
NothingYet ==
  step = "alloc" =>
    outstanding = 0 /\ inFlight = 0 /\ completions = 0 /\ failures = 0
Exact ==
  ~ freed /\ extension =>
    outstanding = inFlight + completions + failures - Cardinality(Counting)

\* A device that is not freed is behind the extension, and what is counted down was
\* or will be counted.
Alive == extension \/ step = "alloc" => ~ freed
Floor == outstanding + Cardinality(Counting) >= 0

SInv == Types /\ SendersAttached /\ OpenWhileAttached /\ NothingYet /\ Exact /\ Alive /\ Floor
All == IInv /\ SInv

\* A thread's step adds its sender to those about to count, takes it away, or neither.
LEMMA CountingMoves ==
  ASSUME pc \in [Threads -> ThreadSteps], NEW t \in Threads, NEW l \in ThreadSteps,
         Goto(t, l)
  PROVE  /\ (pc[t] = "count" <=> l = "count") => Counting' = Counting
         /\ t \in Senders /\ pc[t] # "count" /\ l = "count" =>
              Cardinality(Counting') = Cardinality(Counting) + 1
         /\ t \in Senders /\ pc[t] = "count" /\ l # "count" =>
              Cardinality(Counting') = Cardinality(Counting) - 1
<1>1. IsFiniteSet(Counting) /\ Cardinality(Counting) \in Nat
  BY ThreadsAssumption, FS_Subset, FS_CardinalityType DEF Counting
<1>2. pc' = [pc EXCEPT ![t] = l] /\ Senders \subseteq Threads
  BY DEF Goto, Threads
<1>3. ASSUME pc[t] = "count" <=> l = "count" PROVE Counting' = Counting
  BY <1>2, <1>3 DEF Counting
<1>4. ASSUME t \in Senders, pc[t] # "count", l = "count"
      PROVE  Cardinality(Counting') = Cardinality(Counting) + 1
  <2>1. Counting' = Counting \cup {t} /\ t \notin Counting
    BY <1>2, <1>4 DEF Counting
  <2> QED
    BY <1>1, <2>1, FS_AddElement
<1>5. ASSUME t \in Senders, pc[t] = "count", l # "count"
      PROVE  Cardinality(Counting') = Cardinality(Counting) - 1
  <2>1. Counting' = Counting \ {t} /\ t \in Counting
    BY <1>2, <1>5 DEF Counting
  <2> QED
    BY <1>1, <2>1, FS_RemoveElement
<1> QED
  BY <1>3, <1>4, <1>5

\* Every step keeps the types.
LEMMA TypesKept == All /\ [Next]_vars => Types'
<1> SUFFICES ASSUME All, [Next]_vars PROVE Types'
  OBVIOUS
<1> USE DEF All, IInv, SInv, Types
<1>1. CASE Manager \/ OnDeviceRemove
  BY <1>1 DEF Manager, AllocNetDevice, OpenChannel, OpenFails, ConnectToVsp, ConnectFails,
     ReleaseOutboundNetDevice, WaitSends, Disconnect, ReleaseInboundNetDevice, CloseChannel,
     ReleaseResources, FreeNetDevice, FreeAsserts, OnDeviceRemove, device, traffic, counters
<1>2. ASSUME NEW t \in Threads,
             \/ Test(t, 1) \/ Test(t, 0) \/ Get(t) \/ PutNetDevice(t) \/ PutAsserts(t)
      PROVE  Types'
  BY <1>2 DEF Test, Get, PutNetDevice, PutAsserts, device, manager, traffic, counters
<1>3. ASSUME NEW s \in Senders,
             \/ OnSend(s) \/ SendAccepted(s) \/ SendRefused(s) \/ SendClosed(s)
             \/ CountSend(s)
      PROVE  Types'
  BY <1>3 DEF OnSend, SendAccepted, SendRefused, SendClosed, CountSend, device, manager,
     traffic, counters
<1>4. ASSUME NEW c \in Callbacks,
             \/ OnChannelCallback(c) \/ Poll(c) \/ OnSendCompletion(c) \/ OnOther(c)
             \/ RingEmpty(c)
      PROVE  Types'
  BY <1>4 DEF OnChannelCallback, Poll, OnSendCompletion, OnOther, RingEmpty, device,
     manager, traffic, counters
<1>5. CASE HostCompletes \/ HostSends \/ UNCHANGED vars
  BY <1>5 DEF HostCompletes, HostSends, vars, device, manager, traffic, counters
<1> QED
  BY <1>1, <1>2, <1>3, <1>4, <1>5 DEF Next, Send, Callback, Threads

\* No step lets a sender in before the device is up, or closes the channel under one
\* that may send, and only the senders' calls count.
LEMMA AttachedKept ==
  All /\ [Next]_vars => SendersAttached' /\ OpenWhileAttached' /\ NothingYet'
<1> SUFFICES ASSUME All, [Next]_vars
             PROVE  SendersAttached' /\ OpenWhileAttached' /\ NothingYet'
  OBVIOUS
<1> Senders \subseteq Threads /\ Callbacks \subseteq Threads /\ Senders \cap Callbacks = {}
  BY ThreadsAssumption DEF Threads
<1> USE DEF All, SInv, SendersAttached, OpenWhileAttached, NothingYet
<1>1. CASE Manager \/ OnDeviceRemove
  <2>1. pc' = pc /\ step' # "alloc" /\ (Attached => Attached')
    BY <1>1 DEF IInv, Places, Attached, At, After, Manager, AllocNetDevice, OpenChannel,
       OpenFails, ConnectToVsp, ConnectFails, ReleaseOutboundNetDevice, WaitSends,
       Disconnect, ReleaseInboundNetDevice, CloseChannel, ReleaseResources, FreeNetDevice,
       FreeAsserts, OnDeviceRemove
  <2>2. OpenWhileAttached'
    <3> USE DEF IInv, Places, Attached, InboundCut, At, After
    <3>1. CASE AllocNetDevice \/ OpenChannel \/ OpenFails \/ ConnectToVsp \/ ConnectFails
      BY <3>1 DEF AllocNetDevice, OpenChannel, OpenFails, ConnectToVsp, ConnectFails, device
    <3>2. CASE \/ ReleaseOutboundNetDevice \/ WaitSends \/ Disconnect
               \/ ReleaseInboundNetDevice \/ OnDeviceRemove
      BY <3>2 DEF ReleaseOutboundNetDevice, WaitSends, Disconnect,
         ReleaseInboundNetDevice, OnDeviceRemove, device
    <3>3. CASE CloseChannel \/ ReleaseResources \/ FreeNetDevice \/ FreeAsserts
      BY <3>3 DEF CloseChannel, ReleaseResources, FreeNetDevice, FreeAsserts, device
    <3> QED
      BY <1>1, <3>1, <3>2, <3>3 DEF Manager
  <2> QED
    BY <2>1, <2>2
<1>2. ASSUME NEW t \in Threads, step # "alloc", UNCHANGED <<manager, extension>>,
             \A u \in Threads \ {t} : pc'[u] = pc[u],
             t \in Senders /\ pc[t] = "idle" => Attached
      PROVE  SendersAttached' /\ OpenWhileAttached' /\ NothingYet'
  <2>1. UNCHANGED <<path, step, channelOpen, extension>>
    BY <1>2 DEF manager
  <2>2. Attached' = Attached /\ InboundCut' = InboundCut
    BY <2>1 DEF Attached, InboundCut
  <2> QED
    BY <1>2, <2>1, <2>2
<1>3. ASSUME NEW t \in Threads, NEW l \in ThreadSteps, Goto(t, l),
             extension \/ pc[t] # "idle", UNCHANGED <<manager, extension>>,
             t \in Senders /\ pc[t] = "idle" => Attached
      PROVE  SendersAttached' /\ OpenWhileAttached' /\ NothingYet'
  <2>1. step # "alloc" /\ \A u \in Threads \ {t} : pc'[u] = pc[u]
    BY <1>3, NobodyEarly DEF IInv, Goto
  <2> QED
    BY <1>2, <1>3, <2>1
<1>4. ASSUME NEW t \in Threads,
             \/ Test(t, 1) \/ Test(t, 0) \/ Get(t) \/ PutNetDevice(t) \/ PutAsserts(t)
      PROVE  SendersAttached' /\ OpenWhileAttached' /\ NothingYet'
  <2>1. /\ pc[t] # "idle" /\ UNCHANGED <<manager, extension>>
        /\ \E l \in ThreadSteps : Goto(t, l)
    BY <1>4 DEF Test, Get, PutNetDevice, PutAsserts, device, ThreadSteps
  <2> QED
    BY <1>3, <2>1
<1>5. ASSUME NEW s \in Senders,
             \/ OnSend(s) \/ SendAccepted(s) \/ SendRefused(s) \/ SendClosed(s)
             \/ CountSend(s)
      PROVE  SendersAttached' /\ OpenWhileAttached' /\ NothingYet'
  <2>1. /\ (extension \/ pc[s] # "idle") /\ UNCHANGED <<manager, extension>>
        /\ pc[s] = "idle" => Attached
        /\ \E l \in ThreadSteps : Goto(s, l)
    BY <1>5 DEF OnSend, Load, SendAccepted, SendRefused, SendClosed, CountSend, device,
       ThreadSteps
  <2> QED
    BY <1>3, <2>1
<1>6. ASSUME NEW c \in Callbacks,
             \/ OnChannelCallback(c) \/ Poll(c) \/ OnSendCompletion(c) \/ OnOther(c)
             \/ RingEmpty(c)
      PROVE  SendersAttached' /\ OpenWhileAttached' /\ NothingYet'
  <2>1. /\ extension \/ pc[c] # "idle"
        /\ UNCHANGED <<manager, extension>>
        /\ pc' = pc \/ \E l \in ThreadSteps : Goto(c, l)
    BY <1>6 DEF OnChannelCallback, Poll, Load, OnSendCompletion, OnOther, RingEmpty, device,
       ThreadSteps
  <2>2. CASE pc' = pc
    BY <1>2, <2>1, <2>2, NobodyEarly
  <2>3. CASE \E l \in ThreadSteps : Goto(c, l)
    BY <1>3, <2>1, <2>3
  <2> QED
    BY <2>1, <2>2, <2>3
<1>7. CASE HostCompletes \/ HostSends \/ UNCHANGED vars
  <2>1. /\ UNCHANGED <<path, step, channelOpen, extension, pc, outstanding, failures>>
        /\ step = "alloc" => UNCHANGED <<inFlight, completions>>
    BY <1>7 DEF HostCompletes, HostSends, vars, device, manager, traffic, counters
  <2>2. Attached' = Attached /\ InboundCut' = InboundCut
    BY <2>1 DEF Attached, InboundCut
  <2> QED
    BY <2>1, <2>2
<1> QED
  BY <1>1, <1>4, <1>5, <1>6, <1>7 DEF Next, Send, Callback

\* The count of the sends the removal waits for stays exact.
LEMMA ExactKept == All /\ [Next]_vars => Exact'
<1> SUFFICES ASSUME All, [Next]_vars PROVE Exact'
  OBVIOUS
<1> Senders \subseteq Threads /\ Callbacks \subseteq Threads /\ Senders \cap Callbacks = {}
  BY ThreadsAssumption DEF Threads
<1>1. /\ Cardinality(Counting) \in Nat
      /\ Counting' = Counting => Cardinality(Counting)' = Cardinality(Counting)
  BY ThreadsAssumption, FS_Subset, FS_CardinalityType DEF Counting
<1>2. /\ pc \in [Threads -> ThreadSteps] /\ refCount \in Int /\ RefCountIsHolders
      /\ outstanding \in Int /\ inFlight \in Nat /\ completions \in Nat /\ failures \in Nat
      /\ Exact
  BY DEF All, IInv, SInv, Types
\* A step that changes neither the sum nor who is about to count.
<1>3. ASSUME Counting' = Counting, UNCHANGED <<outstanding, failures>>,
             inFlight' + completions' = inFlight + completions,
             inFlight' \in Nat, completions' \in Nat,
             ~ freed' /\ extension' => ~ freed /\ extension
      PROVE  Exact'
  BY <1>1, <1>2, <1>3 DEF Exact
<1>4. CASE Manager \/ OnDeviceRemove
  <2>1. CASE AllocNetDevice
    <3>1. /\ step = "alloc" /\ UNCHANGED <<outstanding, inFlight, completions, failures, pc>>
          /\ outstanding = 0 /\ inFlight = 0 /\ completions = 0 /\ failures = 0
      BY <2>1 DEF AllocNetDevice, At, traffic, counters, All, SInv, NothingYet
    <3>2. Counting = {} /\ Counting' = Counting
      BY <3>1 DEF All, IInv, Quiet, Counting
    <3>3. Cardinality(Counting) = 0
      BY <3>2, FS_EmptySet
    <3> QED
      BY <1>1, <3>1, <3>2, <3>3 DEF Exact
  <2>2. CASE ~ AllocNetDevice
    <3>1. /\ UNCHANGED <<outstanding, inFlight, completions, failures, pc>>
          /\ ~ freed' /\ extension' => ~ freed /\ extension
      BY <1>4, <2>2 DEF Manager, OpenChannel, OpenFails, ConnectToVsp, ConnectFails,
         ReleaseOutboundNetDevice, WaitSends, Disconnect, ReleaseInboundNetDevice,
         CloseChannel, ReleaseResources, FreeNetDevice, FreeAsserts, OnDeviceRemove, device,
         traffic, counters
    <3>2. Counting' = Counting
      BY <3>1 DEF Counting
    <3> QED
      BY <1>2, <1>3, <3>1, <3>2
  <2> QED
    BY <2>1, <2>2
<1>5. ASSUME NEW t \in Threads,
             \/ Test(t, 1) \/ Test(t, 0) \/ Get(t) \/ PutNetDevice(t) \/ PutAsserts(t)
      PROVE  Exact'
  <2>1. /\ UNCHANGED <<outstanding, inFlight, completions, failures, freed, extension>>
        /\ \E l \in ThreadSteps \ {"count"} : Goto(t, l) /\ pc[t] # "count"
    BY <1>5 DEF Test, Get, PutNetDevice, PutAsserts, device, traffic, counters, ThreadSteps
  <2>2. Counting' = Counting
    BY <1>2, <2>1, CountingMoves
  <2> QED
    BY <1>2, <1>3, <2>1, <2>2
<1>6. ASSUME NEW s \in Senders, OnSend(s) PROVE Exact'
  <2>1. /\ UNCHANGED <<outstanding, inFlight, completions, failures, freed, extension>>
        /\ Goto(s, "test") /\ pc[s] # "count"
    BY <1>6 DEF OnSend, Load, device, traffic
  <2>2. Counting' = Counting
    BY <1>2, <2>1, CountingMoves DEF ThreadSteps
  <2> QED
    BY <1>2, <1>3, <2>1, <2>2
\* The send is in the sum, and its sender is about to count it.
<1>7. ASSUME NEW s \in Senders, SendAccepted(s) \/ SendRefused(s) PROVE Exact'
  <2>1. /\ UNCHANGED <<outstanding, completions, freed, extension>>
        /\ \/ inFlight' = inFlight + 1 /\ failures' = failures
           \/ inFlight' = inFlight /\ failures' = failures + 1
        /\ Goto(s, "count") /\ pc[s] = "use"
    BY <1>7 DEF SendAccepted, SendRefused, device, traffic, counters
  <2>2. Cardinality(Counting') = Cardinality(Counting) + 1
    BY <1>2, <2>1, CountingMoves DEF ThreadSteps
  <2>3. Cardinality(Counting)' = Cardinality(Counting')
    OBVIOUS
  <2> QED
    BY <1>1, <1>2, <2>1, <2>2, <2>3 DEF Exact
\* The channel is closed only when the extension is gone.
<1>8. ASSUME NEW s \in Senders, SendClosed(s) PROVE Exact'
  <2>1. ~ channelOpen /\ pc[s] = "use" /\ extension' = extension
    BY <1>8 DEF SendClosed, device
  <2>2. ~ extension
    BY <2>1 DEF All, SInv, SendersAttached, OpenWhileAttached
  <2> QED
    BY <2>1, <2>2 DEF Exact
<1>9. ASSUME NEW s \in Senders, CountSend(s) PROVE Exact'
  <2>1. /\ outstanding' = outstanding + 1
        /\ UNCHANGED <<inFlight, completions, failures, freed, extension>>
        /\ Goto(s, "put") /\ pc[s] = "count"
    BY <1>9 DEF CountSend, traffic, counters
  <2>2. Cardinality(Counting') = Cardinality(Counting) - 1
    BY <1>2, <2>1, CountingMoves DEF ThreadSteps
  <2>3. Cardinality(Counting)' = Cardinality(Counting')
    OBVIOUS
  <2> QED
    BY <1>1, <1>2, <2>1, <2>2, <2>3 DEF Exact
\* The callback holds a reference, so the count is not 0.
<1>10. ASSUME NEW c \in Callbacks, OnSendCompletion(c) PROVE Exact'
  <2>1. /\ completions > 0 /\ completions' = completions - 1 /\ pc[c] = "use" /\ pc' = pc
        /\ UNCHANGED <<inFlight, failures, freed, extension>>
        /\ outstanding' = IF extension /\ refCount # 0 THEN outstanding - 1 ELSE outstanding
    BY <1>10 DEF OnSendCompletion, counters
  <2>2. refCount # 0
    <3>1. Holders # {}
      BY <2>1 DEF Holders
    <3>2. Cardinality(Holders) # 0
      BY <3>1, ThreadsFinite, FS_EmptySet
    <3>3. Base \in Nat
      BY DEF Base
    <3> QED
      BY <1>2, <3>2, <3>3, ThreadsFinite DEF RefCountIsHolders
  <2>3. Counting' = Counting
    BY <2>1 DEF Counting
  <2> QED
    BY <1>1, <1>2, <2>1, <2>2, <2>3 DEF Exact
<1>11. ASSUME NEW c \in Callbacks,
              OnChannelCallback(c) \/ Poll(c) \/ OnOther(c) \/ RingEmpty(c)
       PROVE  Exact'
  <2>1. /\ UNCHANGED <<outstanding, inFlight, completions, failures, freed, extension>>
        /\ \/ pc' = pc
           \/ \E l \in ThreadSteps \ {"count"} : Goto(c, l) /\ pc[c] # "count"
    BY <1>11 DEF OnChannelCallback, Poll, Load, OnOther, RingEmpty, device, traffic,
       counters, ThreadSteps
  <2>2. Counting' = Counting
    <3>1. CASE pc' = pc
      BY <3>1 DEF Counting
    <3>2. CASE \E l \in ThreadSteps \ {"count"} : Goto(c, l) /\ pc[c] # "count"
      BY <1>2, <3>2, CountingMoves
    <3> QED
      BY <2>1, <3>1, <3>2
  <2> QED
    BY <1>2, <1>3, <2>1, <2>2
<1>12. CASE HostCompletes \/ HostSends \/ UNCHANGED vars
  <2>1. /\ UNCHANGED <<outstanding, failures, freed, extension, pc>>
        /\ inFlight' \in Nat /\ completions' \in Nat
        /\ inFlight' + completions' = inFlight + completions
    BY <1>2, <1>12 DEF HostCompletes, HostSends, vars, device, traffic, counters
  <2>2. Counting' = Counting
    BY <2>1 DEF Counting
  <2> QED
    BY <1>3, <2>1, <2>2
<1> QED
  BY <1>4, <1>5, <1>6, <1>7, <1>8, <1>9, <1>10, <1>11, <1>12 DEF Next, Send, Callback

\* The device is behind the extension only until it is freed.
LEMMA AliveKept == All /\ [Next]_vars => Alive'
<1> SUFFICES ASSUME All, [Next]_vars PROVE Alive'
  OBVIOUS
<1> USE DEF All, SInv, Alive
<1>1. CASE Manager \/ OnDeviceRemove
  <2>1. step' # "alloc"
    BY <1>1 DEF IInv, Places, Attached, At, After, Manager, AllocNetDevice, OpenChannel,
       OpenFails, ConnectToVsp, ConnectFails, ReleaseOutboundNetDevice, WaitSends,
       Disconnect, ReleaseInboundNetDevice, CloseChannel, ReleaseResources, FreeNetDevice,
       FreeAsserts, OnDeviceRemove
  <2>2. extension' => ~ freed'
    BY <1>1 DEF At, Manager, AllocNetDevice, OpenChannel,
       OpenFails, ConnectToVsp, ConnectFails, ReleaseOutboundNetDevice, WaitSends,
       Disconnect, ReleaseInboundNetDevice, CloseChannel, ReleaseResources, FreeNetDevice,
       FreeAsserts, OnDeviceRemove, device
  <2> QED
    BY <2>1, <2>2
<1>2. CASE ~ (Manager \/ OnDeviceRemove)
  <2>1. UNCHANGED <<extension, freed, step>>
    BY <1>2 DEF Next, Send, Callback, Test, Get, PutNetDevice, PutAsserts, OnSend,
       SendAccepted, SendRefused, SendClosed, CountSend, OnChannelCallback, Poll,
       OnSendCompletion, OnOther, RingEmpty, HostCompletes, HostSends, vars, device, manager
  <2> QED
    BY <2>1
<1> QED
  BY <1>1, <1>2

\* A completion is taken off the count only where Exact says it is on it, or about to be.
LEMMA FloorKept == All /\ [Next]_vars => Floor'
<1> SUFFICES ASSUME All, [Next]_vars PROVE Floor'
  OBVIOUS
<1> Senders \subseteq Threads /\ Callbacks \subseteq Threads /\ Senders \cap Callbacks = {}
  BY ThreadsAssumption DEF Threads
<1>1. /\ Cardinality(Counting) \in Nat
      /\ Counting' = Counting => Cardinality(Counting)' = Cardinality(Counting)
  BY ThreadsAssumption, FS_Subset, FS_CardinalityType DEF Counting
<1>2. /\ pc \in [Threads -> ThreadSteps] /\ outstanding \in Int /\ inFlight \in Nat
      /\ completions \in Nat /\ failures \in Nat /\ Exact /\ Alive /\ Floor
  BY DEF All, IInv, SInv, Types
<1>3. ASSUME Counting' = Counting, outstanding' = outstanding PROVE Floor'
  BY <1>1, <1>2, <1>3 DEF Floor
<1>4. CASE Manager \/ OnDeviceRemove \/ HostCompletes \/ HostSends \/ UNCHANGED vars
  <2>1. UNCHANGED <<outstanding, pc>>
    BY <1>4 DEF Manager, AllocNetDevice, OpenChannel, OpenFails, ConnectToVsp, ConnectFails,
       ReleaseOutboundNetDevice, WaitSends, Disconnect, ReleaseInboundNetDevice,
       CloseChannel, ReleaseResources, FreeNetDevice, FreeAsserts, OnDeviceRemove, device,
       HostCompletes, HostSends, vars
  <2>2. Counting' = Counting
    BY <2>1 DEF Counting
  <2> QED
    BY <1>3, <2>1, <2>2
<1>5. ASSUME NEW t \in Threads,
             \/ Test(t, 1) \/ Test(t, 0) \/ Get(t) \/ PutNetDevice(t) \/ PutAsserts(t)
      PROVE  Floor'
  <2>1. /\ outstanding' = outstanding
        /\ \E l \in ThreadSteps \ {"count"} : Goto(t, l) /\ pc[t] # "count"
    BY <1>5 DEF Test, Get, PutNetDevice, PutAsserts, device, ThreadSteps
  <2>2. Counting' = Counting
    BY <1>2, <2>1, CountingMoves
  <2> QED
    BY <1>3, <2>1, <2>2
<1>6. ASSUME NEW s \in Senders, OnSend(s) PROVE Floor'
  <2>1. outstanding' = outstanding /\ Goto(s, "test") /\ pc[s] # "count"
    BY <1>6 DEF OnSend, Load, device
  <2>2. Counting' = Counting
    BY <1>2, <2>1, CountingMoves DEF ThreadSteps
  <2> QED
    BY <1>3, <2>1, <2>2
<1>7. ASSUME NEW s \in Senders, SendAccepted(s) \/ SendRefused(s) \/ SendClosed(s)
      PROVE  Floor'
  <2>1. outstanding' = outstanding /\ Goto(s, "count") /\ pc[s] = "use"
    BY <1>7 DEF SendAccepted, SendRefused, SendClosed, device
  <2>2. Cardinality(Counting') = Cardinality(Counting) + 1
    BY <1>2, <2>1, CountingMoves DEF ThreadSteps
  <2>3. Cardinality(Counting)' = Cardinality(Counting')
    OBVIOUS
  <2> QED
    BY <1>1, <1>2, <2>1, <2>2, <2>3 DEF Floor
<1>8. ASSUME NEW s \in Senders, CountSend(s) PROVE Floor'
  <2>1. outstanding' = outstanding + 1 /\ Goto(s, "put") /\ pc[s] = "count"
    BY <1>8 DEF CountSend
  <2>2. Cardinality(Counting') = Cardinality(Counting) - 1
    BY <1>2, <2>1, CountingMoves DEF ThreadSteps
  <2>3. Cardinality(Counting)' = Cardinality(Counting')
    OBVIOUS
  <2> QED
    BY <1>1, <1>2, <2>1, <2>2, <2>3 DEF Floor
<1>9. ASSUME NEW c \in Callbacks, OnSendCompletion(c) PROVE Floor'
  <2>1. /\ completions > 0 /\ pc' = pc
        /\ \/ outstanding' = outstanding
           \/ extension /\ outstanding' = outstanding - 1
    BY <1>9 DEF OnSendCompletion
  <2>2. Counting' = Counting
    BY <2>1 DEF Counting
  <2>3. extension => outstanding + Cardinality(Counting) = inFlight + completions + failures
    BY <1>1, <1>2 DEF Exact, Alive
  <2> QED
    BY <1>1, <1>2, <2>1, <2>2, <2>3 DEF Floor
<1>10. ASSUME NEW c \in Callbacks,
              OnChannelCallback(c) \/ Poll(c) \/ OnOther(c) \/ RingEmpty(c)
       PROVE  Floor'
  <2>1. /\ outstanding' = outstanding
        /\ \/ pc' = pc
           \/ \E l \in ThreadSteps \ {"count"} : Goto(c, l) /\ pc[c] # "count"
    BY <1>10 DEF OnChannelCallback, Poll, Load, OnOther, RingEmpty, device, ThreadSteps
  <2>2. Counting' = Counting
    <3>1. CASE pc' = pc
      BY <3>1 DEF Counting
    <3>2. CASE \E l \in ThreadSteps \ {"count"} : Goto(c, l) /\ pc[c] # "count"
      BY <1>2, <3>2, CountingMoves
    <3> QED
      BY <2>1, <3>1, <3>2
  <2> QED
    BY <1>3, <2>1, <2>2
<1> QED
  BY <1>4, <1>5, <1>6, <1>7, <1>8, <1>9, <1>10 DEF Next, Send, Callback

-----------------------------------------------------------------------------
\* Both inductive invariants hold of every behaviour.
THEOREM AllInductive == Spec => []All
<1>1. Init => SInv
  <2> SUFFICES ASSUME Init PROVE SInv
    OBVIOUS
  <2> Senders \subseteq Threads
    BY DEF Threads
  <2>1. Types
    <3>1. extension \in BOOLEAN /\ freed \in BOOLEAN /\ channelOpen \in BOOLEAN
      BY Zenon DEF Init
    <3> QED
      BY <3>1 DEF Init, Types
  <2>2. SendersAttached /\ OpenWhileAttached /\ NothingYet
    BY DEF Init, SendersAttached, OpenWhileAttached, NothingYet, Attached
  <2>3. Exact
    BY DEF Init, Exact
  <2>4. Alive /\ Floor
    <3>1. Counting = {} /\ outstanding = 0 /\ ~ freed
      BY DEF Init, Counting
    <3>2. Cardinality(Counting) = 0
      BY <3>1, FS_EmptySet
    <3> QED
      BY <3>1, <3>2 DEF Alive, Floor
  <2> QED
    BY <2>1, <2>2, <2>3, <2>4 DEF SInv
<1>2. Init => All
  BY <1>1, InitHolds DEF All
<1>3. All /\ [Next]_vars => All'
  BY NextKeeps, TypesKept, AttachedKept, ExactKept, AliveKept, FloorKept DEF All, SInv
<1> QED
  BY <1>2, <1>3, PTL DEF Spec

\* ReleaseOutboundNetDevice's count of outstanding sends is that of the sends the host
\* has not completed, of the completions nobody has read, and of the sends the ring
\* refused, for any number of senders and callbacks.
THEOREM OutstandingExact == Spec => []OutstandingIsSends
<1>1. All => OutstandingIsSends
  BY DEF All, SInv, Exact, OutstandingIsSends, Counting
<1> QED
  BY <1>1, AllInductive, PTL

\* Every variable keeps its type; RefCount does not fall below zero, and
\* NumOutstandingSends only by the sends that were completed before they were counted.
THEOREM TypeCorrect == Spec => []TypeOK
<1>1. ASSUME All PROVE TypeOK
  <2>1. Base \in Nat
    BY DEF Base
  <2>2. refCount \in Nat
    BY <1>1, <2>1, ThreadsFinite DEF All, IInv, RefCountIsHolders
  <2>3. DOMAIN After = {"add", "fail", "remove"}
    BY DEF After
  <2>4. path \in DOMAIN After /\ step \in {"up", "gone", "panic"} \cup DOMAIN After[path]
    BY <1>1, <2>3 DEF All, IInv, Places, After
  <2>5. outstanding >= - Cardinality({s \in Senders : pc[s] = "count"})
    <3>1. Cardinality(Counting) \in Nat
      BY ThreadsAssumption, FS_Subset, FS_CardinalityType DEF Counting
    <3>2. outstanding \in Int /\ outstanding + Cardinality(Counting) >= 0
      BY <1>1 DEF All, SInv, Types, Floor
    <3>3. outstanding >= - Cardinality(Counting)
      BY <3>1, <3>2
    <3> QED
      BY <3>3 DEF Counting
  <2> QED
    BY <1>1, <2>2, <2>4, <2>5 DEF All, IInv, SInv, Types, TypeOK
<1> QED
  BY <1>1, AllInductive, PTL

-----------------------------------------------------------------------------
(* The receive path: the packets of the pool, and the transfers.           *)

\* The packets a callback has ready for the upper layers, or they have.
InHands(c) == list[c] \cup Current(c)

\* A packet is in one place.
Apart ==
  /\ free \cap leaked = {}
  /\ \A c \in Receivers : HeldBy(c) \cap (free \cup leaked) = {}
  /\ \A c, d \in Receivers : c # d => HeldBy(c) \cap HeldBy(d) = {}
  /\ \A c \in Receivers : list[c] \cap Current(c) = {} /\ InHands(c) \cap Open(c) = {}

\* It counts something exactly while it stands for a transfer, and so it is not in
\* the list, not lost and in nobody's hands.
CountsApart ==
  \A p \in Pool :
    /\ count[p] \in Nat
    /\ count[p] = 0 <=> p \in free \cup leaked \/ \E c \in Receivers : p \in InHands(c)

\* What a callback has at each of its steps: the packet that stands for its
\* transfer counts at least those that are still to be completed.
StepOfCallback(c) ==
  /\ at[c] \in {"idle", "grab", "send"} => list[c] = {}
  /\ at[c] = "assign" => Cardinality(list[c]) > 1
  /\ at[c] = "upper" <=> current[c] # None
  /\ at[c] \in {"idle", "grab", "return", "assign"} => xfer[c] = None
  /\ at[c] = "deliver" =>
       xfer[c] # None /\ count[xfer[c]] > 0 /\ count[xfer[c]] >= Cardinality(list[c])
  /\ at[c] = "upper" => xfer[c] # None /\ count[xfer[c]] > Cardinality(list[c])

PInv == Apart /\ CountsApart /\ \A c \in Receivers : StepOfCallback(c)

Unanswered(t) == completed[t] = 0 /\ t \notin abandoned

\* A transfer is in the ring or with one callback until it is answered.
TInv ==
  /\ \A t \in Transfers : completed[t] <= 1 /\ (completed[t] = 0 \/ t \notin abandoned)
  /\ \A t \in Transfers \ sent : Unanswered(t)
  /\ \A i \in DOMAIN queue : queue[i] \in sent /\ Unanswered(queue[i])
  /\ \A i, j \in DOMAIN queue : i # j => queue[i] # queue[j]
  /\ \A c \in Receivers : at[c] # "idle" =>
       /\ got[c] \in sent /\ Unanswered(got[c])
       /\ \A i \in DOMAIN queue : queue[i] # got[c]
       /\ \A d \in Receivers \ {c} : at[d] # "idle" => got[d] # got[c]

RecvInv == RecvTypeOK /\ ZeroCountIsDead /\ PInv /\ TInv

\* What the other callbacks have stays as it is.
OthersUntouched(c) ==
  \A d \in Receivers \ {c} :
    /\ at'[d] = at[d] /\ list'[d] = list[d] /\ current'[d] = current[d]
    /\ xfer'[d] = xfer[d] /\ got'[d] = got[d]
    /\ Current(d)' = Current(d) /\ Open(d)' = Open(d)
    /\ HeldBy(d)' = HeldBy(d) /\ InHands(d)' = InHands(d)

\* A step of one callback touches nothing of the others.
LEMMA OthersKeep ==
  ASSUME RecvTypeOK, NEW c \in Receivers, NetVscOnChannelCallback(c)
  PROVE  OthersUntouched(c)
<1> SUFFICES ASSUME NEW d \in Receivers \ {c}
             PROVE  /\ at'[d] = at[d] /\ list'[d] = list[d] /\ current'[d] = current[d]
                    /\ xfer'[d] = xfer[d] /\ got'[d] = got[d]
                    /\ Current(d)' = Current(d) /\ Open(d)' = Open(d)
                    /\ HeldBy(d)' = HeldBy(d) /\ InHands(d)' = InHands(d)
  BY DEF OthersUntouched
<1> USE DEF RecvTypeOK, Goes, Sent, ring, heap, pool, sending
<1>1. at'[d] = at[d] /\ list'[d] = list[d] /\ current'[d] = current[d]
      /\ xfer'[d] = xfer[d] /\ got'[d] = got[d]
  <2>1. CASE OnReceive(c) BY <2>1 DEF OnReceive, Inbound!Receive
  <2>2. CASE Grab(c) BY <2>2 DEF Grab
  <2>3. CASE ReturnAll(c) BY <2>3 DEF ReturnAll
  <2>4. CASE AssignTransfer(c) BY <2>4 DEF AssignTransfer
  <2>5. CASE Deliver(c) BY <2>5 DEF Deliver
  <2>6. CASE OnReceiveReturns(c) BY <2>6 DEF OnReceiveReturns
  <2>7. CASE UpperKeeps(c) BY <2>7 DEF UpperKeeps
  <2>8. CASE OnReceiveCompletion(c) BY <2>8 DEF OnReceiveCompletion
  <2>9. CASE SendCompletion(c) BY <2>9 DEF SendCompletion
  <2>10. CASE RetryCompletion(c) BY <2>10 DEF RetryCompletion
  <2>11. CASE GiveUpCompletion(c) BY <2>11 DEF GiveUpCompletion
  <2> QED BY <2>1, <2>2, <2>3, <2>4, <2>5, <2>6, <2>7, <2>8, <2>9, <2>10, <2>11
             DEF NetVscOnChannelCallback
<1> QED BY <1>1 DEF Current, Open, HeldBy, InHands

\* Packets that move between one callback and the list stay in one place each.
LEMMA ApartKept ==
  ASSUME Apart, NEW c \in Receivers, OthersUntouched(c),
         HeldBy(c)' \cup free' \cup leaked' \subseteq HeldBy(c) \cup free \cup leaked,
         free' \cap leaked' = {}, HeldBy(c)' \cap (free' \cup leaked') = {},
         list'[c] \cap Current(c)' = {}, InHands(c)' \cap Open(c)' = {}
  PROVE  Apart'
<1>1. \A d \in Receivers \ {c} : HeldBy(d) \cap (HeldBy(c) \cup free \cup leaked) = {}
  BY DEF Apart
<1>2. \A d \in Receivers : HeldBy(d)' \cap (free' \cup leaked') = {}
  BY <1>1 DEF OthersUntouched
<1>3. \A d \in Receivers \ {c} : HeldBy(d)' \cap HeldBy(c)' = {}
  BY <1>1 DEF OthersUntouched
<1>4. \A d, e \in Receivers : d # e => HeldBy(d)' \cap HeldBy(e)' = {}
  BY <1>3 DEF Apart, OthersUntouched
<1>5. \A d \in Receivers : list'[d] \cap Current(d)' = {} /\ InHands(d)' \cap Open(d)' = {}
  BY DEF Apart, OthersUntouched
<1> QED BY <1>2, <1>4, <1>5 DEF Apart

\* What one callback may do to what p counts.
CountsRightly(c, p) ==
  /\ count'[p] \in Nat
  /\ \/ /\ count'[p] = 0 <=> count[p] = 0
        /\ p \in free' \cup leaked' \cup InHands(c)' <=> p \in free \cup leaked \cup InHands(c)
     \/ count'[p] = 0 /\ p \in free' \cup leaked' \cup InHands(c)'
     \/ /\ count'[p] # 0 /\ p \notin free' \cup leaked' \cup InHands(c)'
        /\ \A d \in Receivers \ {c} : p \notin InHands(d)

\* A packet of this callback comes to count something as it leaves its hands, or
\* ceases to as it goes back.
LEMMA CountsKept ==
  ASSUME CountsApart, NEW c \in Receivers, OthersUntouched(c),
         \A p \in Pool : CountsRightly(c, p)
  PROVE  CountsApart'
<1> SUFFICES ASSUME NEW p \in Pool
             PROVE  count'[p] = 0 <=> p \in free' \cup leaked'
                                      \/ \E d \in Receivers : p \in InHands(d)'
  BY DEF CountsApart, CountsRightly
<1> DEFINE Out == free \cup leaked \cup InHands(c)
           Others == \E d \in Receivers \ {c} : p \in InHands(d)
<1>1. count[p] = 0 <=> p \in Out \/ Others
  BY DEF CountsApart
<1>2. Others' <=> Others
  BY DEF OthersUntouched
<1>3. (p \in free' \cup leaked' \/ \E d \in Receivers : p \in InHands(d)')
        <=> p \in Out' \/ Others'
  OBVIOUS
<1> QED BY <1>1, <1>2, <1>3 DEF CountsRightly

\* The steps of the others are still so, if the packets that stand for their
\* transfers count what they did.
LEMMA StepsKept ==
  ASSUME NEW c \in Receivers, OthersUntouched(c), \A d \in Receivers : StepOfCallback(d),
         \A d \in Receivers \ {c} :
           at[d] \in {"deliver", "upper"} => count'[xfer[d]] = count[xfer[d]],
         StepOfCallback(c)'
  PROVE  \A d \in Receivers : StepOfCallback(d)'
<1>1. \A d \in Receivers \ {c} : StepOfCallback(d)'
  BY DEF StepOfCallback, OthersUntouched
<1> QED BY <1>1

\* Sets of packets are finite, and one packet fewer is one less.
LEMMA PacketSets ==
  ASSUME NEW S \in SUBSET Pool
  PROVE  /\ IsFiniteSet(S) /\ Cardinality(S) \in Nat
         /\ Cardinality(S) = 0 <=> S = {}
         /\ \A p \in S : Cardinality(S \ {p}) = Cardinality(S) - 1
BY PoolAssumption, FS_Subset, FS_CardinalityType, FS_EmptySet, FS_RemoveElement

\* A transfer is taken from the ring: no packet moves.
LEMMA OnReceivePool ==
  ASSUME RecvTypeOK, PInv, NEW c \in Receivers, OnReceive(c)
  PROVE  PInv'
<1> USE DEF RecvTypeOK, OnReceive, Goes, Inbound!Receive, heap, pool
<1>1. Open(c) = {} /\ Open(c)' = {}
  BY DEF Open
<1>2. HeldBy(c)' = HeldBy(c) /\ InHands(c)' = InHands(c)
  BY <1>1 DEF HeldBy, InHands, Current
<1>3. OthersUntouched(c)
  BY OthersKeep DEF NetVscOnChannelCallback
<1>4. Apart'
  <2>1. HeldBy(c)' \cup free' \cup leaked' \subseteq HeldBy(c) \cup free \cup leaked
    BY <1>1, <1>2
  <2>2. free' \cap leaked' = {} /\ HeldBy(c)' \cap (free' \cup leaked') = {}
    BY <1>1, <1>2 DEF PInv, Apart
  <2>3. list'[c] \cap Current(c)' = {} /\ InHands(c)' \cap Open(c)' = {}
    BY <1>1, <1>2 DEF PInv, Apart, Current
  <2> QED BY <1>3, <2>1, <2>2, <2>3, ApartKept DEF PInv
<1>5. CountsApart'
  <2>1. \A p \in Pool : CountsRightly(c, p)
    BY <1>2 DEF PInv, CountsApart, CountsRightly
  <2> QED BY <1>3, <2>1, CountsKept DEF PInv
<1>6. StepOfCallback(c)'
  BY DEF PInv, StepOfCallback
<1>7. \A d \in Receivers : StepOfCallback(d)'
  BY <1>3, <1>6, StepsKept DEF PInv
<1> QED BY <1>4, <1>5, <1>7 DEF PInv

\* Packets go from the free list to the callback.
LEMMA GrabPool ==
  ASSUME RecvTypeOK, PInv, NEW c \in Receivers, Grab(c)
  PROVE  PInv'
<1> USE DEF RecvTypeOK
<1>0. PICK taken \in SUBSET free :
        /\ Cardinality(taken) = Wanted(c)
        /\ list' = [list EXCEPT ![c] = taken]
        /\ free' = free \ taken
  BY DEF Grab
<1>a. /\ at[c] = "grab" /\ list[c] = {} /\ current[c] = None /\ xfer[c] = None
      /\ list'[c] = taken /\ current' = current /\ xfer' = xfer /\ count' = count
      /\ leaked' = leaked
      /\ at'[c] = (IF Wanted(c) < 2 THEN "return" ELSE "assign")
  BY <1>0 DEF Grab, Goes, PInv, StepOfCallback
<1>1. Open(c) = {} /\ Open(c)' = {} /\ Current(c) = {} /\ Current(c)' = {}
  BY <1>a DEF Open, Current
<1>2. HeldBy(c) = {} /\ InHands(c) = {} /\ HeldBy(c)' = taken /\ InHands(c)' = taken
  BY <1>1, <1>a DEF HeldBy, InHands
<1>3. OthersUntouched(c)
  BY OthersKeep DEF NetVscOnChannelCallback
<1>4. Apart'
  <2>1. HeldBy(c)' \cup free' \cup leaked' \subseteq HeldBy(c) \cup free \cup leaked
    BY <1>0, <1>a, <1>1, <1>2
  <2>2. free' \cap leaked' = {} /\ HeldBy(c)' \cap (free' \cup leaked') = {}
    BY <1>0, <1>a, <1>1, <1>2 DEF PInv, Apart
  <2>3. list'[c] \cap Current(c)' = {} /\ InHands(c)' \cap Open(c)' = {}
    BY <1>0, <1>a, <1>1, <1>2 DEF PInv, Apart, Current
  <2> QED BY <1>3, <2>1, <2>2, <2>3, ApartKept DEF PInv
<1>5. CountsApart'
  <2>1. \A p \in Pool : count'[p] \in Nat /\ (count'[p] = 0 <=> count[p] = 0)
    BY <1>a DEF PInv, CountsApart
  <2>2. free' \cup leaked' \cup InHands(c)' = free \cup leaked \cup InHands(c)
    BY <1>0, <1>a, <1>2
  <2>3. \A p \in Pool : CountsRightly(c, p)
    BY <2>1, <2>2 DEF CountsRightly
  <2> QED BY <1>3, <2>3, CountsKept DEF PInv
<1>6. StepOfCallback(c)'
  <2>1. Wanted(c) \in Nat /\ Cardinality(taken) = Wanted(c)
    BY <1>0, PacketSets
  <2> QED BY <1>a, <2>1 DEF StepOfCallback
<1>7. \A d \in Receivers : StepOfCallback(d)'
  BY <1>a, <1>3, <1>6, StepsKept DEF PInv
<1> QED BY <1>4, <1>5, <1>7 DEF PInv

\* All of them go back.
LEMMA ReturnAllPool ==
  ASSUME RecvTypeOK, PInv, NEW c \in Receivers, ReturnAll(c)
  PROVE  PInv'
<1> USE DEF RecvTypeOK
<1>a. /\ at[c] = "return" /\ current[c] = None /\ xfer[c] = None
      /\ list'[c] = {} /\ current' = current /\ xfer' = xfer /\ count' = count
      /\ leaked' = leaked /\ free' = free \cup list[c]
      /\ at'[c] = "send"
  BY DEF ReturnAll, Goes, PInv, StepOfCallback
<1>1. Open(c) = {} /\ Open(c)' = {} /\ Current(c) = {} /\ Current(c)' = {}
  BY <1>a DEF Open, Current
<1>2. HeldBy(c) = list[c] /\ InHands(c) = list[c] /\ HeldBy(c)' = {} /\ InHands(c)' = {}
  BY <1>1, <1>a DEF HeldBy, InHands
<1>3. OthersUntouched(c)
  BY OthersKeep DEF NetVscOnChannelCallback
<1>4. Apart'
  <2>1. HeldBy(c)' \cup free' \cup leaked' \subseteq HeldBy(c) \cup free \cup leaked
    BY <1>a, <1>1, <1>2
  <2>2. free' \cap leaked' = {} /\ HeldBy(c)' \cap (free' \cup leaked') = {}
    BY <1>a, <1>1, <1>2 DEF PInv, Apart
  <2>3. list'[c] \cap Current(c)' = {} /\ InHands(c)' \cap Open(c)' = {}
    BY <1>a, <1>1, <1>2 DEF PInv, Apart, Current
  <2> QED BY <1>3, <2>1, <2>2, <2>3, ApartKept DEF PInv
<1>5. CountsApart'
  <2>1. \A p \in Pool : count'[p] \in Nat /\ (count'[p] = 0 <=> count[p] = 0)
    BY <1>a DEF PInv, CountsApart
  <2>2. free' \cup leaked' \cup InHands(c)' = free \cup leaked \cup InHands(c)
    BY <1>a, <1>2
  <2>3. \A p \in Pool : CountsRightly(c, p)
    BY <2>1, <2>2 DEF CountsRightly
  <2> QED BY <1>3, <2>3, CountsKept DEF PInv
<1>6. StepOfCallback(c)'
  BY <1>a DEF StepOfCallback
<1>7. \A d \in Receivers : StepOfCallback(d)'
  BY <1>a, <1>3, <1>6, StepsKept DEF PInv
<1> QED BY <1>4, <1>5, <1>7 DEF PInv

\* What stands for a transfer of another callback is not this callback's.
LEMMA TransfersApart ==
  ASSUME RecvTypeOK, PInv, NEW c \in Receivers, NEW d \in Receivers \ {c},
         at[d] \in {"deliver", "upper"}
  PROVE  xfer[d] \in Pool /\ xfer[d] \notin HeldBy(c)
<1>1. xfer[d] \in Pool /\ xfer[d] \in Open(d)
  BY DEF RecvTypeOK, PInv, StepOfCallback, Open
<1> QED BY <1>1 DEF PInv, Apart, HeldBy

\* One of them stands for the transfer and counts the others.
LEMMA AssignPool ==
  ASSUME RecvTypeOK, PInv, NEW c \in Receivers, AssignTransfer(c)
  PROVE  PInv'
<1> USE DEF RecvTypeOK
<1>0. PICK x \in list[c] :
        /\ xfer' = [xfer EXCEPT ![c] = x]
        /\ count' = [count EXCEPT ![x] = Cardinality(list[c]) - 1]
        /\ list' = [list EXCEPT ![c] = @ \ {x}]
  BY DEF AssignTransfer
<1>a. /\ at[c] = "assign" /\ Cardinality(list[c]) > 1 /\ current[c] = None /\ xfer[c] = None
      /\ list'[c] = list[c] \ {x} /\ xfer'[c] = x /\ x \in Pool /\ x # None
      /\ count'[x] = Cardinality(list[c]) - 1
      /\ \A p \in Pool \ {x} : count'[p] = count[p]
      /\ current' = current /\ free' = free /\ leaked' = leaked /\ at'[c] = "deliver"
  BY <1>0, PoolAssumption DEF AssignTransfer, Goes, PInv, StepOfCallback
<1>1. Open(c) = {} /\ Open(c)' = {x} /\ Current(c) = {} /\ Current(c)' = {}
  BY <1>a DEF Open, Current
<1>2. /\ HeldBy(c) = list[c] /\ InHands(c) = list[c]
      /\ HeldBy(c)' = list[c] /\ InHands(c)' = list[c] \ {x}
  BY <1>1, <1>a DEF HeldBy, InHands
<1>3. OthersUntouched(c)
  BY OthersKeep DEF NetVscOnChannelCallback
<1>4. Apart'
  <2>1. HeldBy(c)' \cup free' \cup leaked' \subseteq HeldBy(c) \cup free \cup leaked
    BY <1>0, <1>a, <1>1, <1>2
  <2>2. free' \cap leaked' = {} /\ HeldBy(c)' \cap (free' \cup leaked') = {}
    BY <1>0, <1>a, <1>1, <1>2 DEF PInv, Apart
  <2>3. list'[c] \cap Current(c)' = {} /\ InHands(c)' \cap Open(c)' = {}
    BY <1>0, <1>a, <1>1, <1>2 DEF PInv, Apart, Current
  <2> QED BY <1>3, <2>1, <2>2, <2>3, ApartKept DEF PInv
<1>5. CountsApart'
  <2>1. count'[x] \in Nat /\ count'[x] # 0
    BY <1>a, PacketSets
  <2>2. x \notin free' \cup leaked' \cup InHands(c)'
    BY <1>a, <1>2 DEF PInv, Apart
  <2>3. \A d \in Receivers \ {c} : x \notin InHands(d)
    BY <1>2 DEF PInv, Apart, HeldBy, InHands
  <2>4. \A p \in Pool \ {x} :
          /\ count'[p] \in Nat /\ (count'[p] = 0 <=> count[p] = 0)
          /\ p \in free' \cup leaked' \cup InHands(c)' <=> p \in free \cup leaked \cup InHands(c)
    BY <1>a, <1>2 DEF PInv, CountsApart
  <2>5. \A p \in Pool : CountsRightly(c, p)
    BY <2>1, <2>2, <2>3, <2>4 DEF CountsRightly
  <2> QED BY <1>3, <2>5, CountsKept DEF PInv
<1>6. StepOfCallback(c)'
  <2>1. list[c] \in SUBSET Pool
    OBVIOUS
  <2>2. Cardinality(list'[c]) = Cardinality(list[c]) - 1 /\ Cardinality(list[c]) \in Nat
    BY <1>a, <2>1, PacketSets
  <2> QED BY <1>a, <2>2 DEF StepOfCallback
<1>7. \A d \in Receivers : StepOfCallback(d)'
  <2>1. \A d \in Receivers \ {c} :
          at[d] \in {"deliver", "upper"} => count'[xfer[d]] = count[xfer[d]]
    BY <1>a, <1>2, TransfersApart
  <2> QED BY <1>3, <1>6, <2>1, StepsKept DEF PInv
<1> QED BY <1>4, <1>5, <1>7 DEF PInv

\* One of them goes to the upper layers.
LEMMA DeliverPool ==
  ASSUME RecvTypeOK, PInv, NEW c \in Receivers, Deliver(c)
  PROVE  PInv'
<1> USE DEF RecvTypeOK
<1>0. PICK given \in list[c] :
        /\ current' = [current EXCEPT ![c] = given]
        /\ list' = [list EXCEPT ![c] = @ \ {given}]
  BY DEF Deliver
<1>a. /\ at[c] = "deliver" /\ current[c] = None /\ xfer[c] \in Pool /\ xfer[c] # None
      /\ count[xfer[c]] > 0 /\ count[xfer[c]] >= Cardinality(list[c])
      /\ list'[c] = list[c] \ {given} /\ current'[c] = given /\ given # None /\ given \in Pool
      /\ xfer' = xfer /\ count' = count
      /\ free' = free /\ leaked' = leaked /\ at'[c] = "upper"
  BY <1>0, PoolAssumption DEF Deliver, Goes, PInv, StepOfCallback
<1>1. /\ Open(c) = {xfer[c]} /\ Open(c)' = {xfer[c]}
      /\ Current(c) = {} /\ Current(c)' = {given}
  BY <1>a DEF Open, Current
<1>2. HeldBy(c)' = HeldBy(c) /\ InHands(c) = list[c] /\ InHands(c)' = list[c]
  BY <1>1, <1>a DEF HeldBy, InHands
<1>3. OthersUntouched(c)
  BY OthersKeep DEF NetVscOnChannelCallback
<1>4. Apart'
  <2>1. HeldBy(c)' \cup free' \cup leaked' \subseteq HeldBy(c) \cup free \cup leaked
    BY <1>a, <1>1, <1>2
  <2>2. free' \cap leaked' = {} /\ HeldBy(c)' \cap (free' \cup leaked') = {}
    BY <1>a, <1>1, <1>2 DEF PInv, Apart
  <2>3. list'[c] \cap Current(c)' = {} /\ InHands(c)' \cap Open(c)' = {}
    BY <1>a, <1>1, <1>2 DEF PInv, Apart, Current
  <2> QED BY <1>3, <2>1, <2>2, <2>3, ApartKept DEF PInv
<1>5. CountsApart'
  <2>1. \A p \in Pool : count'[p] \in Nat /\ (count'[p] = 0 <=> count[p] = 0)
    BY <1>a DEF PInv, CountsApart
  <2>2. free' \cup leaked' \cup InHands(c)' = free \cup leaked \cup InHands(c)
    BY <1>a, <1>2
  <2>3. \A p \in Pool : CountsRightly(c, p)
    BY <2>1, <2>2 DEF CountsRightly
  <2> QED BY <1>3, <2>3, CountsKept DEF PInv
<1>6. StepOfCallback(c)'
  <2>1. list[c] \in SUBSET Pool
    OBVIOUS
  <2>2. Cardinality(list'[c]) = Cardinality(list[c]) - 1 /\ Cardinality(list[c]) \in Nat
    BY <1>a, <2>1, PacketSets
  <2>3. count[xfer[c]] \in Nat
    BY <1>a DEF PInv, CountsApart
  <2> QED BY <1>a, <2>2, <2>3 DEF StepOfCallback
<1>7. \A d \in Receivers : StepOfCallback(d)'
  BY <1>a, <1>3, <1>6, StepsKept DEF PInv
<1> QED BY <1>4, <1>5, <1>7 DEF PInv

\* The callback returns, and what stood for the transfer stays where it counts.
LEMMA OnReceiveReturnsPool ==
  ASSUME RecvTypeOK, PInv, NEW c \in Receivers, OnReceiveReturns(c)
  PROVE  PInv'
<1> USE DEF RecvTypeOK
<1>a. /\ at[c] = "deliver" /\ current[c] = None /\ xfer[c] # None /\ list[c] = {}
      /\ list' = list /\ current' = current /\ xfer'[c] = None /\ count' = count
      /\ free' = free /\ leaked' = leaked /\ at'[c] = "idle"
  BY DEF OnReceiveReturns, Goes, PInv, StepOfCallback
<1>1. /\ Open(c) = {xfer[c]} /\ Open(c)' = {}
      /\ Current(c) = {} /\ Current(c)' = {}
  BY <1>a DEF Open, Current
<1>2. HeldBy(c)' = {} /\ InHands(c) = {} /\ InHands(c)' = {}
  BY <1>1, <1>a DEF HeldBy, InHands
<1>3. OthersUntouched(c)
  BY OthersKeep DEF NetVscOnChannelCallback
<1>4. Apart'
  <2>1. HeldBy(c)' \cup free' \cup leaked' \subseteq HeldBy(c) \cup free \cup leaked
    BY <1>a, <1>1, <1>2
  <2>2. free' \cap leaked' = {} /\ HeldBy(c)' \cap (free' \cup leaked') = {}
    BY <1>a, <1>1, <1>2 DEF PInv, Apart
  <2>3. list'[c] \cap Current(c)' = {} /\ InHands(c)' \cap Open(c)' = {}
    BY <1>a, <1>1, <1>2 DEF PInv, Apart, Current
  <2> QED BY <1>3, <2>1, <2>2, <2>3, ApartKept DEF PInv
<1>5. CountsApart'
  <2>1. \A p \in Pool : count'[p] \in Nat /\ (count'[p] = 0 <=> count[p] = 0)
    BY <1>a DEF PInv, CountsApart
  <2>2. free' \cup leaked' \cup InHands(c)' = free \cup leaked \cup InHands(c)
    BY <1>a, <1>2
  <2>3. \A p \in Pool : CountsRightly(c, p)
    BY <2>1, <2>2 DEF CountsRightly
  <2> QED BY <1>3, <2>3, CountsKept DEF PInv
<1>6. StepOfCallback(c)'
  BY <1>a DEF StepOfCallback
<1>7. \A d \in Receivers : StepOfCallback(d)'
  BY <1>a, <1>3, <1>6, StepsKept DEF PInv
<1> QED BY <1>4, <1>5, <1>7 DEF PInv

\* The upper layers keep a packet.
LEMMA UpperKeepsPool ==
  ASSUME RecvTypeOK, PInv, NEW c \in Receivers, UpperKeeps(c)
  PROVE  PInv'
<1> USE DEF RecvTypeOK
<1>a. /\ at[c] = "upper" /\ current[c] # None /\ xfer[c] \in Pool /\ xfer[c] # None
      /\ count[xfer[c]] > Cardinality(list[c])
      /\ list' = list /\ current'[c] = None /\ xfer' = xfer /\ count' = count
      /\ free' = free /\ leaked' = leaked \cup {current[c]} /\ at'[c] = "deliver"
  BY DEF UpperKeeps, Goes, PInv, StepOfCallback
<1>1. /\ Open(c) = {xfer[c]} /\ Open(c)' = {xfer[c]}
      /\ Current(c) = {current[c]} /\ Current(c)' = {}
  BY <1>a DEF Open, Current
<1>2. /\ HeldBy(c) = list[c] \cup {current[c], xfer[c]} /\ InHands(c) = list[c] \cup {current[c]}
      /\ HeldBy(c)' = list[c] \cup {xfer[c]} /\ InHands(c)' = list[c]
      /\ current[c] \notin list[c] /\ xfer[c] # current[c] /\ xfer[c] \notin list[c]
  BY <1>1, <1>a DEF HeldBy, InHands, PInv, Apart
<1>3. OthersUntouched(c)
  BY OthersKeep DEF NetVscOnChannelCallback
<1>4. Apart'
  <2>1. HeldBy(c)' \cup free' \cup leaked' \subseteq HeldBy(c) \cup free \cup leaked
    BY <1>a, <1>1, <1>2
  <2>2. free' \cap leaked' = {} /\ HeldBy(c)' \cap (free' \cup leaked') = {}
    BY <1>a, <1>1, <1>2 DEF PInv, Apart
  <2>3. list'[c] \cap Current(c)' = {} /\ InHands(c)' \cap Open(c)' = {}
    BY <1>a, <1>1, <1>2 DEF PInv, Apart, Current
  <2> QED BY <1>3, <2>1, <2>2, <2>3, ApartKept DEF PInv
<1>5. CountsApart'
  <2>1. \A p \in Pool : count'[p] \in Nat /\ (count'[p] = 0 <=> count[p] = 0)
    BY <1>a DEF PInv, CountsApart
  <2>2. free' \cup leaked' \cup InHands(c)' = free \cup leaked \cup InHands(c)
    BY <1>a, <1>2
  <2>3. \A p \in Pool : CountsRightly(c, p)
    BY <2>1, <2>2 DEF CountsRightly
  <2> QED BY <1>3, <2>3, CountsKept DEF PInv
<1>6. StepOfCallback(c)'
  <2>1. list[c] \in SUBSET Pool
    OBVIOUS
  <2>2. Cardinality(list[c]) \in Nat
    BY <2>1, PacketSets
  <2>3. count[xfer[c]] \in Nat
    BY <1>a DEF PInv, CountsApart
  <2> QED BY <1>a, <2>2, <2>3 DEF StepOfCallback
<1>7. \A d \in Receivers : StepOfCallback(d)'
  BY <1>a, <1>3, <1>6, StepsKept DEF PInv
<1> QED BY <1>4, <1>5, <1>7 DEF PInv

\* A packet comes back, and with the last one what stood for the transfer: its count
\* was not 0.
LEMMA OnReceiveCompletionPool ==
  ASSUME RecvTypeOK, PInv, NEW c \in Receivers, OnReceiveCompletion(c)
  PROVE  PInv' /\ count[xfer[c]] # 0
<1> USE DEF RecvTypeOK
<1> DEFINE x == xfer[c]
           left == count[x] - 1
<1>a. /\ at[c] = "upper" /\ current[c] # None /\ x \in Pool /\ x # None
      /\ count[x] > Cardinality(list[c])
      /\ list' = list /\ current'[c] = None /\ xfer' = xfer
      /\ count'[x] = left /\ \A p \in Pool \ {x} : count'[p] = count[p]
      /\ free' = free \cup {current[c]} \cup (IF left = 0 THEN {x} ELSE {})
      /\ leaked' = leaked /\ at'[c] = (IF left = 0 THEN "send" ELSE "deliver")
  BY DEF OnReceiveCompletion, Goes, PInv, StepOfCallback
<1>b. left \in Nat /\ Cardinality(list[c]) \in Nat /\ left >= Cardinality(list[c])
      /\ (left = 0 => list[c] = {})
  <2>1. list[c] \in SUBSET Pool
    OBVIOUS
  <2>2. Cardinality(list[c]) \in Nat /\ (Cardinality(list[c]) = 0 <=> list[c] = {})
    BY <2>1, PacketSets
  <2>3. count[x] \in Nat
    BY <1>a DEF PInv, CountsApart
  <2> QED BY <1>a, <2>2, <2>3
<1>1. /\ Open(c) = {x} /\ Open(c)' = (IF left = 0 THEN {} ELSE {x})
      /\ Current(c) = {current[c]} /\ Current(c)' = {}
  BY <1>a DEF Open, Current
<1>2. /\ HeldBy(c) = list[c] \cup {current[c], x} /\ InHands(c) = list[c] \cup {current[c]}
      /\ HeldBy(c)' = (IF left = 0 THEN {} ELSE list[c] \cup {x}) /\ InHands(c)' = list[c]
      /\ current[c] \notin list[c] /\ x # current[c] /\ x \notin list[c]
  BY <1>1, <1>a, <1>b DEF HeldBy, InHands, PInv, Apart
<1>3. OthersUntouched(c)
  BY OthersKeep DEF NetVscOnChannelCallback
<1>4. Apart'
  <2>1. HeldBy(c)' \cup free' \cup leaked' \subseteq HeldBy(c) \cup free \cup leaked
    BY <1>a, <1>b, <1>1, <1>2
  <2>2. free' \cap leaked' = {} /\ HeldBy(c)' \cap (free' \cup leaked') = {}
    BY <1>a, <1>b, <1>1, <1>2 DEF PInv, Apart
  <2>3. list'[c] \cap Current(c)' = {} /\ InHands(c)' \cap Open(c)' = {}
    BY <1>a, <1>b, <1>1, <1>2 DEF PInv, Apart, Current
  <2> QED BY <1>3, <2>1, <2>2, <2>3, ApartKept DEF PInv
<1>5. CountsApart'
  <2>1. \A p \in Pool \ {x} :
          /\ count'[p] \in Nat /\ (count'[p] = 0 <=> count[p] = 0)
          /\ p \in free' \cup leaked' \cup InHands(c)' <=> p \in free \cup leaked \cup InHands(c)
    BY <1>a, <1>2 DEF PInv, CountsApart
  <2>2. x \notin free \cup leaked \cup InHands(c)
    BY <1>2 DEF PInv, Apart
  <2>3. left = 0 => x \in free'
    BY <1>a
  <2>4. left # 0 => x \notin free' \cup leaked' \cup InHands(c)'
    BY <1>a, <1>2, <2>2
  <2>5. \A d \in Receivers \ {c} : x \notin InHands(d)
    BY <1>2 DEF PInv, Apart, HeldBy, InHands
  <2>6. CountsRightly(c, x)
    BY <1>a, <1>b, <2>3, <2>4, <2>5 DEF CountsRightly
  <2>7. \A p \in Pool : CountsRightly(c, p)
    BY <2>1, <2>6 DEF CountsRightly
  <2> QED BY <1>3, <2>7, CountsKept DEF PInv
<1>6. StepOfCallback(c)'
  <2>1. CASE left = 0
    BY <1>a, <1>b, <2>1 DEF StepOfCallback
  <2>2. CASE left # 0
    BY <1>a, <1>b, <2>2 DEF StepOfCallback
  <2> QED BY <2>1, <2>2
<1>7. \A d \in Receivers : StepOfCallback(d)'
  <2>1. \A d \in Receivers \ {c} :
          at[d] \in {"deliver", "upper"} => count'[xfer[d]] = count[xfer[d]]
    BY <1>a, <1>2, TransfersApart
  <2> QED BY <1>3, <1>6, <2>1, StepsKept DEF PInv
<1>8. count[x] # 0
  <2>1. count[x] \in Nat
    BY <1>a DEF PInv, CountsApart
  <2> QED BY <1>b, <2>1
<1> QED BY <1>4, <1>5, <1>7, <1>8 DEF PInv

\* The completion is out, or given up: the callback has nothing left.
LEMMA SentPool ==
  ASSUME RecvTypeOK, PInv, NEW c \in Receivers, at[c] = "send",
         SendCompletion(c) \/ GiveUpCompletion(c)
  PROVE  PInv' /\ at'[c] = "idle"
<1> USE DEF RecvTypeOK
<1>a. /\ current[c] = None /\ list[c] = {}
      /\ list' = list /\ current' = current /\ xfer'[c] = None /\ count' = count
      /\ free' = free /\ leaked' = leaked /\ at'[c] = "idle"
  BY DEF SendCompletion, GiveUpCompletion, Sent, Goes, heap, PInv, StepOfCallback
<1>1. /\ Open(c) = {} /\ Open(c)' = {}
      /\ Current(c) = {} /\ Current(c)' = {}
  BY <1>a DEF Open, Current
<1>2. HeldBy(c) = {} /\ HeldBy(c)' = {} /\ InHands(c) = {} /\ InHands(c)' = {}
  BY <1>1, <1>a DEF HeldBy, InHands
<1>3. OthersUntouched(c)
  BY OthersKeep DEF NetVscOnChannelCallback
<1>4. Apart'
  <2>1. HeldBy(c)' \cup free' \cup leaked' \subseteq HeldBy(c) \cup free \cup leaked
    BY <1>a, <1>1, <1>2
  <2>2. free' \cap leaked' = {} /\ HeldBy(c)' \cap (free' \cup leaked') = {}
    BY <1>a, <1>1, <1>2 DEF PInv, Apart
  <2>3. list'[c] \cap Current(c)' = {} /\ InHands(c)' \cap Open(c)' = {}
    BY <1>a, <1>1, <1>2 DEF PInv, Apart, Current
  <2> QED BY <1>3, <2>1, <2>2, <2>3, ApartKept DEF PInv
<1>5. CountsApart'
  <2>1. \A p \in Pool : count'[p] \in Nat /\ (count'[p] = 0 <=> count[p] = 0)
    BY <1>a DEF PInv, CountsApart
  <2>2. free' \cup leaked' \cup InHands(c)' = free \cup leaked \cup InHands(c)
    BY <1>a, <1>2
  <2>3. \A p \in Pool : CountsRightly(c, p)
    BY <2>1, <2>2 DEF CountsRightly
  <2> QED BY <1>3, <2>3, CountsKept DEF PInv
<1>6. StepOfCallback(c)'
  BY <1>a DEF StepOfCallback
<1>7. \A d \in Receivers : StepOfCallback(d)'
  BY <1>a, <1>3, <1>6, StepsKept DEF PInv
<1> QED BY <1>a, <1>4, <1>5, <1>7 DEF PInv

\* A step that moves no packet.
LEMMA PoolUnchanged ==
  ASSUME PInv, UNCHANGED <<pool, at>>
  PROVE  PInv'
<1> USE DEF pool, heap
<1>1. \A c \in Receivers :
        /\ Current(c)' = Current(c) /\ Open(c)' = Open(c)
        /\ HeldBy(c)' = HeldBy(c) /\ InHands(c)' = InHands(c)
  BY DEF Current, Open, HeldBy, InHands
<1>2. Apart'
  BY <1>1 DEF PInv, Apart
<1>3. CountsApart'
  BY <1>1 DEF PInv, CountsApart
<1>4. \A c \in Receivers : StepOfCallback(c)'
  BY DEF PInv, StepOfCallback
<1> QED BY <1>2, <1>3, <1>4 DEF PInv

\* The queue of the inbound ring keeps what is behind the transfer that is taken.
LEMMA QueueTail ==
  ASSUME NEW q \in Seq(Transfers), q # <<>>
  PROVE  /\ Head(q) \in Transfers /\ Head(q) = q[1] /\ 1 \in DOMAIN q
         /\ Tail(q) \in Seq(Transfers) /\ Len(q) \in Nat /\ Len(q) > 0
         /\ DOMAIN q = 1 .. Len(q) /\ DOMAIN Tail(q) = 1 .. Len(q) - 1
         /\ \A i \in DOMAIN Tail(q) : Tail(q)[i] = q[i + 1] /\ i + 1 \in DOMAIN q
<1>1. Len(q) \in Nat /\ DOMAIN q = 1 .. Len(q) /\ Len(q) > 0
  BY EmptySeq, LenProperties
<1>2. /\ Head(q) = q[1] /\ Head(q) \in Transfers /\ Tail(q) \in Seq(Transfers)
      /\ Len(Tail(q)) = Len(q) - 1
      /\ \A i \in 1 .. Len(Tail(q)) : Tail(q)[i] = q[i + 1]
  BY <1>1, HeadTailProperties, ElementOfSeq
<1>3. DOMAIN Tail(q) = 1 .. Len(q) - 1
  BY <1>1, <1>2, LenProperties
<1> QED BY <1>1, <1>2, <1>3

\* The types.
LEMMA RecvTypeKept ==
  ASSUME RecvTypeOK, PInv, TInv, [RecvNext]_recvVars
  PROVE  RecvTypeOK'
<1> USE DEF RecvTypeOK, Goes, ring, heap, pool, sending, Steps
<1>1. ASSUME NEW t \in Transfers, HostTransfers(t)
      PROVE  RecvTypeOK'
  BY <1>1, AppendProperties DEF HostTransfers, Inbound!Send
<1>2. ASSUME NEW c \in Receivers, OnReceive(c)
      PROVE  RecvTypeOK'
  <2>1. queue \in Seq(Transfers) /\ queue # <<>>
    BY <1>2 DEF OnReceive, Inbound!Receive
  <2>2. Head(queue) \in Transfers /\ Tail(queue) \in Seq(Transfers)
    BY <2>1, QueueTail
  <2> QED BY <1>2, <2>2 DEF OnReceive, Inbound!Receive
<1>3. ASSUME NEW c \in Receivers, Grab(c)
      PROVE  RecvTypeOK'
  BY <1>3 DEF Grab
<1>4. ASSUME NEW c \in Receivers, ReturnAll(c)
      PROVE  RecvTypeOK'
  <2>1. got[c] \in Transfers
    BY <1>4 DEF ReturnAll, TInv
  <2> QED BY <1>4, <2>1 DEF ReturnAll
<1>5. ASSUME NEW c \in Receivers, AssignTransfer(c)
      PROVE  RecvTypeOK'
  <2>1. Cardinality(list[c]) - 1 \in Int
    <3>1. list[c] \in SUBSET Pool
      OBVIOUS
    <3>2. Cardinality(list[c]) \in Nat
      BY <3>1, PacketSets
    <3> QED BY <3>2
  <2> QED BY <1>5, <2>1 DEF AssignTransfer
<1>6. ASSUME NEW c \in Receivers, Deliver(c)
      PROVE  RecvTypeOK'
  BY <1>6 DEF Deliver
<1>7. ASSUME NEW c \in Receivers, OnReceiveReturns(c)
      PROVE  RecvTypeOK'
  BY <1>7 DEF OnReceiveReturns
<1>8. ASSUME NEW c \in Receivers, UpperKeeps(c)
      PROVE  RecvTypeOK'
  <2>1. current[c] \in Pool
    BY <1>8 DEF UpperKeeps, PInv, StepOfCallback
  <2> QED BY <1>8, <2>1 DEF UpperKeeps
<1>9. ASSUME NEW c \in Receivers, OnReceiveCompletion(c)
      PROVE  RecvTypeOK'
  <2>1. current[c] \in Pool /\ xfer[c] \in Pool
    BY <1>9 DEF OnReceiveCompletion, PInv, StepOfCallback
  <2> DEFINE left == count[xfer[c]] - 1
  <2>2. left \in Int
    BY <2>1
  <2>3. /\ count' = [count EXCEPT ![xfer[c]] = left]
        /\ free' = free \cup {current[c]} \cup (IF left = 0 THEN {xfer[c]} ELSE {})
        /\ at' = [at EXCEPT ![c] = IF left = 0 THEN "send" ELSE "deliver"]
        /\ zeroCount' = (zeroCount \/ count[xfer[c]] = 0)
        /\ current' = [current EXCEPT ![c] = None]
        /\ UNCHANGED <<ring, sending, list, xfer, leaked, refused>>
    BY <1>9 DEF OnReceiveCompletion
  <2>4. count' \in [Pool -> Int] /\ free' \subseteq Pool
    BY <2>1, <2>2, <2>3
  <2>5. at' \in [Receivers -> Steps] /\ zeroCount' \in BOOLEAN
    BY <2>3
  <2> QED BY <2>3, <2>4, <2>5
<1>10. ASSUME NEW c \in Receivers, SendCompletion(c)
       PROVE  RecvTypeOK'
  <2>1. got[c] \in Transfers
    BY <1>10 DEF SendCompletion, TInv
  <2> QED BY <1>10, <2>1 DEF SendCompletion, Sent, Tries
<1>11. ASSUME NEW c \in Receivers, RetryCompletion(c)
       PROVE  RecvTypeOK'
  <2>1. /\ retries[c] + 1 < Tries /\ retries' = [retries EXCEPT ![c] = @ + 1]
        /\ full < MaxFull /\ full' = full + 1
        /\ UNCHANGED <<ring, pool, completed, abandoned, at, refused, zeroCount>>
    BY <1>11 DEF RetryCompletion
  <2>2. retries' \in [Receivers -> 0 .. Tries - 1]
    <3>1. retries \in [Receivers -> 0 .. 3] /\ retries[c] + 1 \in 0 .. 3
      <4>1. Tries - 1 = 3
        BY DEF Tries
      <4>2. retries \in [Receivers -> 0 .. 3]
        BY <4>1
      <4>3. retries[c] \in 0 .. 3 /\ retries[c] + 1 < 4
        BY <2>1, <4>2 DEF Tries
      <4> QED BY <4>2, <4>3
    <3>2. retries' \in [Receivers -> 0 .. 3]
      BY <2>1, <3>1
    <3> QED BY <3>2 DEF Tries
  <2>3. full' \in 0 .. MaxFull
    BY <2>1, RecvBoundsAssumption
  <2> QED BY <2>1, <2>2, <2>3
<1>12. ASSUME NEW c \in Receivers, GiveUpCompletion(c)
       PROVE  RecvTypeOK'
  <2>1. got[c] \in Transfers
    BY <1>12 DEF GiveUpCompletion, TInv
  <2> QED BY <1>12, <2>1, RecvBoundsAssumption DEF GiveUpCompletion, Sent, Tries
<1>13. CASE UNCHANGED recvVars
  BY <1>13 DEF recvVars
<1> QED BY <1>1, <1>2, <1>3, <1>4, <1>5, <1>6, <1>7, <1>8, <1>9, <1>10, <1>11, <1>12, <1>13
           DEF RecvNext, NetVscOnChannelCallback

\* A step that answers no transfer, takes none and sends none.
LEMMA TransfersUnchanged ==
  ASSUME TInv, UNCHANGED <<ring, completed, abandoned>>,
         \A c \in Receivers : at'[c] # "idle" => at[c] # "idle"
  PROVE  TInv'
BY DEF TInv, Unanswered, ring

\* The host sends a transfer.
LEMMA HostTransfersOnce ==
  ASSUME RecvTypeOK, TInv, NEW t \in Transfers, HostTransfers(t)
  PROVE  TInv'
<1> USE DEF RecvTypeOK
<1>1. /\ t \notin sent /\ sent' = sent \cup {t} /\ queue' = Append(queue, t)
      /\ UNCHANGED <<got, at, completed, abandoned>>
  BY DEF HostTransfers, Inbound!Send, sending
<1>2. /\ queue \in Seq(Transfers) /\ Len(queue) \in Nat
      /\ DOMAIN queue = 1 .. Len(queue) /\ DOMAIN queue' = 1 .. Len(queue) + 1
      /\ \A i \in 1 .. Len(queue) : queue'[i] = queue[i]
      /\ queue'[Len(queue) + 1] = t
  BY <1>1, AppendProperties, LenProperties
<1>3. Unanswered(t) /\ \A s \in Transfers : Unanswered(s)' <=> Unanswered(s)
  BY <1>1 DEF TInv, Unanswered
<1>4. \A i \in DOMAIN queue' : queue'[i] \in sent' /\ Unanswered(queue[i])'
  BY <1>1, <1>2, <1>3 DEF TInv
<1>5. \A i, j \in DOMAIN queue' : i # j => queue'[i] # queue'[j]
  BY <1>1, <1>2 DEF TInv
<1>6. \A c \in Receivers : at'[c] # "idle" =>
        /\ got'[c] \in sent' /\ Unanswered(got[c])'
        /\ \A i \in DOMAIN queue' : queue'[i] # got'[c]
        /\ \A d \in Receivers \ {c} : at'[d] # "idle" => got'[d] # got'[c]
  BY <1>1, <1>2, <1>3 DEF TInv
<1> QED BY <1>1, <1>3, <1>4, <1>5, <1>6 DEF TInv

\* A callback takes the first one.
LEMMA OnReceiveOnce ==
  ASSUME RecvTypeOK, TInv, NEW c \in Receivers, OnReceive(c)
  PROVE  TInv'
<1> USE DEF RecvTypeOK
<1>1. /\ queue # <<>> /\ queue' = Tail(queue) /\ got' = [got EXCEPT ![c] = Head(queue)]
      /\ at[c] = "idle" /\ at' = [at EXCEPT ![c] = "grab"]
      /\ UNCHANGED <<sent, completed, abandoned>>
  BY DEF OnReceive, Goes, Inbound!Receive, sending
<1>2. /\ queue \in Seq(Transfers) /\ Len(queue) \in Nat /\ Len(queue) > 0
      /\ DOMAIN queue = 1 .. Len(queue) /\ DOMAIN queue' = 1 .. Len(queue) - 1
      /\ got'[c] = queue[1] /\ 1 \in DOMAIN queue /\ got'[c] \in Transfers
      /\ \A i \in DOMAIN queue' : queue'[i] = queue[i + 1] /\ i + 1 \in DOMAIN queue
  BY <1>1, QueueTail
<1>3. \A s \in Transfers : Unanswered(s)' <=> Unanswered(s)
  BY <1>1 DEF Unanswered
<1>4. \A i \in DOMAIN queue' : queue'[i] \in sent' /\ Unanswered(queue[i])'
  BY <1>1, <1>2, <1>3 DEF TInv
<1>5. \A i, j \in DOMAIN queue' : i # j => queue'[i] # queue'[j]
  BY <1>2 DEF TInv
<1>6. ASSUME NEW d \in Receivers, at'[d] # "idle"
      PROVE  /\ got'[d] \in sent' /\ Unanswered(got[d])'
             /\ \A i \in DOMAIN queue' : queue'[i] # got'[d]
             /\ \A e \in Receivers \ {d} : at'[e] # "idle" => got'[e] # got'[d]
  <2>1. CASE d = c
    BY <1>1, <1>2, <1>3, <2>1 DEF TInv
  <2>2. CASE d # c
    BY <1>1, <1>2, <1>3, <1>6, <2>2 DEF TInv
  <2> QED BY <2>1, <2>2
<1> QED BY <1>1, <1>3, <1>4, <1>5, <1>6 DEF TInv

\* A transfer is answered, or given up, and the callback is through with it.
LEMMA AnsweredOnce ==
  ASSUME RecvTypeOK, TInv, NEW c \in Receivers, at[c] = "send", at'[c] = "idle",
         SendCompletion(c) \/ GiveUpCompletion(c)
  PROVE  TInv'
<1> USE DEF RecvTypeOK
<1> DEFINE t == got[c]
<1>1. /\ t \in sent /\ t \in Transfers /\ Unanswered(t)
      /\ \A i \in DOMAIN queue : queue[i] # t
      /\ \A d \in Receivers \ {c} : at[d] # "idle" => got[d] # t
  BY DEF TInv
<1>2. UNCHANGED <<queue, got, sent>>
  BY DEF SendCompletion, GiveUpCompletion, ring
<1>3. \A d \in Receivers \ {c} : at'[d] = at[d]
  BY DEF SendCompletion, GiveUpCompletion, Sent, Goes
<1>4. \/ completed'[t] = 1 /\ abandoned' = abandoned
      \/ completed'[t] = 0 /\ abandoned' = abandoned \cup {t}
  BY <1>1 DEF SendCompletion, GiveUpCompletion, Unanswered
<1>5. /\ \A s \in Transfers \ {t} : completed'[s] = completed[s]
      /\ \A s \in Transfers \ {t} : s \in abandoned' <=> s \in abandoned
  BY <1>1 DEF SendCompletion, GiveUpCompletion
<1>6. \A s \in Transfers \ {t} : Unanswered(s) => Unanswered(s)'
  BY <1>5 DEF Unanswered
<1>7. \A s \in Transfers : completed'[s] <= 1 /\ (completed'[s] = 0 \/ s \notin abandoned')
  BY <1>1, <1>4, <1>5 DEF TInv, Unanswered
<1>8. \A d \in Receivers : at'[d] # "idle" => d # c /\ at[d] # "idle"
  BY <1>3
<1> QED BY <1>1, <1>2, <1>6, <1>7, <1>8 DEF TInv

\* Every step keeps the packets and the transfers in their places.
LEMMA RecvStep ==
  ASSUME RecvInv, [RecvNext]_recvVars
  PROVE  RecvInv'
<1> USE DEF RecvInv
<1>1. RecvTypeOK'
  BY RecvTypeKept
<1>2. ASSUME NEW t \in Transfers, HostTransfers(t)
      PROVE  PInv' /\ TInv' /\ ZeroCountIsDead'
  BY <1>2, PoolUnchanged, HostTransfersOnce DEF HostTransfers, ZeroCountIsDead
<1>3. ASSUME NEW c \in Receivers, NetVscOnChannelCallback(c)
      PROVE  PInv' /\ TInv' /\ ZeroCountIsDead'
  <2> USE DEF RecvTypeOK, ZeroCountIsDead
  <2>1. ASSUME UNCHANGED <<ring, completed, abandoned>>, at[c] # "idle"
        PROVE  TInv'
    <3>1. OthersUntouched(c)
      BY <1>3, OthersKeep
    <3>2. \A d \in Receivers : at'[d] # "idle" => at[d] # "idle"
      BY <2>1, <3>1 DEF OthersUntouched
    <3> QED BY <2>1, <3>2, TransfersUnchanged
  <2>2. CASE OnReceive(c)
    BY <2>2, OnReceivePool, OnReceiveOnce DEF OnReceive
  <2>3. CASE Grab(c)
    BY <2>1, <2>3, GrabPool DEF Grab, sending
  <2>4. CASE ReturnAll(c)
    BY <2>1, <2>4, ReturnAllPool DEF ReturnAll, sending
  <2>5. CASE AssignTransfer(c)
    BY <2>1, <2>5, AssignPool DEF AssignTransfer, sending
  <2>6. CASE Deliver(c)
    BY <2>1, <2>6, DeliverPool DEF Deliver, sending
  <2>7. CASE OnReceiveReturns(c)
    BY <2>1, <2>7, OnReceiveReturnsPool DEF OnReceiveReturns, sending
  <2>8. CASE UpperKeeps(c)
    BY <2>1, <2>8, UpperKeepsPool DEF UpperKeeps, sending
  <2>9. CASE OnReceiveCompletion(c)
    <3>1. PInv' /\ count[xfer[c]] # 0
      BY <2>9, OnReceiveCompletionPool
    <3>2. zeroCount' = FALSE
      BY <2>9, <3>1 DEF OnReceiveCompletion
    <3>3. TInv'
      BY <2>1, <2>9 DEF OnReceiveCompletion, sending
    <3> QED BY <3>1, <3>2, <3>3
  <2>10. CASE SendCompletion(c) \/ GiveUpCompletion(c)
    <3>1. at[c] = "send" /\ UNCHANGED zeroCount
      BY <2>10 DEF SendCompletion, GiveUpCompletion
    <3>2. PInv' /\ at'[c] = "idle"
      BY <2>10, <3>1, SentPool
    <3> QED BY <2>10, <3>1, <3>2, AnsweredOnce
  <2>11. CASE RetryCompletion(c)
    BY <2>1, <2>11, PoolUnchanged DEF RetryCompletion
  <2> QED BY <1>3, <2>2, <2>3, <2>4, <2>5, <2>6, <2>7, <2>8, <2>9, <2>10, <2>11
             DEF NetVscOnChannelCallback
<1>4. CASE UNCHANGED recvVars
  <2>1. UNCHANGED <<ring, pool, at, completed, abandoned, zeroCount>>
    BY <1>4 DEF recvVars, sending
  <2>2. PInv'
    BY <2>1, PoolUnchanged
  <2>3. TInv'
    BY <2>1, TransfersUnchanged
  <2>4. ZeroCountIsDead'
    BY <1>4 DEF recvVars, ZeroCountIsDead
  <2> QED BY <1>1, <2>2, <2>3, <2>4
<1> QED BY <1>1, <1>2, <1>3, <1>4 DEF RecvNext

\* At first all packets are in the list and nothing was sent.
LEMMA RecvStart == RecvInit => RecvInv
<1> SUFFICES ASSUME RecvInit PROVE RecvInv
  OBVIOUS
<1> USE DEF RecvInit, Inbound!Init
<1>1. RecvTypeOK
  <2>1. queue \in Seq(Transfers) /\ full \in 0 .. MaxFull
    BY RecvBoundsAssumption, EmptySeq
  <2>2. retries \in [Receivers -> 0 .. Tries - 1] /\ completed \in [Transfers -> Nat]
        /\ count \in [Pool -> Int]
    BY DEF Tries
  <2>3. /\ got \in [Receivers -> Transfers \cup {None}] /\ at \in [Receivers -> Steps]
        /\ list \in [Receivers -> SUBSET Pool]
        /\ xfer \in [Receivers -> Pool \cup {None}]
        /\ current \in [Receivers -> Pool \cup {None}]
    BY DEF Steps
  <2> QED BY <2>1, <2>2, <2>3 DEF RecvTypeOK
<1>2. \A c \in Receivers : Current(c) = {} /\ Open(c) = {} /\ HeldBy(c) = {} /\ InHands(c) = {}
  BY DEF Current, Open, HeldBy, InHands
<1>3. PInv
  BY <1>2 DEF PInv, Apart, CountsApart, StepOfCallback
<1>4. TInv /\ ZeroCountIsDead
  BY DEF TInv, Unanswered, ZeroCountIsDead
<1> QED BY <1>1, <1>3, <1>4 DEF RecvInv

\* The receive path keeps its inductive invariant.
THEOREM RecvInductive == RecvSpec => []RecvInv
BY RecvStart, RecvStep, PTL DEF RecvSpec

-----------------------------------------------------------------------------
(* What the invariant says with cardinalities.                             *)

\* Two disjoint sets of packets have as many as both together.
LEMMA DisjointPackets ==
  ASSUME NEW S \in SUBSET Pool, NEW T \in SUBSET Pool, S \cap T = {}
  PROVE  Cardinality(S \cup T) = Cardinality(S) + Cardinality(T)
<1>1. IsFiniteSet(S) /\ IsFiniteSet(T) /\ Cardinality(S) \in Nat /\ Cardinality(T) \in Nat
  BY PacketSets
<1>2. Cardinality(S \cup T) = Cardinality(S) + Cardinality(T) - Cardinality(S \cap T)
  BY <1>1, FS_Union
<1>3. Cardinality(S \cap T) = 0
  BY FS_EmptySet
<1> QED BY <1>1, <1>2, <1>3

\* A packet in one place each, and counting nothing but where it stands for a
\* transfer: the pool is partitioned.
LEMMA Partitioned ==
  ASSUME RecvTypeOK, PInv
  PROVE  PoolIsPartitioned
<1> USE DEF RecvTypeOK
<1> DEFINE Held == UNION {HeldBy(c) : c \in Receivers}
<1>1. \A c \in Receivers :
        /\ list[c] \in SUBSET Pool /\ Current(c) \in SUBSET Pool /\ Open(c) \in SUBSET Pool
        /\ HeldBy(c) \in SUBSET Pool
  BY DEF Current, Open, HeldBy
<1>2. Held \in SUBSET Pool /\ Stranded \in SUBSET Pool
  BY <1>1 DEF Stranded
<1>3. Stranded \cap (free \cup leaked) = {}
  BY DEF PInv, CountsApart, Stranded
<1>4. Stranded \cap Held = {}
  <2> SUFFICES ASSUME NEW p \in Stranded, NEW c \in Receivers, p \in HeldBy(c)
               PROVE  FALSE
    OBVIOUS
  <2>1. p \in Pool /\ count[p] # 0 /\ p \notin Open(c)
    BY DEF Stranded
  <2>2. p \in InHands(c)
    BY <2>1 DEF HeldBy, InHands
  <2> QED BY <2>1, <2>2 DEF PInv, CountsApart
<1>5. (free \cup leaked) \cap Held = {} /\ free \cap leaked = {}
  BY DEF PInv, Apart
<1>6. ASSUME NEW p \in Pool
      PROVE  p \in free \cup leaked \cup Stranded \cup Held
  <2>1. CASE count[p] = 0
    <3>1. CASE p \in free \cup leaked
      BY <3>1
    <3>2. CASE \E c \in Receivers : p \in InHands(c)
      BY <3>2 DEF InHands, HeldBy
    <3> QED BY <2>1, <3>1, <3>2 DEF PInv, CountsApart
  <2>2. CASE count[p] # 0
    <3>1. count[p] > 0
      BY <2>2 DEF PInv, CountsApart
    <3>2. CASE \E c \in Receivers : p \in Open(c)
      BY <3>2 DEF HeldBy
    <3>3. CASE \A c \in Receivers : p \notin Open(c)
      BY <3>1, <3>3 DEF Stranded
    <3> QED BY <3>2, <3>3
  <2> QED BY <2>1, <2>2
<1>7. free \cup leaked \cup Stranded \cup Held = Pool
  BY <1>2, <1>6
<1>8. Cardinality(free) + Cardinality(leaked) + Cardinality(Stranded)
        = Cardinality(Pool \ Held)
  <2>1. Pool \ Held = (free \cup leaked) \cup Stranded
    BY <1>2, <1>4, <1>5, <1>7
  <2>2. free \in SUBSET Pool /\ leaked \in SUBSET Pool /\ free \cup leaked \in SUBSET Pool
    OBVIOUS
  <2>3. Cardinality((free \cup leaked) \cup Stranded)
          = Cardinality(free \cup leaked) + Cardinality(Stranded)
    BY <1>2, <1>3, <2>2, DisjointPackets
  <2>4. Cardinality(free \cup leaked) = Cardinality(free) + Cardinality(leaked)
    BY <1>5, <2>2, DisjointPackets
  <2> QED BY <2>1, <2>3, <2>4
<1>9. \A c, d \in Receivers : c # d => HeldBy(c) \cap HeldBy(d) = {}
  BY DEF PInv, Apart
<1>10. ASSUME NEW c \in Receivers
       PROVE  Cardinality(HeldBy(c))
                = Cardinality(list[c]) + Cardinality(Current(c)) + Cardinality(Open(c))
  <2>1. InHands(c) \in SUBSET Pool /\ HeldBy(c) = InHands(c) \cup Open(c)
    BY <1>1 DEF InHands, HeldBy
  <2>2. list[c] \cap Current(c) = {} /\ InHands(c) \cap Open(c) = {}
    BY DEF PInv, Apart
  <2>3. Cardinality(HeldBy(c)) = Cardinality(InHands(c)) + Cardinality(Open(c))
    BY <1>1, <2>1, <2>2, DisjointPackets
  <2>4. Cardinality(InHands(c)) = Cardinality(list[c]) + Cardinality(Current(c))
    BY <1>1, <2>2, DisjointPackets DEF InHands
  <2> QED BY <2>3, <2>4
<1> QED BY <1>7, <1>8, <1>9, <1>10 DEF PoolIsPartitioned

\* For any pool, transfers and callbacks: each packet is in one place, wherever
\* NetVscOnReceive and the completions of the ranges have come to, and the Count of a
\* transfer that a range comes back to is never 0.
THEOREM PoolIsKept == RecvSpec => []PoolInv
<1>1. RecvInv => PoolInv
  BY Partitioned DEF RecvInv, PoolInv
<1> QED BY <1>1, RecvInductive, PTL

\* NetVscSendReceiveCompletion answers each transfer at most once, and only when no
\* range of it is still to be delivered or with the upper layers.
THEOREM CompletionIsLast == RecvSpec => []CompletedOnceAndLast
<1>1. RecvInv => CompletedOnceAndLast
  <2> SUFFICES ASSUME RecvInv PROVE CompletedOnceAndLast
    OBVIOUS
  <2> USE DEF RecvInv, RecvTypeOK
  <2>1. ASSUME NEW t \in Transfers
        PROVE  completed[t] + (IF t \in abandoned THEN 1 ELSE 0) <= 1
    BY DEF TInv
  <2>2. ASSUME NEW c \in Receivers, at[c] = "send"
        PROVE  /\ list[c] = {} /\ current[c] = None /\ Open(c) = {}
               /\ completed[got[c]] = 0
    BY <2>2 DEF PInv, StepOfCallback, TInv, Unanswered, Open
  <2> QED BY <2>1, <2>2 DEF CompletedOnceAndLast
<1> QED BY <1>1, RecvInductive, PTL
=============================================================================
