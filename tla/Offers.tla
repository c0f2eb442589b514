-------------------------------- MODULE Offers --------------------------------
(***************************************************************************)
(* Offers and rescinds: the handlers the connection's work queue runs      *)
(* (VmbusChannelOnOffer, OnOfferRescind, OnOpenResult), the control work   *)
(* queue every channel object has, on which the offer is processed (the    *)
(* child device, its driver's attach, the channels of the integration      *)
(* services), and the way a channel object is freed.                       *)
(*                                                                         *)
(* The connection's queue has one thread and must not wait for what only   *)
(* it can deliver: an offer opens channels, and a channel is open when     *)
(* this very thread has handled the result.  That is why an offer is       *)
(* processed by a thread of its own, and why a channel object, with that   *)
(* thread, is released by the connection's thread.                         *)
(*                                                                         *)
(* Messages arrive in order, each at most once (SynicMsg).  Whatever is    *)
(* queued may be lost: there is no memory for a work item, or for the      *)
(* channel object of an offer, and nobody looks for it again.  How a       *)
(* channel is opened is in ChannelMsg, here it is the message and its      *)
(* result.  Nothing closes a channel: no driver is ever detached.          *)
(***************************************************************************)
EXTENDS Naturals, FiniteSets, SequencesExt

CONSTANTS
  Instances,   \* the device instances of the host
  Nets,        \* those of the class netvsc drives
  Ics,         \* those of the classes timesync, shutdown and heartbeat
  Foreign,     \* those of a class not in gSupportedDeviceClasses
  MaxOffers,   \* bound: offers; each has the next relid
  MaxChanges   \* bound: offers the host takes back and items lost for want of memory,
               \* together; a rescind that is lost is one

ASSUME ClassesAssumption ==
  /\ Nets \cup Ics \cup Foreign \subseteq Instances
  /\ Nets \cap Ics = {} /\ Foreign \cap (Nets \cup Ics) = {}
ASSUME OffersAssumption == {MaxOffers, MaxChanges} \subseteq Nat

Relids == 1 .. MaxOffers

VARIABLES
  offered,     \* the instances offered, by relid
  rescinded,   \* relids whose offer the host took back
  todo,        \* what the connection's queue still has to do
  control,     \* control[r]: what the ControlWQ of r's channel still has to do
  at,          \* at[r]: where the control thread of r is
  list,        \* ChannelList
  device,      \* relids whose DeviceObject is set
  driver,      \* relids whose DeviceObject->Driver is set
  opened,      \* relids whose channel is open for the host
  isOpenState, \* relids whose State is CHANNEL_OPEN_STATE
  torn,        \* relids FreeVmbusChannel was called for
  released,    \* relids whose channel object and control thread are gone
  dropped      \* history: what was to be queued and is lost

offerVars == <<offered, rescinded, todo, control, at, list, device, driver, opened,
               isOpenState, torn, released, dropped>>

OffersInit ==
  /\ offered = <<>> /\ rescinded = {} /\ todo = <<>>
  /\ control = [r \in Relids |-> <<>>] /\ at = [r \in Relids |-> "idle"]
  /\ list = <<>> /\ device = {} /\ driver = {} /\ opened = {} /\ isOpenState = {}
  /\ torn = {} /\ released = {} /\ dropped = {}

Item(what, r) == [what |-> what, r |-> r]
Known == 1 .. Len(offered)

Changes(items, back) == Cardinality(items \cup {Item("rescind", r) : r \in back})

\* WorkQueueQueueWorkItem returns -1, which nobody looks at.
Drops(items) == dropped' = dropped \cup items /\ Changes(dropped', rescinded) <= MaxChanges

\* For the connection's queue: a message, by the DPC (SynicMsg).
Queues(item) ==
  \/ todo' = Append(todo, item) /\ UNCHANGED dropped
  \/ Drops({item}) /\ UNCHANGED todo

-----------------------------------------------------------------------------
(* The host (external).                                                    *)

HostOffers(i) ==
  /\ Len(offered) < MaxOffers
  /\ offered' = Append(offered, i)
  /\ Queues(Item("offer", Len(offered) + 1))
  /\ UNCHANGED <<rescinded, control, at, list, device, driver, opened, isOpenState, torn,
                 released>>

HostRescinds(r) ==
  /\ r \in Known \ rescinded /\ Changes(dropped, rescinded \cup {r}) <= MaxChanges
  /\ rescinded' = rescinded \cup {r}
  /\ Queues(Item("rescind", r))
  /\ UNCHANGED <<offered, control, at, list, device, driver, opened, isOpenState, torn,
                 released>>

HostOpens(r) ==
  /\ at[r] = "asked"
  /\ \E ok \in BOOLEAN :
       /\ Queues(Item(IF ok THEN "opened" ELSE "not opened", r))
       /\ opened' = IF ok THEN opened \cup {r} ELSE opened
  /\ at' = [at EXCEPT ![r] = "wait"]
  /\ UNCHANGED <<offered, rescinded, control, list, device, driver, isOpenState, torn,
                 released>>

-----------------------------------------------------------------------------
(* The connection's work queue.                                            *)

Handles(what) == todo # <<>> /\ Head(todo).what = what


\* AllocVmbusChannel starts the control thread the offer is queued for.  Either may fail,
\* and that is the end of the offer.
OnOffer ==
  /\ Handles("offer")
  /\ LET r == Head(todo).r
     IN \/ offered[r] \in Foreign /\ UNCHANGED <<control, dropped>>
        \/ /\ offered[r] \notin Foreign
           /\ control' = [control EXCEPT ![r] = <<"offer">>] /\ UNCHANGED dropped
        \/ offered[r] \notin Foreign /\ Drops({Item("offer", r)}) /\ UNCHANGED control
  /\ todo' = Tail(todo)
  /\ UNCHANGED <<offered, rescinded, at, list, device, driver, opened, isOpenState, torn,
                 released>>

\* Broken: any channel there is an object for.
KnownChannel(r) == r \in Known

\* GetChannelFromRelId: an offer that is not listed yet, or never will be, is not found.
ListedChannel(r) == r \in ToSet(list)

OnOfferRescind ==
  /\ Handles("rescind")
  /\ LET r == Head(todo).r
     IN \/ ~ ListedChannel(r) /\ UNCHANGED <<control, dropped>>
        \/ /\ ListedChannel(r)
           /\ control' = [control EXCEPT ![r] = Append(@, "rescind")] /\ UNCHANGED dropped
        \/ ListedChannel(r) /\ Drops({Item("rescind", r)}) /\ UNCHANGED control
  /\ todo' = Tail(todo)
  /\ UNCHANGED <<offered, rescinded, at, list, device, driver, opened, isOpenState, torn,
                 released>>

\* Wakes the thread that waits in VmbusChannelOpen.
OnOpenResult ==
  /\ Handles("opened") \/ Handles("not opened")
  /\ at' = [at EXCEPT ![Head(todo).r] = Head(todo).what]
  /\ todo' = Tail(todo)
  /\ UNCHANGED <<offered, rescinded, control, list, device, driver, opened, isOpenState,
                 torn, released, dropped>>

\* WorkQueueClose: the control thread finishes what is queued, then it ends.
ReleaseVmbusChannel ==
  /\ Handles("release")
  /\ at[Head(todo).r] = "idle" /\ control[Head(todo).r] = <<>>
  /\ released' = released \cup {Head(todo).r}
  /\ todo' = Tail(todo)
  /\ UNCHANGED <<offered, rescinded, control, at, list, device, driver, opened, isOpenState,
                 torn, dropped>>

\* The set s in the order rs has it.
InOrderOf(rs, s) ==
  {q \in [1 .. Cardinality(s) -> s] :
     \A j, k \in DOMAIN q :
       j < k => \E a, b \in DOMAIN rs : a < b /\ rs[a] = q[j] /\ rs[b] = q[k]}

\* FreeVmbusChannel: the lock and the timer at once, the rest is queued, or lost.
FreeVmbusChannels(rs) ==
  /\ torn' = torn \cup ToSet(rs)
  /\ \E queued \in SUBSET ToSet(rs) :
       /\ Drops({Item("release", r) : r \in ToSet(rs) \ queued})
       /\ \E q \in InOrderOf(rs, queued) :
            todo' = todo \o [k \in DOMAIN q |-> Item("release", q[k])]

-----------------------------------------------------------------------------
(* VmbusChannelProcessOffer, VmbusChannelProcessRescindOffer, on the       *)
(* control thread of the channel.                                          *)

Goes(r, where) == at' = [at EXCEPT ![r] = where]

Begin(r) ==
  /\ at[r] = "idle" /\ control[r] # <<>>
  /\ control' = [control EXCEPT ![r] = Tail(@)]
  /\ Goes(r, IF Head(control[r]) = "offer" THEN "check" ELSE "remove")
  /\ UNCHANGED <<offered, rescinded, todo, list, device, driver, opened, isOpenState, torn,
                 released, dropped>>

\* Broken: compares the relids.
SameRelid(r, s) == r = s

\* InterfaceType and InterfaceInstance.
SameDevice(r, s) == offered[r] = offered[s]

\* Broken: a channel object is released by the thread that is to end with it.
FreeDuplicateHere(r) == Goes(r, "closing") /\ torn' = torn \cup {r} /\ UNCHANGED <<todo, dropped>>

FreeDuplicate(r) == Goes(r, "idle") /\ FreeVmbusChannels(<<r>>)

\* Search and insertion are one step under ChannelLock.
Check(r) ==
  /\ at[r] = "check"
  /\ IF \E s \in ToSet(list) : SameDevice(r, s)
     THEN FreeDuplicate(r) /\ UNCHANGED list
     ELSE Goes(r, "create") /\ list' = Append(list, r) /\ UNCHANGED <<torn, todo, dropped>>
  /\ UNCHANGED <<offered, rescinded, control, device, driver, opened, isOpenState, released>>

ChildDeviceCreate(r) ==
  /\ at[r] = "create"
  /\ device' = device \cup {r}
  /\ Goes(r, "add")
  /\ UNCHANGED <<offered, rescinded, todo, control, list, driver, opened, isOpenState, torn,
                 released, dropped>>

\* device_probe_and_attach, whose result is ignored.  netvsc_attach sets Driver and
\* opens the channel.
ChildDeviceAdd(r) ==
  /\ at[r] = "add"
  /\ IF offered[r] \in Nets
     THEN driver' = driver \cup {r} /\ Goes(r, "asked")
     ELSE UNCHANGED driver /\ Goes(r, "added")
  /\ UNCHANGED <<offered, rescinded, todo, control, list, device, opened, isOpenState, torn,
                 released, dropped>>

\* The open returned to netvsc_attach, or to ProcessOffer.  On an open channel netvsc_attach
\* goes on to the RNDIS initialisation, where it may wait for good (RndisFilter).
OpenReturns(r) ==
  /\ at[r] \in {"opened", "not opened"}
  /\ IF r \in isOpenState
     THEN Goes(r, "idle")
     ELSE Goes(r, "added") \/ (at[r] = "opened" /\ Goes(r, "stuck"))
  /\ UNCHANGED <<offered, rescinded, todo, control, list, device, driver, opened,
                 isOpenState, torn, released, dropped>>

\* State becomes OPEN; a service gets its channel opened here.
Added(r) ==
  /\ at[r] = "added"
  /\ isOpenState' = isOpenState \cup {r}
  /\ Goes(r, IF offered[r] \in Ics THEN "asked" ELSE "idle")
  /\ UNCHANGED <<offered, rescinded, todo, control, list, device, driver, opened, torn,
                 released, dropped>>

\* vmbus_child_device_unregister does nothing.
ProcessRescindOffer(r) ==
  /\ at[r] = "remove"
  /\ Goes(r, "idle")
  /\ UNCHANGED <<offered, rescinded, todo, control, list, device, driver, opened,
                 isOpenState, torn, released, dropped>>

-----------------------------------------------------------------------------
\* VmbusChannelReleaseUnattachedChannels takes channels off the head of the list and
\* stops at the first that has a driver.
FirstAttached == SelectInSeq(list, LAMBDA r : r \in driver)
Unattached ==
  IF FirstAttached = 0 THEN list ELSE SubSeq(list, 1, FirstAttached - 1)

ReleaseUnattachedChannels ==
  /\ FreeVmbusChannels(Unattached)
  /\ list' = SubSeq(list, Len(Unattached) + 1, Len(list))
  /\ UNCHANGED <<offered, rescinded, control, at, device, driver, opened, isOpenState,
                 released>>

MainThread == OnOffer \/ OnOfferRescind \/ OnOpenResult \/ ReleaseVmbusChannel
ControlThread(r) ==
  \/ Begin(r) \/ Check(r) \/ ChildDeviceCreate(r) \/ ChildDeviceAdd(r) \/ OpenReturns(r)
  \/ Added(r) \/ ProcessRescindOffer(r)
ItemKinds ==
  {"offer", "rescind", "opened", "not opened", "release", "supported", "unsupported"}

OffersTypeOK ==
  /\ offered \in BoundedSeq(Instances, MaxOffers)
  /\ \A k \in DOMAIN todo : todo[k].what \in ItemKinds
  /\ \A r \in Relids : ToSet(control[r]) \subseteq {"offer", "rescind"}
  /\ at \in [Relids -> {"idle", "check", "create", "add", "asked", "wait", "opened",
                        "not opened", "added", "stuck", "remove"}]
  /\ \A d \in dropped : d.what \in ItemKinds
  /\ ToSet(list) \subseteq Relids
  /\ rescinded \cup device \cup driver \cup opened \cup isOpenState \cup torn \cup released
       \subseteq Relids
=============================================================================
