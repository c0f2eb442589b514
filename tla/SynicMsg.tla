------------------------------ MODULE SynicMsg ------------------------------
(***************************************************************************)
(* The way of a VMBus control message from the hypervisor to its handler:  *)
(* the message slot of the synthetic interrupt controller, VmbusOnISR, the *)
(* software interrupt that runs VmbusOnMsgDPC, and the work queue whose    *)
(* one thread runs VmbusOnChannelMessage.                                  *)
(*                                                                         *)
(* The slot holds one message.  The hypervisor fills it only when it is    *)
(* empty; otherwise it keeps the message and raises MessagePending in the  *)
(* slot, asking the guest to write the EOM register once it emptied it.    *)
(* Guest and hypervisor touch the slot without a lock, so the order of the *)
(* guest's two accesses decides whether a message is stranded.             *)
(*                                                                         *)
(* Messages are numbered in the order the host posts them.  A failing      *)
(* MemAllocAtomic in the DPC changes nothing (continue): it is a stutter.  *)
(***************************************************************************)
EXTENDS Naturals, SequencesExt, FiniteSets

CONSTANTS
  MaxMessages,  \* bound: messages the host posts
  MaxLost,      \* bound: failing allocations of a work item
  Unhandled,    \* messages of a type with no handler in the table
  None          \* HvMessageTypeNone

ASSUME BoundsAssumption == MaxMessages \in Nat /\ MaxLost \in Nat
ASSUME NoneAssumption == None \notin Nat

VARIABLES
  posted,     \* messages the host posted so far
  queue,      \* the hypervisor's queue behind the slot
  slot,       \* Header.MessageType and payload of the slot, or None
  pending,    \* Header.MessageFlags.MessagePending
  rescan,     \* EOM was written and the hypervisor has not looked yet
  interrupt,  \* the message interrupt is raised
  dpcPending, \* msg_dpc is scheduled
  dpc,        \* where VmbusOnMsgDPC is
  copied,     \* its copy of the message, or None
  works,      \* the work queue
  work,       \* the message the work thread handles, or None
  handled,    \* history: messages handed to their handler, in order
  freed,      \* history: copies given back by the work thread
  lost        \* history: copies whose work item could not be allocated

hypervisor == <<posted, queue, rescan>>
guest == <<dpcPending, dpc, copied>>
worker == <<works, work, handled, freed>>
vars == <<hypervisor, slot, pending, interrupt, guest, worker, lost>>

DpcSteps ==
  {"idle", "test", "copy", "enqueue", "clear", "fenced", "eom", "return"}
Messages == 1 .. MaxMessages

Init ==
  /\ posted = 0 /\ queue = <<>> /\ rescan = FALSE
  /\ slot = None /\ pending = FALSE /\ interrupt = FALSE
  /\ dpcPending = FALSE /\ dpc = "idle" /\ copied = None
  /\ works = <<>> /\ work = None /\ handled = <<>>
  /\ freed = {} /\ lost = {}

-----------------------------------------------------------------------------
(* The hypervisor (external).                                              *)

Deliver(m, more) ==
  /\ slot' = m
  /\ pending' = more
  /\ interrupt' = TRUE

PostToSlot ==
  /\ posted < MaxMessages
  /\ slot = None /\ queue = <<>>
  /\ posted' = posted + 1
  /\ Deliver(posted + 1, FALSE)
  /\ UNCHANGED <<queue, rescan, guest, worker, lost>>

PostToQueue ==
  /\ posted < MaxMessages
  /\ slot # None \/ queue # <<>>
  /\ posted' = posted + 1
  /\ queue' = Append(queue, posted + 1)
  /\ pending' = (pending \/ slot # None)
  /\ UNCHANGED <<rescan, slot, interrupt, guest, worker, lost>>

\* What a write to EOM makes it do.
Rescan ==
  /\ rescan
  /\ rescan' = FALSE
  /\ \/ /\ slot = None /\ queue # <<>>
        /\ Deliver(Head(queue), Tail(queue) # <<>>)
        /\ queue' = Tail(queue)
     \/ /\ slot # None \/ queue = <<>>
        /\ pending' = (pending \/ (slot # None /\ queue # <<>>))
        /\ UNCHANGED <<slot, interrupt, queue>>
  /\ UNCHANGED <<posted, guest, worker, lost>>

-----------------------------------------------------------------------------
(* The interrupt and the DPC.                                              *)

\* Broken: reads MessagePending, and writes EOM, before it empties the slot,
\* as a processor could without the fence.
AfterUnfenced == [enqueue |-> "fenced", eom |-> "clear", clear |-> "test"]

\* The order of the DPC's accesses to the slot once the message is queued:
\* empty it, fence, read MessagePending, perhaps write EOM, test it again.
After == [enqueue |-> "clear", clear |-> "fenced", eom |-> "test"]

\* Broken: leaves the message to the next interrupt when the DPC is running.
ISRUnlessRunning ==
  /\ interrupt
  /\ interrupt' = FALSE
  /\ dpcPending' = (dpcPending \/ (slot # None /\ dpc = "idle"))
  /\ UNCHANGED <<hypervisor, slot, pending, dpc, copied, worker, lost>>

\* hv_vmbus_isr, VmbusOnISR
ISR ==
  /\ interrupt
  /\ interrupt' = FALSE
  /\ dpcPending' = (dpcPending \/ slot # None)
  /\ UNCHANGED <<hypervisor, slot, pending, dpc, copied, worker, lost>>

MsgDPC ==
  /\ dpcPending
  /\ dpc = "idle"
  /\ dpcPending' = FALSE
  /\ dpc' = "test"
  /\ UNCHANGED <<hypervisor, slot, pending, interrupt, copied, worker, lost>>

NoMessage ==
  /\ dpc = "test"
  /\ slot = None
  /\ dpc' = "return"
  /\ UNCHANGED <<hypervisor, slot, pending, interrupt, dpcPending, copied,
                 worker, lost>>

DPCReturns ==
  /\ dpc = "return"
  /\ dpc' = "idle"
  /\ UNCHANGED <<hypervisor, slot, pending, interrupt, dpcPending, copied,
                 worker, lost>>

\* Broken: takes the interrupt's word for it.
SeeMessageUntested ==
  /\ dpc = "test"
  /\ dpc' = "copy"
  /\ UNCHANGED <<hypervisor, slot, pending, interrupt, dpcPending, copied,
                 worker, lost>>

SeeMessage ==
  /\ dpc = "test"
  /\ slot # None
  /\ dpc' = "copy"
  /\ UNCHANGED <<hypervisor, slot, pending, interrupt, dpcPending, copied,
                 worker, lost>>

CopyMessage ==
  /\ dpc = "copy"
  /\ copied' = slot
  /\ dpc' = "enqueue"
  /\ UNCHANGED <<hypervisor, slot, pending, interrupt, dpcPending, worker, lost>>

\* WorkQueueQueueWorkItem
QueueWorkItem ==
  /\ dpc = "enqueue"
  /\ works' = Append(works, copied)
  /\ copied' = None
  /\ dpc' = After.enqueue
  /\ UNCHANGED <<hypervisor, slot, pending, interrupt, dpcPending, work,
                 handled, freed, lost>>

\* It returns -1, which the DPC ignores: the message is gone, its copy leaks.
QueueWorkItemFails ==
  /\ dpc = "enqueue"
  /\ Cardinality(lost) < MaxLost
  /\ lost' = lost \cup {copied}
  /\ copied' = None
  /\ dpc' = After.enqueue
  /\ UNCHANGED <<hypervisor, slot, pending, interrupt, dpcPending, worker>>

ClearSlot ==
  /\ dpc = "clear"
  /\ slot' = None
  /\ dpc' = After.clear
  /\ UNCHANGED <<hypervisor, pending, interrupt, dpcPending, copied, worker, lost>>

\* Behind the fence: the flag is read after the slot was seen empty.
ReadPending ==
  /\ dpc = "fenced"
  /\ dpc' = IF pending THEN "eom" ELSE After.eom
  /\ UNCHANGED <<hypervisor, slot, pending, interrupt, dpcPending, copied,
                 worker, lost>>

WriteEOM ==
  /\ dpc = "eom"
  /\ rescan' = TRUE
  /\ dpc' = After.eom
  /\ UNCHANGED <<posted, queue, slot, pending, interrupt, dpcPending, copied,
                 worker, lost>>

-----------------------------------------------------------------------------
(* The work thread: WorkItemCallback and VmbusOnChannelMessage.            *)

\* Broken: the newest item first.
StartWorkNewestFirst ==
  /\ work = None
  /\ works # <<>>
  /\ work' = works[Len(works)]
  /\ works' = SubSeq(works, 1, Len(works) - 1)
  /\ UNCHANGED <<hypervisor, slot, pending, interrupt, guest, handled, freed, lost>>

StartWork ==
  /\ work = None
  /\ works # <<>>
  /\ work' = Head(works)
  /\ works' = Tail(works)
  /\ UNCHANGED <<hypervisor, slot, pending, interrupt, guest, handled, freed, lost>>

\* Runs the handler, if the type has one, and frees the copy in any case.
OnChannelMessage ==
  /\ work # None
  /\ handled' = IF work \in Unhandled THEN handled ELSE Append(handled, work)
  /\ freed' = freed \cup {work}
  /\ work' = None
  /\ UNCHANGED <<hypervisor, slot, pending, interrupt, guest, works, lost>>

-----------------------------------------------------------------------------
Hypervisor == PostToSlot \/ PostToQueue \/ Rescan
Dpc ==
  \/ MsgDPC \/ NoMessage \/ DPCReturns \/ SeeMessage \/ CopyMessage
  \/ QueueWorkItem \/ QueueWorkItemFails
  \/ ClearSlot \/ ReadPending \/ WriteEOM
Worker == StartWork \/ OnChannelMessage

Next == Hypervisor \/ ISR \/ Dpc \/ Worker

Spec == Init /\ [][Next]_vars

\* A raised interrupt is taken, a scheduled software interrupt and a thread
\* with work run, and the hypervisor answers an EOM.  It need not post.
FairSpec ==
  Spec /\ WF_vars(Rescan) /\ WF_vars(ISR) /\ WF_vars(Dpc) /\ WF_vars(Worker)

-----------------------------------------------------------------------------
(* Properties.                                                             *)

\* Every variable keeps its type.
TypeOK ==
  /\ posted \in 0 .. MaxMessages
  /\ queue \in Seq(Messages) /\ works \in Seq(Messages) /\ handled \in Seq(Messages)
  /\ slot \in Messages \cup {None} /\ copied \in Messages \cup {None}
  /\ work \in Messages \cup {None}
  /\ dpc \in DpcSteps
  /\ {pending, rescan, interrupt, dpcPending} \subseteq BOOLEAN
  /\ freed \subseteq Messages /\ lost \subseteq Messages

\* A message waits in the hypervisor's queue only while something is under
\* way that will make it look again: a message in the slot with the pending
\* flag up, the guest between emptying the slot and the EOM, or the EOM.
QueueIsWatched ==
  queue # <<>> =>
    \/ rescan
    \/ pending /\ (slot # None \/ dpc \in {"fenced", "eom"})

\* A message lies in the slot only while the guest is going to look: the
\* interrupt is raised, the DPC is scheduled or has not tested the slot for
\* the last time.
SlotIsWatched == slot # None => interrupt \/ dpcPending \/ dpc \notin {"idle", "return"}

Opt(m) == IF m = None THEN <<>> ELSE <<m>>

\* The slot's message until the DPC has made it a work item.
InSlot == IF dpc \in {"enqueue", "clear"} THEN <<>> ELSE Opt(slot)

\* What was not handled yet, in order: at the work thread, in its queue, in the DPC,
\* in the slot, in the hypervisor.
Way == Opt(work) \o works \o Opt(copied) \o InSlot \o queue

Rising(s) == \A j, k \in DOMAIN s : j < k => s[j] < s[k]

\* Messages reach their handlers in the order the host posted them, none
\* twice, and none lost but those whose work item could not be allocated:
\* each is handled, lost or on its way, and nothing overtakes on it.
HandledInOrder ==
  /\ Rising(Way) /\ ToSet(Way) = (1 .. posted) \ (freed \cup lost)
  /\ \A m \in freed, n \in ToSet(Way) : m < n
  /\ Rising(handled) /\ ToSet(handled) = freed \ Unhandled
  /\ freed \cup lost \subseteq 1 .. posted /\ freed \cap lost = {}

\* Every message the host posts is eventually handled and its copy freed,
\* unless its work item was lost.
EveryMessageIsDone ==
  \A m \in Messages : (posted >= m) ~> (m \in freed \cup lost)
=============================================================================
