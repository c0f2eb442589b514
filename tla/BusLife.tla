-------------------------------- MODULE BusLife -------------------------------
(***************************************************************************)
(* The life of the bus driver: vmbus_bus_init with HvInit, the software    *)
(* interrupts, the irq, the synic pages and VmbusConnect, each of which    *)
(* may fail; then the offers (Offers); then vmbus_bus_exit, which runs     *)
(* when the device is detached, whether the initialisation succeeded or    *)
(* not, and gives back what it thinks there is.                            *)
(*                                                                         *)
(* What the driver has acquired is a set, and so is what the host may      *)
(* read and write.  Using or releasing what is not held is recorded in     *)
(* `misused', and the code goes on.  What the attached network devices do  *)
(* with a bus that is gone is not here.                                    *)
(***************************************************************************)
EXTENDS Offers

VARIABLES
  stage,         \* where the thread is that initialises or detaches the bus
  held,          \* what the driver has and has not given back
  granted,       \* the pages the hypervisor and the host can access
  hypercallPage, \* gHvContext.HypercallPage is set
  connected,     \* ConnectState is Connected
  hostConn,      \* the host's side of the connection
  requested,     \* the offers were requested
  failed,        \* history: the initialisation failed
  quiet,         \* history: nothing but the exit was going on since it began
  misused        \* history: what was used or released without being held

busVars == <<stage, held, granted, hypercallPage, connected, hostConn, requested, failed,
             quiet, misused>>
busLifeVars == <<offerVars, busVars>>

Glue == {"msg_swi", "event_swi", "irq", "intr"}
Locks == {"chanlock", "msglock"}
Connection == Locks \cup {"wq", "intpage", "monitor"}
Pages == {"hypercall", "synic", "intpage", "monitor"}
Resources == Glue \cup Connection \cup Pages \cup {"signal"}

ExitStages == {"release", "disconnect", "close", "synic", "hv_cleanup", "teardown", "gone"}
Exiting == stage \in ExitStages

BusLifeInit ==
  /\ OffersInit
  /\ stage = "hv" /\ held = {} /\ granted = {} /\ hypercallPage = FALSE
  /\ connected = FALSE /\ hostConn = "none" /\ requested = FALSE
  /\ failed = FALSE /\ quiet = TRUE /\ misused = {}

Uses(rs) == misused' = misused \cup (rs \ held)

-----------------------------------------------------------------------------
(* vmbus_bus_init                                                          *)

HvInit ==
  /\ stage = "hv" /\ stage' = "msg_swi"
  /\ held' = held \cup {"hypercall", "signal"}
  /\ granted' = granted \cup {"hypercall"} /\ hypercallPage' = TRUE
  /\ UNCHANGED <<offerVars, connected, hostConn, requested, failed, quiet, misused>>

\* No hypervisor, another guest id, no page, a page the hypervisor does not enable; or no
\* signal buffer, and then the pointer to the freed page stays.
HvInitFails ==
  /\ stage = "hv" /\ stage' = "failed" /\ failed' = TRUE
  /\ hypercallPage' \in BOOLEAN
  /\ UNCHANGED <<offerVars, held, granted, connected, hostConn, requested, quiet, misused>>

NextResource(s) ==
  CASE s = "msg_swi" -> "event_swi" [] s = "event_swi" -> "irq"
    [] s = "irq" -> "intr" [] s = "intr" -> "pages"

\* Each software interrupt, the irq and its handler.
GetResource ==
  /\ stage \in Glue /\ stage' = NextResource(stage) /\ held' = held \cup {stage}
  /\ UNCHANGED <<offerVars, granted, hypercallPage, connected, hostConn, requested, failed,
                 quiet, misused>>

\* Broken: a failure for the second software interrupt leaves the first.
UndoneButFirst(s) == IF s = "event_swi" THEN {} ELSE Glue

\* What vmbus_bus_init gives back when this step fails: what it has of these.
Undone(s) == Glue

ResourceFails ==
  /\ stage \in Glue /\ stage' = "failed" /\ failed' = TRUE
  /\ held' = held \ Undone(stage)
  /\ UNCHANGED <<offerVars, granted, hypercallPage, connected, hostConn, requested, quiet,
                 misused>>

\* VmbusOnDeviceAdd: the pages, and HvSynicInit on every processor at once.
SynicInit ==
  /\ stage = "pages" /\ stage' = "connect"
  /\ held' = held \cup {"synic"} /\ granted' = granted \cup {"synic"}
  /\ UNCHANGED <<offerVars, hypercallPage, connected, hostConn, requested, failed, quiet,
                 misused>>

VmbusConnect ==
  /\ stage = "connect" /\ stage' = "wait"
  /\ held' = held \cup Connection /\ hostConn' = "asked"
  /\ UNCHANGED <<offerVars, granted, hypercallPage, connected, requested, failed, quiet,
                 misused>>

\* A page is not there, or the message is refused, or the host does not support the
\* version; Cleanup closes the queue, so all in it is done.
ConnectFails ==
  /\ stage = "connect" \/ (stage = "unsupported" /\ todo = <<>>)
  /\ stage' = "failed" /\ failed' = TRUE
  /\ held' = held \ (Connection \cup Undone("pages"))
  /\ UNCHANGED <<offerVars, granted, hypercallPage, connected, hostConn, requested, quiet,
                 misused>>

\* The thread the wait event woke.
Connected ==
  /\ stage = "supported" /\ stage' = "request" /\ connected' = TRUE
  /\ UNCHANGED <<offerVars, held, granted, hypercallPage, hostConn, requested, failed, quiet,
                 misused>>

\* Whether the post was accepted is ignored.
RequestOffers ==
  /\ stage = "request" /\ stage' = "up" /\ requested' \in BOOLEAN
  /\ UNCHANGED <<offerVars, held, granted, hypercallPage, connected, hostConn, failed, quiet,
                 misused>>

-----------------------------------------------------------------------------
(* vmbus_bus_exit                                                          *)

Idle == todo = <<>> /\ \A r \in Relids : at[r] = "idle" /\ control[r] = <<>>

\* Broken: disconnects first.
NextExitSwapped(s) ==
  CASE s = "begin" -> "disconnect" [] s = "disconnect" -> "release"
    [] s = "release" -> "synic" [] s = "synic" -> "hv_cleanup"
    [] s = "hv_cleanup" -> "teardown"

NextExit(s) ==
  CASE s = "begin" -> "release" [] s = "release" -> "disconnect"
    [] s = "disconnect" -> "synic" [] s = "synic" -> "hv_cleanup"
    [] s = "hv_cleanup" -> "teardown"

Detach ==
  /\ stage \in {"up", "failed"} /\ stage' = NextExit("begin") /\ quiet' = Idle
  /\ UNCHANGED <<offerVars, held, granted, hypercallPage, connected, hostConn, requested,
                 failed, misused>>

\* It reads the device of each channel it comes to.
ReleaseUnattached ==
  /\ stage = "release" /\ stage' = NextExit(stage)
  /\ ReleaseUnattachedChannels
  /\ Uses({"chanlock"} \cup (IF Unattached # <<>> THEN {"wq"} ELSE {})
                       \cup (IF ToSet(Unattached) \subseteq device THEN {} ELSE {"device"}))
  /\ UNCHANGED <<held, granted, hypercallPage, connected, hostConn, requested, failed, quiet>>

\* Not connected, or the message refused: nothing.
DisconnectNot ==
  /\ stage = "disconnect" /\ stage' = NextExit(stage)
  /\ UNCHANGED <<offerVars, held, granted, hypercallPage, connected, hostConn, requested,
                 failed, quiet, misused>>

\* Broken: without a look at what VmbusPostMessage returned.
DisconnectAnyway ==
  /\ stage = "disconnect" /\ connected /\ stage' = "close"
  /\ hostConn' \in {hostConn, "unloading"}
  /\ held' = held \ {"intpage", "msglock"}
  /\ UNCHANGED <<offerVars, granted, hypercallPage, connected, requested, failed, quiet,
                 misused>>

VmbusDisconnect ==
  /\ stage = "disconnect" /\ connected /\ stage' = "close"
  /\ hostConn' = "unloading"
  /\ held' = held \ {"intpage", "msglock"}
  /\ UNCHANGED <<offerVars, granted, hypercallPage, connected, requested, failed, quiet,
                 misused>>

\* WorkQueueClose
CloseQueue ==
  /\ stage = "close" /\ todo = <<>> /\ stage' = NextExit("disconnect")
  /\ held' = held \ {"wq"} /\ connected' = FALSE
  /\ UNCHANGED <<offerVars, granted, hypercallPage, hostConn, requested, failed, quiet,
                 misused>>

\* HvSynicCleanup, on every processor at once; nothing when it was not initialised.
SynicCleanup ==
  /\ stage = "synic" /\ stage' = NextExit(stage)
  /\ held' = held \ {"synic"} /\ granted' = granted \ {"synic"}
  /\ UNCHANGED <<offerVars, hypercallPage, connected, hostConn, requested, failed, quiet,
                 misused>>

HvCleanup ==
  /\ stage = "hv_cleanup" /\ stage' = NextExit(stage)
  /\ IF hypercallPage
     THEN Uses({"hypercall"}) /\ granted' = granted \ {"hypercall"}
     ELSE UNCHANGED <<misused, granted>>
  /\ held' = held \ {"hypercall", "signal"} /\ hypercallPage' = FALSE
  /\ UNCHANGED <<offerVars, connected, hostConn, requested, failed, quiet>>

TearDown ==
  /\ stage = "teardown" /\ stage' = "gone"
  /\ Uses(Glue) /\ held' = held \ Glue
  /\ UNCHANGED <<offerVars, granted, hypercallPage, connected, hostConn, requested, failed,
                 quiet>>

-----------------------------------------------------------------------------
(* The host (external), and the work queue of the connection.              *)

\* A message the message software interrupt queues for the work queue.
Arrives ==
  /\ "synic" \in granted
  /\ Uses({"wq"})
  /\ quiet' = (quiet /\ ~Exiting)

HostAnswersContact(ok) ==
  /\ hostConn = "asked" /\ Arrives
  /\ hostConn' = IF ok THEN "connected" ELSE "none"
  /\ granted' = IF ok THEN granted \cup {"intpage", "monitor"} ELSE granted
  /\ Queues(Item(IF ok THEN "supported" ELSE "unsupported", 0))
  /\ UNCHANGED <<offered, rescinded, control, at, list, device, driver, opened, isOpenState,
                 torn, released, stage, held, hypercallPage, connected, requested, failed>>

HostSpeaks ==
  /\ hostConn \in {"connected", "unloading"} /\ requested /\ Arrives
  /\ (\E i \in Instances : HostOffers(i)) \/ (\E r \in Relids : HostRescinds(r))
  /\ UNCHANGED <<stage, held, granted, hypercallPage, connected, hostConn, requested, failed>>

HostAnswersOpen ==
  /\ hostConn \in {"connected", "unloading"} /\ Arrives
  /\ \E r \in Relids : HostOpens(r)
  /\ UNCHANGED <<stage, held, granted, hypercallPage, connected, hostConn, requested, failed>>

\* An event: its software interrupt reads the interrupt page.
HostSignals ==
  /\ hostConn \in {"connected", "unloading"} /\ "synic" \in granted
  /\ Uses({"intpage"}) /\ quiet' = (quiet /\ ~Exiting)
  /\ UNCHANGED <<offerVars, stage, held, granted, hypercallPage, connected, hostConn,
                 requested, failed>>

HostUnloads ==
  /\ hostConn = "unloading" /\ hostConn' = "none"
  /\ granted' = granted \ {"intpage", "monitor"}
  /\ UNCHANGED <<offerVars, stage, held, hypercallPage, connected, requested, failed, quiet,
                 misused>>

\* Wakes the thread in VmbusConnect.
OnVersionResponse ==
  /\ Handles("supported") \/ Handles("unsupported")
  /\ stage' = Head(todo).what
  /\ todo' = Tail(todo)
  /\ UNCHANGED <<offered, rescinded, control, at, list, device, driver, opened, isOpenState,
                 torn, released, dropped, held, granted, hypercallPage, connected, hostConn,
                 requested, failed, quiet, misused>>

WorkQueue ==
  \/ OnVersionResponse
  \/ "wq" \in held /\ MainThread /\ UNCHANGED busVars

BusInit ==
  \/ HvInit \/ HvInitFails \/ GetResource \/ ResourceFails \/ SynicInit \/ VmbusConnect
  \/ ConnectFails \/ Connected \/ RequestOffers
BusExit ==
  \/ ReleaseUnattached \/ DisconnectNot \/ VmbusDisconnect \/ CloseQueue \/ SynicCleanup
  \/ HvCleanup \/ TearDown
Control(r) == ControlThread(r) /\ UNCHANGED busVars
HostAnswers == HostAnswersOpen \/ \E ok \in BOOLEAN : HostAnswersContact(ok)

BusLifeNext ==
  \/ BusInit \/ Detach \/ BusExit \/ WorkQueue
  \/ \E r \in Relids : Control(r)
  \/ HostAnswers \/ HostSpeaks \/ HostSignals \/ HostUnloads

BusLifeSpec == BusLifeInit /\ [][BusLifeNext]_busLifeVars

\* The threads run; the host answers what it is asked.
BusLifeFairSpec ==
  /\ BusLifeSpec
  /\ WF_busLifeVars(BusInit) /\ WF_busLifeVars(BusExit)
  /\ WF_busLifeVars(WorkQueue) /\ WF_busLifeVars(HostAnswers)
  /\ \A r \in Relids : WF_busLifeVars(Control(r))

-----------------------------------------------------------------------------
BusLifeTypeOK ==
  /\ OffersTypeOK
  /\ stage \in ExitStages \cup Glue \cup {"hv", "pages", "connect", "wait", "supported",
                                          "unsupported", "request", "up", "failed"}
  /\ held \subseteq Resources /\ granted \subseteq Pages
  /\ misused \subseteq Resources \cup {"device"}
  /\ {hypercallPage, connected, requested, failed, quiet} \subseteq BOOLEAN
  /\ hostConn \in {"none", "asked", "connected", "unloading"}

(* However offers are repeated, and although every channel's control thread looks for      *)
(* itself, at most one listed channel has a device instance.                               *)
OneChannelPerInstance ==
  \A j, k \in DOMAIN list : j # k => offered[list[j]] # offered[list[k]]

(* When the lock and the timer of a channel object are gone, its control thread has and    *)
(* will get nothing to do for it - if nothing was going on when the exit began: the exit   *)
(* releases channels whose offer is still being processed.                                 *)
NobodyInTorn ==
  quiet => \A r \in torn : at[r] = "idle" /\ control[r] = <<>>

(* The hypervisor and the host hold no page the driver has freed - but for the interrupt   *)
(* page, freed as soon as the unload message is posted.                                    *)
HostReachesHeldPages ==
  granted \subseteq held \cup (IF hostConn = "unloading" THEN {"intpage"} ELSE {})

(* If the host keeps still during the exit, the initialisation and the exit use and        *)
(* release only what is there - after a failed initialisation but for what vmbus_detach    *)
(* takes without looking: the software interrupts, the irq and its handler, the lock of    *)
(* the channel list, and the hypercall page, whose pointer HvInit leaves set when it has   *)
(* no signal buffer.                                                                       *)
MisuseIsKnown ==
  quiet => misused \subseteq IF failed THEN Glue \cup {"chanlock", "hypercall"} ELSE {}

(* What is left: a failed initialisation keeps the hypercall page, the signal buffer and   *)
(* the synic pages; an exit keeps the monitor pages and the channel lock, and the rest of  *)
(* the connection when the unload message was refused.                                     *)
LeaksAreKnown ==
  /\ stage = "failed" => held \subseteq {"hypercall", "signal", "synic"}
  /\ stage = "gone" =>
       held \subseteq IF connected THEN Connection ELSE {"monitor", "chanlock"}

(* The offer of a device class the driver knows is processed to its end, its channels      *)
(* opened - whatever else the connection's queue has to do - unless the bus is detached,   *)
(* there was no memory for the offer or for the answer to its open, or netvsc_attach       *)
(* waits for good in the RNDIS initialisation.  (There is a last offer, so that time and   *)
(* again none is open means that each is done.)                                            *)
LostFor(r) == {Item(what, r) : what \in {"offer", "opened", "not opened"}} \cap dropped # {}

(* A channel object that is torn down is released with its thread in the end, unless there *)
(* was no memory to queue that; no thread waits for itself.                                *)
TornIsReleased ==
  []<>(\A r \in torn : r \in released \/ Item("release", r) \in dropped \/ ~quiet)

(* The channel objects: however offers, rescinds and the exit are ordered, one for each    *)
(* device instance, and none torn down with work to do.                                    *)
ChannelInv == BusLifeTypeOK /\ OneChannelPerInstance /\ NobodyInTorn

(* What the bus driver holds: wherever the initialisation fails and whatever the host      *)
(* refuses, what is left is known, and so is what is used or released without being there. *)
HeldInv == HostReachesHeldPages /\ MisuseIsKnown /\ LeaksAreKnown
=============================================================================
