------------------------------ MODULE RndisFilter ------------------------------
(***************************************************************************)
(* The RNDIS filter (netvsc/hv_rndis_filter.c) between the network channel *)
(* of NetVscInit and the interface (netvsc/hv_netvsc_drv_freebsd.c): its   *)
(* device state, its requests with the list they are found in and the      *)
(* memory they live in, and the calls of the interface that issue them.    *)
(*                                                                         *)
(* One thread at a time is inside the filter: netvsc_attach, then the      *)
(* ioctls of the interface, which hold SN_LOCK, then a removal.  It sleeps *)
(* on its request while the channel callback takes what the host sends.    *)
(* The callback finds the request of a response under RequestLock and      *)
(* touches it after it let the lock go, so the two are separate steps.     *)
(*                                                                         *)
(* The glue never removes a device (netvsc_detach does nothing); a removal *)
(* is modelled as the driver interface offers it, with no call in progress.*)
(***************************************************************************)
EXTENDS NetVscInit, FiniteSets

CONSTANTS
  MaxCalls,     \* bound: calls of the interface
  MaxSignals,   \* bound: waits of an ioctl that a signal interrupts
  MaxChanges    \* bound: times the host's link goes up or down, which it does
                \* while the interface attaches

ASSUME BoundsAssumption == {MaxCalls, MaxSignals, MaxChanges} \subseteq Nat

VARIABLES
  rstate,       \* RNDIS_DEVICE.State
  extension,    \* netDevice->Extension is set
  newRequestId,
  reqs,         \* every RNDIS_REQUEST ever allocated, in order
  call,         \* what the thread is at
  rpc,          \* where in it: "get", "send", "wait", or "idle" between requests
  arg,          \* the packet filter to set
  macResult,    \* the MAC query, and so OnDeviceAdd, returned 0
  linkDown,     \* LinkStatus: 0 is connected, and what it is at first
  carrier,      \* hn_carrier
  running,      \* IFF_DRV_RUNNING
  found,        \* the request the callback found, and the one answered, or {}
  pending,      \* requests the host has not answered
  hostFilter,   \* the packet filter the host has in force
  hostLink,     \* its link is up
  calls, changes,
  overdue,      \* history: requests given up at their time-out
  interrupted,  \* history: requests given up at a signal
  lapsed        \* history: a filter request failed or was given up

thread == <<call, rpc, arg>>
device == <<rstate, extension, newRequestId>>
interface == <<macResult, linkDown, carrier, running>>
host == <<pending, hostFilter, hostLink, changes>>
gone == <<overdue, interrupted, lapsed>>
rndisVars == <<thread, device, reqs, interface, found, host, gone, calls>>
vars == <<netvscVars, rndisVars>>

\* What NetVscInit keeps, when only the rings and ring failures are touched.
netvscRest == <<step, buf, goal, channelOpen, memory, answers, inUse>>

Init ==
  /\ NetVscInitState
  /\ rstate = "UNINITIALIZED" /\ extension = FALSE /\ newRequestId = 0
  /\ reqs = <<>> /\ call = "none" /\ rpc = "idle" /\ arg = "none"
  /\ macResult = FALSE /\ linkDown = FALSE /\ carrier = FALSE /\ running = FALSE
  /\ found = {} /\ pending = {} /\ hostFilter = "none" /\ hostLink \in BOOLEAN
  /\ calls = 0 /\ changes = 0
  /\ overdue = {} /\ interrupted = {} /\ lapsed = FALSE

FilterCalls == {"open", "close", "mode"}
Filters == {"none", "promiscuous", "directed"}

DeviceStates == {"UNINITIALIZED", "INITIALIZING", "INITIALIZED", "DATAINITIALIZED"}

\* What the Status and the buffer of a response come to.
Answers == {"ok", "up", "down", "refused", "long"}

\* An RNDIS_REQUEST and its memory: set is its WaitEvent, answer its
\* ResponseMessage, call and arg what it asks for.
Requests == [id : Nat, call : FilterCalls \cup {"init", "mac", "link", "halt"},
             arg : Filters, listed : BOOLEAN, freed : BOOLEAN, set : BOOLEAN,
             answer : Answers \cup {"none"}]

\* What comes up the channel: completions of the sends, which name the memory
\* of the request, and messages, which carry its id.
RndisCompletions == [type : {"sent"}, of : DOMAIN reqs]
RndisMessages ==
  [type : {"response"}, of : DOMAIN reqs, id : Nat, answer : Answers]
    \cup [type : {"link"}, up : BOOLEAN]

cur == Len(reqs)
Busy == rpc \in {"send", "wait"}

-----------------------------------------------------------------------------
(* The requests.                                                           *)

\* Broken: every request has the same id.
SameId(c) == 1

\* RNDIS_HALT_REQUEST is numbered a second time (RndisFilterHaltDevice).
RequestId(c) == newRequestId + IF c = "halt" THEN 2 ELSE 1

\* Broken: the device is not put in the state that lets the answer in.
GetRequestOnly ==
  /\ rpc = "get"
  /\ newRequestId' = RequestId(call)
  /\ reqs' = Append(reqs, [id |-> RequestId(call), call |-> call, arg |-> arg,
                           listed |-> TRUE, freed |-> FALSE, set |-> FALSE,
                           answer |-> "none"])
  /\ rpc' = "send"
  /\ UNCHANGED <<netvscVars, call, arg, rstate, extension, interface, found, host,
                 gone, calls>>

\* GetRndisRequest; RndisFilterInitDevice changes the state before it sends.
GetRequest ==
  /\ rpc = "get"
  /\ newRequestId' = RequestId(call)
  /\ reqs' = Append(reqs, [id |-> RequestId(call), call |-> call, arg |-> arg,
                           listed |-> TRUE, freed |-> FALSE, set |-> FALSE,
                           answer |-> "none"])
  /\ rstate' = IF call = "init" THEN "INITIALIZING" ELSE rstate
  /\ rpc' = "send"
  /\ UNCHANGED <<netvscVars, call, arg, extension, interface, found, host, gone,
                 calls>>

\* PutRndisRequest.
Put == reqs' = [reqs EXCEPT ![cur] = [@ EXCEPT !.listed = FALSE, !.freed = TRUE,
                                               !.set = FALSE, !.answer = "none"]]

\* Broken: a close leaves the device in DATAINITIALIZED.
OutcomeClosedAsOpen(ok) ==
  /\ rstate' = CASE call = "init" -> (IF ok THEN "INITIALIZED" ELSE "UNINITIALIZED")
                 [] call = "open" /\ ok -> "DATAINITIALIZED"
                 [] call = "halt" -> "UNINITIALIZED"
                 [] OTHER -> rstate
  /\ macResult' = IF call = "mac" THEN ok ELSE macResult
  /\ running' = (running \/ (call = "open" /\ ok))
  /\ call' = CASE call = "init" -> "mac" [] call = "mac" -> "link"
               [] call = "link" -> "attach" [] call = "halt" -> "remove"
               [] OTHER -> "ready"
  /\ rpc' = IF call \in {"init", "mac"} THEN "get" ELSE "idle"
  /\ UNCHANGED <<extension, newRequestId, arg, carrier>>

\* What a call does with the outcome of its request, and what the thread goes
\* on with: OnDeviceAdd carries on whatever happens, the others return.
Outcome(ok) ==
  /\ rstate' = CASE call = "init" -> (IF ok THEN "INITIALIZED" ELSE "UNINITIALIZED")
                 [] call = "open" /\ ok -> "DATAINITIALIZED"
                 [] call = "close" /\ ok -> "INITIALIZED"
                 [] call = "halt" -> "UNINITIALIZED"
                 [] OTHER -> rstate
  /\ macResult' = IF call = "mac" THEN ok ELSE macResult
  /\ running' = (running \/ (call = "open" /\ ok))
  /\ call' = CASE call = "init" -> "mac" [] call = "mac" -> "link"
               [] call = "link" -> "attach" [] call = "halt" -> "remove"
               [] OTHER -> "ready"
  /\ rpc' = IF call \in {"init", "mac"} THEN "get" ELSE "idle"
  /\ UNCHANGED <<extension, newRequestId, arg, carrier>>

\* RndisFilterSendRequest.  A halt is not waited for.
SendRequest ==
  /\ rpc = "send"
  /\ Sends([type |-> "rndis", of |-> cur])
  /\ IF call = "halt"
     THEN Put /\ Outcome(TRUE)
     ELSE rpc' = "wait" /\ UNCHANGED <<call, arg, device, reqs, macResult, carrier,
                                       running>>
  /\ UNCHANGED <<netvscRest, refused, linkDown, found, host, gone, calls>>

\* Broken: leaves the request in the list and in memory.
SendRequestFailsKeeping ==
  /\ rpc = "send"
  /\ Fails
  /\ Outcome(call = "halt")
  /\ lapsed' = (lapsed \/ call \in FilterCalls)
  /\ UNCHANGED <<netvscRest, rings, reqs, linkDown, found, host, overdue,
                 interrupted, calls>>

SendRequestFails ==
  /\ rpc = "send"
  /\ Fails
  /\ Put
  /\ Outcome(call = "halt")
  /\ lapsed' = (lapsed \/ call \in FilterCalls)
  /\ UNCHANGED <<netvscRest, rings, linkDown, found, host, overdue, interrupted, calls>>

\* The wait is over: the init looks at the status of the answer, a query at
\* its length, a set at nothing.
Answered ==
  /\ rpc = "wait" /\ reqs[cur].set
  /\ LET answer == reqs[cur].answer
     IN  /\ Outcome(CASE call = "init" -> answer = "ok" [] call \in {"mac", "link"} ->
                      answer # "long" [] OTHER -> TRUE)
         /\ linkDown' = IF call = "link" THEN answer = "down" ELSE linkDown
         /\ lapsed' = (lapsed \/ (call \in FilterCalls /\ answer # "ok"))
  /\ Put
  /\ UNCHANGED <<netvscVars, found, host, overdue, interrupted, calls>>

\* Broken: frees the request.
TimeOutFreeing ==
  /\ rpc = "wait" /\ call \in FilterCalls /\ ~ reqs[cur].set
  /\ Put
  /\ Outcome(FALSE)
  /\ overdue' = overdue \cup {cur} /\ lapsed' = TRUE
  /\ UNCHANGED <<netvscVars, linkDown, found, host, interrupted, calls>>

\* Broken: waits like the queries, without a time-out.
TimeOutNever == FALSE /\ TimeOutFreeing

\* RndisFilterSetPacketFilter waits for 4000 ticks; the request stays behind.
TimeOut ==
  /\ rpc = "wait" /\ call \in FilterCalls /\ ~ reqs[cur].set
  /\ Outcome(FALSE)
  /\ overdue' = overdue \cup {cur} /\ lapsed' = TRUE
  /\ UNCHANGED <<netvscVars, reqs, linkDown, found, host, interrupted, calls>>

\* WaitEventWaitEx returns what msleep returned, negated: EINTR becomes a
\* failure, ERESTART, which is -1, the 1 of an answer.  Both free the request.
Interrupted ==
  /\ rpc = "wait" /\ call \in FilterCalls /\ ~ reqs[cur].set
  /\ Cardinality(interrupted) < MaxSignals
  /\ Put
  /\ \E restart \in BOOLEAN : Outcome(restart)
  /\ interrupted' = interrupted \cup {cur} /\ lapsed' = TRUE
  /\ UNCHANGED <<netvscVars, linkDown, found, host, overdue, calls>>

-----------------------------------------------------------------------------
(* The calls: netvsc_attach, hn_ioctl, NetVscSetMode, OnDeviceRemove.      *)

\* RndisFilterOnDeviceAdd, when the inner driver brought the channel up.
DeviceAdd ==
  /\ call = "none" /\ step = "up"
  /\ extension' = TRUE
  /\ call' = "init" /\ rpc' = "get"
  /\ UNCHANGED <<netvscVars, arg, rstate, newRequestId, reqs, interface, found, host,
                 gone, calls>>

\* Broken: takes the carrier down, too.
AttachSetsCarrier ==
  /\ call = "attach"
  /\ call' = IF macResult THEN "ready" ELSE "failed"
  /\ carrier' = IF macResult THEN ~ linkDown ELSE carrier
  /\ UNCHANGED <<netvscVars, rpc, arg, device, reqs, macResult, linkDown, running,
                 found, host, gone, calls>>

\* The rest of netvsc_attach: OnDeviceAdd returned the result of the MAC query.
Attach ==
  /\ call = "attach"
  /\ call' = IF macResult THEN "ready" ELSE "failed"
  /\ carrier' = (carrier \/ (macResult /\ ~ linkDown))
  /\ UNCHANGED <<netvscVars, rpc, arg, device, reqs, macResult, linkDown, running,
                 found, host, gone, calls>>

Calls(c, filter) ==
  /\ call = "ready"
  /\ calls < MaxCalls /\ calls' = calls + 1
  /\ call' = c /\ arg' = filter /\ rpc' = "get"

\* RndisFilterOpenDevice, with promisc_mode 1: nothing to do, and 0 returned, in
\* any state but INITIALIZED.
OpenDevice ==
  IF rstate = "INITIALIZED"
  THEN Calls("open", "promiscuous") /\ UNCHANGED running
  ELSE call = "ready" /\ running' = TRUE /\ UNCHANGED <<thread, calls>>

\* hn_ifinit_locked.
Up ==
  /\ ~ running
  /\ OpenDevice
  /\ UNCHANGED <<netvscVars, device, reqs, macResult, linkDown, carrier, found, host,
                 gone>>

\* RndisFilterCloseDevice: the same in any state but DATAINITIALIZED.
CloseDevice ==
  IF rstate = "DATAINITIALIZED"
  THEN Calls("close", "none")
  ELSE call = "ready" /\ UNCHANGED <<thread, calls>>

\* hn_stop.
Stop ==
  /\ running
  /\ running' = FALSE
  /\ CloseDevice
  /\ UNCHANGED <<netvscVars, device, reqs, macResult, linkDown, carrier, found, host,
                 gone>>

\* SIOCSIFFLAGS and SIOCSIFMTU; the other requests change no state of the driver.
Ioctl == Up \/ Stop

\* RndisSetMode, with the mode hn_ifinit does not set.
SetMode ==
  /\ Calls("mode", "directed")
  /\ UNCHANGED <<netvscVars, device, reqs, interface, found, host, gone>>

\* RndisFilterOnDeviceRemove begins with the halt ...
Halt ==
  /\ call = "ready" /\ ~ running /\ found = {}
  /\ call' = "halt" /\ rpc' = "get"
  /\ UNCHANGED <<netvscVars, arg, device, reqs, interface, found, host, gone, calls>>

\* ... frees the RNDIS device, and passes on to NetVscOnDeviceRemove ...
Remove ==
  /\ call = "remove"
  /\ extension' = FALSE
  /\ call' = "removed"
  /\ step' = "waitSends" /\ goal' = "remove" /\ buf' = "recv"
  /\ UNCHANGED <<channelOpen, memory, answers, rings, inUse, refused, rpc, arg, rstate,
                 newRequestId, reqs, interface, found, host, gone, calls>>

Outstanding(i) ==
  \/ \E k \in DOMAIN toHost : toHost[k] = [type |-> "rndis", of |-> i]
  \/ \E k \in DOMAIN fromHost : fromHost[k] = [type |-> "sent", of |-> i]

\* ... which waits for the completions of all sends before it disconnects.
SendsCompleted ==
  /\ At("waitSends", "revoke")
  /\ \A i \in DOMAIN reqs : ~ Outstanding(i)
  /\ UNCHANGED <<buf, goal, channelOpen, memory, answers, rings, inUse, refused,
                 rndisVars>>

-----------------------------------------------------------------------------
(* The channel callback.                                                   *)

Receives(t) ==
  /\ found = {} /\ fromHost # <<>> /\ Head(fromHost).type = t
  /\ fromHost' = Tail(fromHost) /\ UNCHANGED toHost

\* RndisFilterOnSendRequestCompletion does nothing, NetVscOnSendCompletion
\* reads the packet in the request to get there.
OnSendRequestCompletion ==
  /\ Receives("sent")
  /\ UNCHANGED <<netvscRest, refused, rndisVars>>

\* RndisFilterOnReceive lets messages in from the first request on.
LetIn == extension /\ rstate # "UNINITIALIZED"

Listed(id) == {i \in DOMAIN reqs : reqs[i].listed /\ reqs[i].id = id}
FirstOf(S) == CHOOSE i \in S : \A j \in S : i <= j

\* RndisFilterReceiveResponse, under the lock: the first request of that id.
ReceiveResponse ==
  /\ Receives("response")
  /\ LET m == Head(fromHost)
     IN  found' = IF LetIn /\ Listed(m.id) # {}
                  THEN {[req |-> FirstOf(Listed(m.id)), of |-> m.of, answer |-> m.answer]}
                  ELSE {}
  /\ UNCHANGED <<netvscRest, refused, thread, device, reqs, interface, host, gone, calls>>

\* The rest of it, after the lock: the answer is copied, the waiter woken.
Wake ==
  /\ \E f \in found :
       reqs' = [reqs EXCEPT ![f.req].answer = f.answer, ![f.req].set = TRUE]
  /\ found' = {}
  /\ UNCHANGED <<netvscVars, thread, device, interface, host, gone, calls>>

\* RndisFilterReceiveIndicateStatus, netvsc_linkstatus_callback.
ReceiveIndicateStatus ==
  /\ Receives("link")
  /\ carrier' = IF LetIn THEN Head(fromHost).up ELSE carrier
  /\ UNCHANGED <<netvscRest, refused, thread, device, reqs, macResult, linkDown, running,
                 found, host, gone, calls>>

-----------------------------------------------------------------------------
(* The host (external).  It completes a send when it takes the message, and *)
(* answers it later, out of order if it likes, unless a halt comes first.   *)

HostTakesRndis ==
  /\ toHost # <<>> /\ Head(toHost).type = "rndis"
  /\ toHost' = Tail(toHost)
  /\ fromHost' = Append(fromHost, [type |-> "sent", of |-> Head(toHost).of])
  /\ pending' = IF reqs[Head(toHost).of].call = "halt" THEN {}
                ELSE pending \cup {Head(toHost).of}
  /\ UNCHANGED <<netvscRest, refused, thread, device, reqs, interface, found, hostFilter,
                 hostLink, changes, gone, calls>>

\* A query that is refused has an empty answer, which is as good as any.
AnswersTo(c) ==
  CASE c = "link" -> {IF hostLink THEN "up" ELSE "down", "long"}
    [] c = "mac" -> {"ok", "long"}
    [] OTHER -> {"ok", "refused"}

HostAnswers ==
  \E i \in pending : \E answer \in AnswersTo(reqs[i].call) :
    /\ pending' = pending \ {i}
    /\ fromHost' = Append(fromHost, [type |-> "response", of |-> i, id |-> reqs[i].id,
                                     answer |-> answer])
    /\ hostFilter' = IF reqs[i].call \in FilterCalls /\ answer = "ok"
                     THEN reqs[i].arg ELSE hostFilter
    /\ UNCHANGED <<netvscRest, refused, toHost, thread, device, reqs, interface, found,
                   hostLink, changes, gone, calls>>

HostLinkChanges ==
  /\ step = "up" /\ call \notin {"ready", "failed"} /\ calls = 0
  /\ changes < MaxChanges /\ changes' = changes + 1
  /\ hostLink' = ~ hostLink
  /\ fromHost' = Append(fromHost, [type |-> "link", up |-> ~ hostLink])
  /\ UNCHANGED <<netvscRest, refused, toHost, thread, device, reqs, interface, found,
                 pending, hostFilter, gone, calls>>

-----------------------------------------------------------------------------
Inner ==
  /\ NetVscThread \/ NetVscFails
  /\ pending' = IF channelOpen' THEN pending ELSE {}
  /\ UNCHANGED <<thread, device, reqs, interface, found, hostFilter, hostLink, changes,
                 gone, calls>>
InnerCallback == OnSendCompletion /\ found = {} /\ UNCHANGED rndisVars
InnerHost == HostTakesNvsp /\ UNCHANGED rndisVars

Thread == DeviceAdd \/ GetRequest \/ SendRequest \/ Answered \/ TimeOut
          \/ Attach \/ Remove \/ SendsCompleted
Callback == InnerCallback \/ OnSendRequestCompletion \/ ReceiveResponse \/ Wake
            \/ ReceiveIndicateStatus
Host == InnerHost \/ HostTakesRndis \/ HostAnswers
Asked == Ioctl \/ SetMode \/ Halt

Next ==
  \/ Inner \/ Thread \/ SendRequestFails \/ Interrupted \/ Asked
  \/ Callback \/ Host \/ HostLinkChanges

Spec == Init /\ [][Next]_vars

\* Threads run, the callback empties the ring, sleeps end at their time-out,
\* and the host takes its messages and answers all but the sets, which it may
\* leave to the time-out.  Nobody has to fail, signal, or call.
FairSpec ==
  /\ Spec
  /\ WF_vars(Inner /\ NetVscThread) /\ WF_vars(Thread) /\ WF_vars(Callback)
  /\ WF_vars(InnerHost \/ HostTakesRndis)
  /\ WF_vars(HostAnswers /\ \E i \in pending \ pending' : reqs[i].call \notin FilterCalls)

-----------------------------------------------------------------------------
(* Properties.                                                             *)

\* Every variable keeps its type.
TypeOK ==
  /\ NetVscTypeOK
  /\ toHost \in Seq(InitMessages \cup BufferMessages
                   \cup [type : {"rndis"}, of : DOMAIN reqs])
  /\ fromHost \in Seq(Completions \cup RndisCompletions \cup RndisMessages)
  /\ rstate \in DeviceStates
  /\ {extension, macResult, linkDown, carrier, running, hostLink, lapsed} \subseteq BOOLEAN
  /\ newRequestId \in Nat /\ reqs \in Seq(Requests)
  /\ call \in FilterCalls \cup {"none", "init", "mac", "link", "attach", "ready",
                                "failed", "halt", "remove", "removed"}
  /\ rpc \in {"idle", "get", "send", "wait"}
  /\ arg \in Filters /\ hostFilter \in Filters
  /\ pending \cup overdue \cup interrupted \subseteq DOMAIN reqs
  /\ \A f \in found : {f.req, f.of} \subseteq DOMAIN reqs
  /\ calls \in 0 .. MaxCalls /\ Cardinality(interrupted) <= MaxSignals
  /\ changes \in 0 .. MaxChanges

\* The memory of a request is reached by nobody once it is freed: not by the
\* callback, which found it before its waiter gave up, and not by the completion
\* of the send, which names it.  The two exceptions are those of the code: a
\* signal, and the halt, which is freed as soon as it is sent.
FreedIsUnreached ==
  \A i \in DOMAIN reqs :
    reqs[i].freed /\ i \notin interrupted /\ reqs[i].call # "halt" =>
      ~ Outstanding(i) /\ \A f \in found : f.req # i

\* "We cant deallocate the request since we may still receive a send completion
\* for it": RndisFilterSetPacketFilter frees no request before its send is
\* completed.
CompletedBeforeFreed ==
  \A i \in DOMAIN reqs :
    reqs[i].call \in FilterCalls /\ reqs[i].freed => ~ Outstanding(i)

\* A response is given to the request it answers, also when requests that timed
\* out are still in the list and the host answers them late.
AnswersGoHome == \A f \in found : f.req = f.of

\* RequestList holds the request in progress and those that timed out, and
\* nothing else: nothing that was freed, nothing whose call returned.
ListedIsAwaited ==
  \A i \in DOMAIN reqs :
    /\ reqs[i].listed <=> i \in overdue \/ (i = cur /\ Busy)
    /\ reqs[i].listed => ~ reqs[i].freed

\* An interface that is up has a packet filter in force, unless a filter request
\* failed: whatever the order of the ups, downs and mode changes before.
RunningHasFilter ==
  running /\ call = "ready" /\ ~ lapsed => hostFilter # "none"

\* The carrier is down only while the link of the host is, whenever the last
\* indication came: before the link query, during attach, or after.
CarrierDownIsTrue ==
  /\ call = "ready" /\ ~ carrier
  /\ \A k \in DOMAIN fromHost : fromHost[k].type # "link"
  => ~ hostLink

\* The life of a request, against late answers, time-outs and completions: it is
\* listed while awaited, answered by its own response, and untouched once freed.
RequestInv == TypeOK /\ FreedIsUnreached /\ AnswersGoHome /\ ListedIsAwaited

\* What the interface believes of the device below it is so: that packets pass
\* its filter, and that its link is down.
InterfaceInv == RunningHasFilter /\ CarrierDownIsTrue

\* The calls that sleep in the filter return, attach and the ioctls, also when the
\* host never answers a packet filter - unless the device could not be initialised:
\* then the query of the MAC address, or of the link if that could not be sent, waits
\* for an answer RndisFilterOnReceive drops.
CallsEnd ==
  (step = "up" /\ call = "none") \/ call \in FilterCalls ~>
    \/ call \in {"ready", "failed"}
    \/ call \in {"mac", "link"} /\ rpc = "wait" /\ rstate = "UNINITIALIZED"
=============================================================================
