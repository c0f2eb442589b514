------------------------------ MODULE HnTransmit ------------------------------
(***************************************************************************)
(* The transmit side of the network interfaces: the queue of the interface *)
(* and hn_start_locked, which hands its mbufs to the RNDIS filter, tries   *)
(* again when the ring is full and puts the mbuf back when that does not   *)
(* help; the completion that frees packet and mbuf; the signal to the      *)
(* host, through the send interrupt page all the channels share, or the    *)
(* trigger of the monitor page; and bpf_mtap, which reads the mbuf after   *)
(* it has been given away.                                                 *)
(*                                                                         *)
(* if_start of an interface runs on any thread that has output, SN_LOCK    *)
(* lets in one.  Completions need no lock.  Different interfaces signal at *)
(* once, and BitSet (hv_osd_freebsd.c) is a load and a store.              *)
(*                                                                         *)
(* The ring's free space is counted in packets, the channels of the        *)
(* interfaces have their bits in one word.  What OnOpen and OnClose do is  *)
(* in RndisFilter, references to the NETVSC device in NetDevice.           *)
(***************************************************************************)
EXTENDS Naturals, FiniteSets, SequencesExt

CONSTANTS
  NIfs,       \* the interfaces are 1 .. NIfs
  Monitored,  \* the interfaces whose offer has MonitorAllocated
  NMbufs,     \* bound: mbufs the stack sends, numbered in the order they come
  Tries,      \* hn_start_locked gives up at this many failures (4)
  RingSize,   \* packets an outbound ring holds
  DrvMax,     \* mbufs the driver's part of the queue holds (ifq_drv_maxlen)
  MaxStops    \* bound: times an interface is taken down

ASSUME SizesAssumption == {NIfs, Tries, RingSize} \subseteq Nat \ {0}
ASSUME BoundsAssumption == {NMbufs, DrvMax, MaxStops} \subseteq Nat

Ifs == 1 .. NIfs
Mbufs == 1 .. NMbufs
Words == {"send", "trigger"}   \* of the send interrupt page, of the monitor page

VARIABLES
  arrived,     \* mbufs so far
  ifq, drvq,   \* ifq[i], drvq[i]: the two parts of if_snd
  running,     \* IFF_DRV_RUNNING
  oactive,     \* IFF_DRV_OACTIVE
  starting,    \* starting[i]: threads on their way into hn_start
  tx,          \* tx[i]: where hn_start_locked is, its mbuf, its count of retries
  pending,     \* pending[w]: interfaces whose bit is set in the word
  word,        \* word[i]: what BitSet loaded
  ring,        \* ring[i]: mbufs whose packets are in the outbound ring
  packet,      \* packet[m]: NETVSC_PACKET of m, or NoPacket
  freed,       \* freed[m]: how often m_freem freed m
  called,      \* a hypercall the host has not looked at
  draining,    \* interfaces whose ring the host reads
  taken,       \* mbufs whose packets the host has, or has completed
  stops,
  putBack,     \* history: mbufs IF_PREPEND put back
  seen,        \* history: mbufs bpf_mtap read
  skipped,     \* history: interfaces where a thread did not call if_start
  overwritten  \* history: interfaces whose bit another BitSet wrote over

queue == <<ifq, drvq>>
flags == <<running, oactive, stops>>
signal == <<pending, word, called>>
host == <<draining, taken>>
mem == <<packet, freed>>
history == <<putBack, seen, skipped, overwritten>>
vars == <<arrived, queue, flags, starting, tx, signal, ring, mem, host, history>>

NoPacket == [completion |-> "none", saved |-> "none", tid |-> 0]
Idle == [at |-> "idle", m |-> 0, retries |-> 0]

Init ==
  /\ arrived = 0 /\ ifq = [i \in Ifs |-> <<>>] /\ drvq = [i \in Ifs |-> <<>>]
  /\ running = [i \in Ifs |-> TRUE] /\ oactive = [i \in Ifs |-> FALSE] /\ stops = 0
  /\ starting = [i \in Ifs |-> 0]
  /\ tx = [i \in Ifs |-> Idle]
  /\ pending = [w \in Words |-> {}] /\ word = [i \in Ifs |-> {}] /\ called = FALSE
  /\ ring = [i \in Ifs |-> <<>>]
  /\ packet = [m \in Mbufs |-> NoPacket] /\ freed = [m \in Mbufs |-> 0]
  /\ draining = {} /\ taken = {}
  /\ putBack = {} /\ seen = {} /\ skipped = {} /\ overwritten = {}

At(i, at) == tx[i].at = at
Goes(i, at) == tx' = [tx EXCEPT ![i].at = at]
Empty(i) == ifq[i] = <<>> /\ drvq[i] = <<>>

-----------------------------------------------------------------------------
\* The stack (external): ether_output, which wants RUNNING, enqueues, and
\* if_handoff calls if_start unless OACTIVE.
Output(i) ==
  /\ arrived < NMbufs /\ running[i]
  /\ arrived' = arrived + 1
  /\ ifq' = [ifq EXCEPT ![i] = Append(@, arrived + 1)]
  /\ IF oactive[i]
     THEN skipped' = skipped \cup {i} /\ UNCHANGED starting
     ELSE starting' = [starting EXCEPT ![i] = @ + 1] /\ UNCHANGED skipped
  /\ UNCHANGED <<drvq, flags, tx, signal, ring, mem, host, putBack, seen, overwritten>>

\* IFQ_DRV_DEQUEUE: from the driver's part; when that is empty, from the other,
\* of which it takes DrvMax more along.
Dequeued(i) ==
  IF drvq[i] # <<>>
  THEN [m |-> Head(drvq[i]), drv |-> Tail(drvq[i]), ifq |-> ifq[i]]
  ELSE LET n == Min({Len(ifq[i]), DrvMax + 1})
       IN [m   |-> Head(ifq[i]),
           drv |-> SubSeq(ifq[i], 2, n),
           ifq |-> SubSeq(ifq[i], n + 1, Len(ifq[i]))]

-----------------------------------------------------------------------------
(* hn_start, hn_start_locked.                                              *)

Start(i) ==
  /\ At(i, "idle") /\ starting[i] > 0
  /\ starting' = [starting EXCEPT ![i] = @ - 1]
  /\ tx' = [tx EXCEPT ![i] = [Idle EXCEPT !.at = "loop"]]
  /\ UNCHANGED <<arrived, queue, flags, signal, ring, mem, host, history>>

\* The next mbuf, and a packet for it ...
Dequeue(i) ==
  /\ At(i, "loop") /\ ~ Empty(i)
  /\ LET d == Dequeued(i) IN
       /\ ifq' = [ifq EXCEPT ![i] = d.ifq] /\ drvq' = [drvq EXCEPT ![i] = d.drv]
       /\ tx' = [tx EXCEPT ![i].at = "send", ![i].m = d.m]
       /\ packet' = [packet EXCEPT ![d.m] =
                       [completion |-> "xmit", saved |-> "none", tid |-> d.m]]
  /\ UNCHANGED <<arrived, flags, starting, signal, ring, freed, host, history>>

\* Broken: sends one mbuf for each call.
LoopEndsAny(i) ==
  /\ At(i, "loop") /\ tx' = [tx EXCEPT ![i] = Idle]
  /\ UNCHANGED <<arrived, queue, flags, starting, signal, ring, mem, host, history>>

\* ... until the queue is empty.  The count of retries is never reset
\* (here it stops at Tries).
LoopEnds(i) ==
  /\ At(i, "loop") /\ Empty(i)
  /\ tx' = [tx EXCEPT ![i] = Idle]
  /\ UNCHANGED <<arrived, queue, flags, starting, signal, ring, mem, host, history>>

\* RndisFilterOnSend puts its own completion before the one it finds, and takes
\* it back when the packet could not be sent.
Filtered(p) == [p EXCEPT !.saved = p.completion, !.completion = "filter"]

\* Broken: leaves its completion in the packet.
NotRestored(p) == p

Restored(p) == [p EXCEPT !.completion = p.saved]

\* Broken: what needs no signal is not shown to BPF.
NotTapped(i) == IF i \in draining THEN "loop" ELSE "load send"

\* The host is told unless it masked the interrupt because it reads the ring
\* anyway.
AfterSend(i) == IF i \in draining THEN "tap" ELSE "load send"

\* OnSend: the packet goes into the ring.
Send(i) ==
  /\ At(i, "send") /\ Len(ring[i]) < RingSize
  /\ packet' = [packet EXCEPT ![tx[i].m] = Filtered(@)]
  /\ ring' = [ring EXCEPT ![i] = Append(@, tx[i].m)]
  /\ Goes(i, AfterSend(i))
  /\ UNCHANGED <<arrived, queue, flags, starting, signal, freed, host, history>>

SendFails(i) ==
  /\ At(i, "send") /\ Len(ring[i]) = RingSize
  /\ packet' = [packet EXCEPT ![tx[i].m] = Restored(Filtered(@))]
  /\ LET n == Min({tx[i].retries + 1, Tries})
     IN tx' = [tx EXCEPT ![i].retries = n, ![i].at = IF n < Tries THEN "send" ELSE "give up"]
  /\ UNCHANGED <<arrived, queue, flags, starting, signal, ring, freed, host, history>>

\* netvsc_xmit_completion: frees the packet, and the mbuf its Tid names.
XmitCompletion(m) ==
  /\ packet' = [packet EXCEPT ![m] = NoPacket]
  /\ freed' = IF packet[m].tid = 0 THEN freed ELSE [freed EXCEPT ![packet[m].tid] = @ + 1]

\* Broken: the packet still names its mbuf.
ReleaseBoth(m) == XmitCompletion(m)

\* SendCompletionTid = 0, and a call of netvsc_xmit_completion.
ReleasePacket(m) == packet' = [packet EXCEPT ![m] = NoPacket] /\ UNCHANGED freed

\* Broken: IF_ENQUEUE, which adds at the tail.
Enqueued(q, m) == Append(q, m)

Prepended(q, m) == <<m>> \o q

GiveUp(i) ==
  /\ At(i, "give up")
  /\ ifq' = [ifq EXCEPT ![i] = Prepended(@, tx[i].m)]
  /\ oactive' = [oactive EXCEPT ![i] = TRUE]
  /\ ReleasePacket(tx[i].m)
  /\ tx' = [tx EXCEPT ![i].at = "loop", ![i].m = 0]
  /\ putBack' = putBack \cup {tx[i].m}
  /\ UNCHANGED <<arrived, drvq, running, stops, starting, signal, ring, host, seen, skipped,
                 overwritten>>

-----------------------------------------------------------------------------
(* VmbusChannelSetEvent, VmbusSetEvent, BitSet, HvSignalEvent.             *)

BitSetLoads(i, w) ==
  /\ tx[i].at = IF w = "send" THEN "load send" ELSE "load trigger"
  /\ word' = [word EXCEPT ![i] = pending[w]]
  /\ Goes(i, IF w = "send" THEN "store send" ELSE "store trigger")
  /\ UNCHANGED <<arrived, queue, flags, starting, pending, called, ring, mem, host, history>>

\* Broken: stores the word without the bit.
StoredWithoutBit(i) == word[i]

Stored(i) == word[i] \cup {i}

\* Bits others set since the load are gone.  A hypercall follows (HvSignalEvent),
\* or the trigger.
BitSetStores(i, w) ==
  /\ tx[i].at = IF w = "send" THEN "store send" ELSE "store trigger"
  /\ pending' = [pending EXCEPT ![w] = Stored(i)]
  /\ word' = [word EXCEPT ![i] = {}]
  /\ overwritten' = overwritten \cup (pending[w] \ Stored(i))
  /\ Goes(i, IF w = "send" /\ i \in Monitored THEN "load trigger" ELSE "tap")
  /\ called' = (called \/ (w = "send" /\ i \notin Monitored))
  /\ UNCHANGED <<arrived, queue, flags, starting, ring, mem, host, putBack, seen, skipped>>

\* Back from OnSend, out of the critical section: bpf_mtap reads m_head (if_bpf is
\* set by ether_ifattach), which the host may have answered and the completion
\* have freed by now.
Tap(i) ==
  /\ At(i, "tap") /\ tx' = [tx EXCEPT ![i].at = "loop", ![i].m = 0]
  /\ seen' = seen \cup {tx[i].m}
  /\ UNCHANGED <<arrived, queue, flags, starting, signal, ring, mem, host, putBack, skipped,
                 overwritten>>

-----------------------------------------------------------------------------
(* The host (external).                                                    *)

\* It looks at the words: at the send interrupt page after a hypercall, at the
\* triggers from time to time, each cleared with a locked exchange.
HostLooks(w) ==
  /\ IF w = "send" THEN called ELSE pending[w] # {}
  /\ called' = (called /\ w # "send")
  /\ draining' = draining \cup pending[w]
  /\ pending' = [pending EXCEPT ![w] = {}]
  /\ UNCHANGED <<arrived, queue, flags, starting, tx, word, ring, mem, taken, history>>

\* It reads a ring till it is empty, unmasks it and finds it empty still; what it
\* took it answers, sooner or later.
HostReads(i) ==
  /\ i \in draining /\ draining' = draining \ {i}
  /\ taken' = taken \cup ToSet(ring[i])
  /\ ring' = [ring EXCEPT ![i] = <<>>]
  /\ UNCHANGED <<arrived, queue, flags, starting, tx, signal, mem, history>>

\* RndisFilterOnSendCompletion calls what the filter saved.
OnSendCompletion(m) ==
  /\ m \in taken /\ packet[m].saved = "xmit"
  /\ taken' = taken \ {m}
  /\ XmitCompletion(m)
  /\ UNCHANGED <<arrived, queue, flags, starting, tx, signal, ring, draining, history>>

-----------------------------------------------------------------------------
\* hn_stop: SN_LOCK keeps hn_start out.  The queue is left as it is.
Stop(i) ==
  /\ At(i, "idle") /\ running[i]
  /\ stops < MaxStops /\ stops' = stops + 1
  /\ running' = [running EXCEPT ![i] = FALSE]
  /\ oactive' = [oactive EXCEPT ![i] = FALSE]
  /\ UNCHANGED <<arrived, queue, starting, tx, signal, ring, mem, host, history>>

\* hn_ifinit_locked, when OnOpen succeeds: nothing is sent before the next output.
IfInit(i) ==
  /\ At(i, "idle") /\ ~ running[i]
  /\ running' = [running EXCEPT ![i] = TRUE]
  /\ oactive' = [oactive EXCEPT ![i] = FALSE]
  /\ UNCHANGED <<arrived, queue, stops, starting, tx, signal, ring, mem, host, history>>

StartLocked(i) ==
  \/ Start(i) \/ Dequeue(i) \/ LoopEnds(i) \/ Send(i) \/ SendFails(i) \/ GiveUp(i) \/ Tap(i)
  \/ \E w \in Words : BitSetLoads(i, w) \/ BitSetStores(i, w)
Host ==
  \/ \E w \in Words : HostLooks(w)
  \/ \E i \in Ifs : HostReads(i)
Next ==
  \/ Host
  \/ \E i \in Ifs : StartLocked(i) \/ Output(i) \/ Stop(i) \/ IfInit(i)
  \/ \E m \in Mbufs : OnSendCompletion(m)

Spec == Init /\ [][Next]_vars

\* Threads run and get SN_LOCK, the host does its work, completions are delivered
\* (ChannelEvents shows when).
FairSpec ==
  /\ Spec /\ WF_vars(Host) /\ WF_vars(\E m \in Mbufs : OnSendCompletion(m))
  /\ \A i \in Ifs : WF_vars(StartLocked(i))

-----------------------------------------------------------------------------
(* Properties.                                                             *)

\* Every variable keeps its type.
TypeOK ==
  /\ arrived \in 0 .. NMbufs /\ stops \in 0 .. MaxStops
  /\ {ifq, drvq, ring} \subseteq [Ifs -> BoundedSeq(Mbufs, NMbufs)]
  /\ {running, oactive} \subseteq [Ifs -> BOOLEAN]
  /\ starting \in [Ifs -> 0 .. NMbufs]
  /\ \A i \in Ifs : tx[i].m \in 0 .. NMbufs /\ tx[i].retries \in 0 .. Tries
  /\ pending \in [Words -> SUBSET Ifs] /\ word \in [Ifs -> SUBSET Ifs]
  /\ called \in BOOLEAN
  /\ packet \in [Mbufs -> [completion : {"none", "xmit", "filter"},
                           saved : {"none", "xmit", "filter"}, tid : 0 .. NMbufs]]
  /\ freed \in [Mbufs -> 0 .. 1]
  /\ taken \cup putBack \cup seen \subseteq Mbufs
  /\ draining \cup skipped \cup overwritten \subseteq Ifs

Sent(i) == ToSet(ring[i])
Queued(i) == ToSet(ifq[i]) \cup ToSet(drvq[i])
Held(i) == IF tx[i].at \in {"send", "give up"} THEN {tx[i].m} ELSE {}

Signalling(i) ==
  tx[i].at \in {"load send", "store send", "load trigger", "store trigger"}

\* An mbuf that came has one owner, who alone may send, put back or free it: the
\* queue, hn_start_locked, the ring or the host until its completion; or it is
\* freed, once.  That bpf_mtap still reads what was given away is SeenOnce's.
OwnedOnce ==
  \A m \in 1 .. arrived :
    LET places == [q : {"queue", "held", "ring"}, i : Ifs]
        Is(p) == m \in CASE p.q = "queue" -> Queued(p.i) [] p.q = "held" -> Held(p.i)
                         [] OTHER -> Sent(p.i)
    IN Cardinality({p \in places : Is(p)}) + Cardinality({m} \cap taken)
         + freed[m] = 1

\* Whatever was tried before, the completion of a sent packet goes through the
\* filter to netvsc_xmit_completion, and names the mbuf whose memory the host read.
CompletionFindsMbuf ==
  \A m \in taken \cup UNION {Sent(i) : i \in Ifs} :
    packet[m] = [completion |-> "filter", saved |-> "xmit", tid |-> m]

\* What was put back goes before what has not been tried yet: in the stack's part
\* of the queue an mbuf overtakes an older one only by having been put back.
PutBackGoesFirst ==
  \A i \in Ifs : \A j, k \in DOMAIN ifq[i] :
    j < k /\ ifq[i][j] > ifq[i][k] => ifq[i][j] \in putBack

Gone == {m \in Mbufs : m \in taken \/ freed[m] = 1 \/ \E i \in Ifs : m \in Sent(i)}
Given(i) == IF Signalling(i) \/ At(i, "tap") THEN {tx[i].m} ELSE {}

\* Of the mbufs it does not own any more hn_start_locked reads the one it just
\* sent and no other: bpf_mtap sees each mbuf that was sent, once, and none that
\* was put back, whatever was tried.  The code does not see to it that what is
\* read is not freed: Given(i) may have its completion behind it.
SeenOnce ==
  /\ seen \subseteq Gone /\ \A i \in Ifs : Given(i) \subseteq Gone \ seen
  /\ \A m \in Gone \ seen : \E i \in Ifs : m \in Given(i)
  /\ \A i, k \in Ifs : i # k => Given(i) \cap Given(k) = {}

\* Mbufs wait in the queue of an interface without a thread that will send them
\* only after a thread found OACTIVE set, which nothing but a stop clears.
WaitsOnlyForOactive ==
  \A i \in Ifs :
    Empty(i) \/ ~ At(i, "idle") \/ starting[i] > 0 \/ i \in skipped

\* What is in an outbound ring, the host will look at: it reads the ring, the
\* trigger is set, or the bit and the host is called, or the sender is on its way
\* to that.  Except after another channel's BitSet wrote over the bit.
SentIsSignalled ==
  \A i \in Ifs :
    ring[i] # <<>> =>
      \/ i \in draining \/ Signalling(i) \/ i \in overwritten
      \/ IF i \in Monitored THEN i \in pending["trigger"] ELSE i \in pending["send"] /\ called

\* hn_start gets out of its loop and lets SN_LOCK go, however often the ring is
\* full: the host takes the packets, unless it was never told of them.
StartReturns ==
  \A i \in Ifs : []<>(At(i, "idle") \/ i \in overwritten)

\* No retry, put-back or completion loses, doubles or swaps an mbuf, or frees one
\* that is queued, being sent or in the ring; nor does BPF miss one or see one twice.
MbufInv == TypeOK /\ OwnedOnce /\ CompletionFindsMbuf /\ PutBackGoesFirst /\ SeenOnce
=============================================================================
