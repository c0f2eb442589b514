------------------------------ MODULE NetVscRecv ------------------------------
(***************************************************************************)
(* The receive path of netvsc/hv_net_vsc.c: a transfer-page packet of the  *)
(* host is split into its ranges, each handed to the upper layers in a     *)
(* packet of the preallocated pool, one more packet standing for the       *)
(* transfer itself and counting down; when the last range comes back the   *)
(* host is sent the receive completion that lets it reuse the pages.       *)
(*                                                                         *)
(* Receivers are the threads running NetVscOnChannelCallback.  They take   *)
(* the transfers from the inbound ring, here as the PacketQueue that       *)
(* RingBuffer implements.  The upper layers (RndisFilterOnReceive and      *)
(* netvsc_recv_callback) run inside the callback: they complete a packet   *)
(* before they return, or never.                                           *)
(***************************************************************************)
EXTENDS Integers, Sequences, FiniteSets

CONSTANTS
  Pool,       \* the receive packets (NETVSC_RECEIVE_PACKETLIST_COUNT)
  Transfers,  \* the transfer-page packets the host sends
  Ranges,     \* Ranges[t]: RangeCount of t
  Receivers,  \* the threads of the callback
  MaxLeaks,   \* bound: packets the upper layers keep
  MaxFull,    \* bound: attempts to send a completion that find the ring full
  None

Tries == 4    \* attempts to send one completion

ASSUME PoolAssumption == IsFiniteSet(Pool) /\ None \notin Pool
ASSUME TransfersAssumption ==
  None \notin Transfers /\ \A t \in Transfers : Ranges[t] \in Nat
ASSUME RecvBoundsAssumption == MaxLeaks \in Nat /\ MaxFull \in Nat

VARIABLES
  queue,      \* the inbound ring
  got,        \* got[c]: the transfer c took from it
  sent,       \* history: the transfers the host sent
  free,       \* ReceivePacketList
  at,
  list,       \* list[c]: the packets in the listHead of c
  xfer,       \* xfer[c]: the packet standing for the transfer of c, or None
  current,    \* current[c]: the packet the upper layers of c hold, or None
  count,      \* count[p]: the Count of p when it stands for a transfer
  retries,
  full,       \* attempts that found the ring full so far
  leaked,     \* history: packets that never came back
  refused,    \* history: transfers the pool had no packets for
  completed,  \* history: receive completions sent for each transfer
  abandoned,  \* history: transfers whose completion was given up
  zeroCount   \* a completion found Count at 0

ring == <<queue, got, sent>>
heap == <<free, list, current, count, leaked>>
pool == <<heap, xfer>>
sending == <<retries, full, completed, abandoned>>
recvVars == <<ring, pool, sending, at, refused, zeroCount>>

Inbound == INSTANCE PacketQueue WITH Packets <- Transfers

RecvInit ==
  /\ Inbound!Init /\ sent = {}
  /\ free = Pool /\ leaked = {}
  /\ at = [c \in Receivers |-> "idle"]
  /\ list = [c \in Receivers |-> {}]
  /\ xfer = [c \in Receivers |-> None]
  /\ current = [c \in Receivers |-> None]
  /\ count = [p \in Pool |-> 0]
  /\ retries = [c \in Receivers |-> 0] /\ full = 0
  /\ refused = {} /\ abandoned = {}
  /\ completed = [t \in Transfers |-> 0]
  /\ zeroCount = FALSE

Goes(c, l) == at' = [at EXCEPT ![c] = l]

\* The host (external).
HostTransfers(t) ==
  /\ t \notin sent
  /\ sent' = sent \cup {t}
  /\ Inbound!Send(t)
  /\ UNCHANGED <<pool, sending, at, refused, zeroCount>>

-----------------------------------------------------------------------------
(* NetVscOnChannelCallback, NetVscOnReceive.                               *)

OnReceive(c) ==
  /\ at[c] = "idle"
  /\ Inbound!Receive(c)
  /\ Goes(c, "grab")
  /\ UNCHANGED <<sent, pool, sending, refused, zeroCount>>

\* How many packets the loop takes, one for each range and one for the
\* transfer, fewer when the list runs out.
Wanted(c) ==
  LET n == Ranges[got[c]] + 1
  IN  IF Cardinality(free) < n THEN Cardinality(free) ELSE n

\* Under ReceivePacketListLock.
Grab(c) ==
  /\ at[c] = "grab"
  /\ \E taken \in SUBSET free :
       /\ Cardinality(taken) = Wanted(c)
       /\ list' = [list EXCEPT ![c] = taken]
       /\ free' = free \ taken
  /\ Goes(c, IF Wanted(c) < 2 THEN "return" ELSE "assign")
  /\ UNCHANGED <<ring, sending, xfer, current, count, leaked, refused, zeroCount>>

\* Broken: drops the transfer without an answer.
ReturnSilently(c) ==
  /\ at[c] = "return"
  /\ free' = free \cup list[c]
  /\ list' = [list EXCEPT ![c] = {}]
  /\ refused' = refused \cup {got[c]}
  /\ Goes(c, "idle")
  /\ UNCHANGED <<ring, sending, xfer, current, count, leaked, zeroCount>>

\* Too few: under the lock again, all go back, and the transfer is answered
\* without having been delivered.
ReturnAll(c) ==
  /\ at[c] = "return"
  /\ free' = free \cup list[c]
  /\ list' = [list EXCEPT ![c] = {}]
  /\ refused' = refused \cup {got[c]}
  /\ Goes(c, "send")
  /\ UNCHANGED <<ring, sending, xfer, current, count, leaked, zeroCount>>

\* Broken: starts the count one short.
AssignTooFew(c) ==
  /\ at[c] = "assign"
  /\ \E x \in list[c] :
       /\ xfer' = [xfer EXCEPT ![c] = x]
       /\ count' = [count EXCEPT ![x] = Cardinality(list[c]) - 2]
       /\ list' = [list EXCEPT ![c] = @ \ {x}]
  /\ Goes(c, "deliver")
  /\ UNCHANGED <<ring, sending, free, current, leaked, refused, zeroCount>>

\* The first packet stands for the transfer and counts the others.
AssignTransfer(c) ==
  /\ at[c] = "assign"
  /\ \E x \in list[c] :
       /\ xfer' = [xfer EXCEPT ![c] = x]
       /\ count' = [count EXCEPT ![x] = Cardinality(list[c]) - 1]
       /\ list' = [list EXCEPT ![c] = @ \ {x}]
  /\ Goes(c, "deliver")
  /\ UNCHANGED <<ring, sending, free, current, leaked, refused, zeroCount>>

\* One range is initialised and passed to the upper layers.
Deliver(c) ==
  /\ at[c] = "deliver"
  /\ \E p \in list[c] :
       /\ current' = [current EXCEPT ![c] = p]
       /\ list' = [list EXCEPT ![c] = @ \ {p}]
  /\ Goes(c, "upper")
  /\ UNCHANGED <<ring, sending, free, xfer, count, leaked, refused, zeroCount>>

OnReceiveReturns(c) ==
  /\ at[c] = "deliver"
  /\ list[c] = {}
  /\ xfer' = [xfer EXCEPT ![c] = None]
  /\ Goes(c, "idle")
  /\ UNCHANGED <<ring, sending, free, list, current, count, leaked, refused,
                 zeroCount>>

\* The upper layers return without completing the packet: RNDIS responses
\* and indications, a device that is not up, a frame too long, no mbuf.
UpperKeeps(c) ==
  /\ at[c] = "upper"
  /\ Cardinality(leaked) < MaxLeaks
  /\ leaked' = leaked \cup {current[c]}
  /\ current' = [current EXCEPT ![c] = None]
  /\ Goes(c, "deliver")
  /\ UNCHANGED <<ring, sending, free, list, xfer, count, refused, zeroCount>>

-----------------------------------------------------------------------------
(* NetVscOnReceiveCompletion, NetVscSendReceiveCompletion.                 *)

\* Broken: the packet that stood for the transfer stays out.
CompleteWithoutTransfer(c) ==
  /\ at[c] = "upper"
  /\ LET left == count[xfer[c]] - 1
     IN  /\ count' = [count EXCEPT ![xfer[c]] = left]
         /\ free' = free \cup {current[c]}
         /\ Goes(c, IF left = 0 THEN "send" ELSE "deliver")
  /\ zeroCount' = (zeroCount \/ count[xfer[c]] = 0)
  /\ current' = [current EXCEPT ![c] = None]
  /\ UNCHANGED <<ring, sending, list, xfer, leaked, refused>>

\* Under the lock: the packet goes back, and with the last range the one that
\* stood for the transfer.
OnReceiveCompletion(c) ==
  /\ at[c] = "upper"
  /\ LET left == count[xfer[c]] - 1
     IN  /\ count' = [count EXCEPT ![xfer[c]] = left]
         /\ free' = free \cup {current[c]} \cup (IF left = 0 THEN {xfer[c]} ELSE {})
         /\ Goes(c, IF left = 0 THEN "send" ELSE "deliver")
  /\ zeroCount' = (zeroCount \/ count[xfer[c]] = 0)
  /\ current' = [current EXCEPT ![c] = None]
  /\ UNCHANGED <<ring, sending, list, xfer, leaked, refused>>

\* Back to the delivery loop, and out of it when it has nothing left.
Sent(c) ==
  /\ retries' = [retries EXCEPT ![c] = 0]
  /\ xfer' = IF list[c] = {} THEN [xfer EXCEPT ![c] = None] ELSE xfer
  /\ Goes(c, IF list[c] = {} THEN "idle" ELSE "deliver")

\* Broken: a completion that went out is sent again.
SendCompletionTwice(c) ==
  /\ at[c] = "send"
  /\ completed' = [completed EXCEPT ![got[c]] = @ + 1]
  /\ IF completed[got[c]] = 0 THEN UNCHANGED <<retries, xfer, at>> ELSE Sent(c)
  /\ UNCHANGED <<ring, heap, full, abandoned, refused, zeroCount>>

SendCompletion(c) ==
  /\ at[c] = "send"
  /\ completed' = [completed EXCEPT ![got[c]] = @ + 1]
  /\ Sent(c)
  /\ UNCHANGED <<ring, heap, full, abandoned, refused, zeroCount>>

\* Broken: one attempt too many.
RetryOnceMore(c) ==
  /\ at[c] = "send"
  /\ full < MaxFull
  /\ retries[c] < Tries
  /\ full' = full + 1
  /\ retries' = [retries EXCEPT ![c] = @ + 1]
  /\ UNCHANGED <<ring, pool, completed, abandoned, at, refused, zeroCount>>

RetryCompletion(c) ==
  /\ at[c] = "send"
  /\ full < MaxFull
  /\ retries[c] + 1 < Tries
  /\ full' = full + 1
  /\ retries' = [retries EXCEPT ![c] = @ + 1]
  /\ UNCHANGED <<ring, pool, completed, abandoned, at, refused, zeroCount>>

GiveUpCompletion(c) ==
  /\ at[c] = "send"
  /\ full < MaxFull
  /\ retries[c] + 1 = Tries
  /\ full' = full + 1
  /\ abandoned' = abandoned \cup {got[c]}
  /\ Sent(c)
  /\ UNCHANGED <<ring, heap, completed, refused, zeroCount>>

-----------------------------------------------------------------------------
NetVscOnChannelCallback(c) ==
  \/ OnReceive(c) \/ Grab(c) \/ ReturnAll(c) \/ AssignTransfer(c)
  \/ Deliver(c) \/ OnReceiveReturns(c) \/ UpperKeeps(c)
  \/ OnReceiveCompletion(c)
  \/ SendCompletion(c) \/ RetryCompletion(c) \/ GiveUpCompletion(c)

RecvNext ==
  \/ \E t \in Transfers : HostTransfers(t)
  \/ \E c \in Receivers : NetVscOnChannelCallback(c)

RecvSpec == RecvInit /\ [][RecvNext]_recvVars

\* A callback runs while there is something in the ring; the calls it makes
\* neither block nor loop for ever.
RecvFairSpec == RecvSpec /\ \A c \in Receivers : WF_recvVars(NetVscOnChannelCallback(c))

-----------------------------------------------------------------------------
(* Properties.                                                             *)

Steps == {"idle", "grab", "return", "assign", "deliver", "upper", "send"}

\* Every variable keeps its type.
RecvTypeOK ==
  /\ queue \in Seq(Transfers) /\ got \in [Receivers -> Transfers \cup {None}]
  /\ sent \subseteq Transfers /\ refused \subseteq Transfers
  /\ abandoned \subseteq Transfers
  /\ free \subseteq Pool /\ leaked \subseteq Pool
  /\ at \in [Receivers -> Steps]
  /\ list \in [Receivers -> SUBSET Pool]
  /\ xfer \in [Receivers -> Pool \cup {None}]
  /\ current \in [Receivers -> Pool \cup {None}]
  /\ count \in [Pool -> Int]
  /\ retries \in [Receivers -> 0 .. Tries - 1] /\ full \in 0 .. MaxFull
  /\ completed \in [Transfers -> Nat]
  /\ zeroCount \in BOOLEAN

\* The packet that stands for c's transfer, until the last range came back.
Open(c) ==
  IF xfer[c] # None /\ at[c] \in {"deliver", "upper"} THEN {xfer[c]} ELSE {}
Current(c) == IF current[c] = None THEN {} ELSE {current[c]}
HeldBy(c) == list[c] \cup Current(c) \cup Open(c)

\* Packets standing for a transfer whose callback has returned while one of
\* its ranges had not come back.
Stranded == {p \in Pool : count[p] > 0 /\ \A c \in Receivers : p \notin Open(c)}

\* Every packet of the pool is in exactly one place: the free list, one
\* callback, or lost to the upper layers, itself or with the transfer it
\* stands for.  None is handed out twice, none is freed while in use.
PoolIsPartitioned ==
  /\ free \cup leaked \cup Stranded \cup UNION {HeldBy(c) : c \in Receivers} = Pool
  /\ Cardinality(free) + Cardinality(leaked) + Cardinality(Stranded) = Cardinality(
       Pool \ UNION {HeldBy(c) : c \in Receivers})
  /\ \A c, d \in Receivers : c # d => HeldBy(c) \cap HeldBy(d) = {}
  /\ \A c \in Receivers : Cardinality(HeldBy(c)) =
       Cardinality(list[c]) + Cardinality(Current(c)) + Cardinality(Open(c))

\* The branch of NetVscOnReceiveCompletion for a Count of 0, which would drop
\* the device reference twice, is dead.
ZeroCountIsDead == ~ zeroCount

\* A transfer gets at most one receive completion, and only when none of its
\* ranges is still to be delivered or held by the upper layers.
CompletedOnceAndLast ==
  /\ \A t \in Transfers :
       completed[t] + (IF t \in abandoned THEN 1 ELSE 0) <= 1
  /\ \A c \in Receivers :
       at[c] = "send" => list[c] = {} /\ current[c] = None /\ Open(c) = {}
                         /\ completed[got[c]] = 0

\* Unless the upper layers kept a packet or the ring stayed full for all the
\* attempts, every transfer the host sends is answered.
TransfersAreAnswered ==
  \A t \in Transfers :
    t \in sent ~> completed[t] = 1 \/ t \in abandoned \/ leaked # {}

\* The safety of the pool: all of a packet's life is accounted for, and the state
\* has its type.
PoolInv == RecvTypeOK /\ PoolIsPartitioned /\ ZeroCountIsDead
=============================================================================
