------------------------------ MODULE VmbusProofs -----------------------------
(***************************************************************************)
(* Proofs about what the host sends the bus driver and what the driver     *)
(* does with it.                                                           *)
(*                                                                         *)
(* SynicMsg: however many messages the host posts and however many work    *)
(* items are lost, no message is left behind in the hypervisor or in the   *)
(* slot with nobody on the way to look at it, and the messages reach their *)
(* handlers in the order they were posted.                                 *)
(*                                                                         *)
(* BusLife, with Offers: for any instances, classes and numbers of offers  *)
(* and rescinds, there is one channel for each device instance and none is *)
(* torn down with work to do; and what the bus driver holds, uses and      *)
(* leaves behind is known at every step of its initialisation and exit.    *)
(***************************************************************************)
EXTENDS SynicMsg, BusLife, SequenceTheorems, FiniteSetTheorems, WellFoundedInduction, TLAPS

\* The two watch conditions are inductive together with the types, and those
\* need to know that the DPC copies and queues only what is there.
IInv ==
  /\ TypeOK
  /\ dpc \in {"copy", "enqueue", "clear"} => slot # None
  /\ IF dpc = "enqueue" THEN copied = slot ELSE copied = None
  /\ QueueIsWatched
  /\ SlotIsWatched

LEMMA NoneIsNoMessage == None \notin Messages
BY NoneAssumption DEF Messages

LEMMA InitHolds == Init => IInv
<1> SUFFICES ASSUME Init PROVE IInv
  OBVIOUS
<1>1. <<>> \in Seq(Messages)
  OBVIOUS
<1>2. posted \in 0 .. MaxMessages
  BY BoundsAssumption DEF Init
<1>3. TypeOK
  BY <1>1, <1>2 DEF Init, TypeOK, DpcSteps
<1> QED
  BY <1>3 DEF Init, IInv, QueueIsWatched, SlotIsWatched

LEMMA HypervisorKeeps ==
  ASSUME IInv, Hypervisor
  PROVE  IInv'
<1> USE BoundsAssumption, NoneIsNoMessage
<1> USE DEF IInv, TypeOK, QueueIsWatched, SlotIsWatched, hypervisor, guest, worker
<1>1. CASE PostToSlot
  <2>1. posted + 1 \in Messages /\ posted' \in 0 .. MaxMessages
    BY <1>1 DEF PostToSlot, Messages
  <2> QED
    BY <1>1, <2>1 DEF PostToSlot, Deliver
<1>2. CASE PostToQueue
  <2>1. posted + 1 \in Messages /\ posted' \in 0 .. MaxMessages
    BY <1>2 DEF PostToQueue, Messages
  <2>2. queue' \in Seq(Messages)
    BY <1>2, <2>1, AppendProperties DEF PostToQueue
  <2> QED
    BY <1>2, <2>1, <2>2 DEF PostToQueue
<1>3. CASE Rescan
  <2>1. CASE slot = None /\ queue # <<>> /\ Deliver(Head(queue), Tail(queue) # <<>>)
             /\ queue' = Tail(queue)
    <3>1. Head(queue) \in Messages /\ Tail(queue) \in Seq(Messages)
      BY <2>1, HeadTailProperties
    <3> QED
      BY <1>3, <2>1, <3>1 DEF Rescan, Deliver
  <2>2. CASE /\ slot # None \/ queue = <<>>
             /\ pending' = (pending \/ (slot # None /\ queue # <<>>))
             /\ UNCHANGED <<slot, interrupt, queue>>
    BY <1>3, <2>2 DEF Rescan
  <2> QED
    BY <1>3, <2>1, <2>2 DEF Rescan
<1> QED
  BY <1>1, <1>2, <1>3 DEF Hypervisor

LEMMA DpcKeeps ==
  ASSUME IInv, ISR \/ Dpc
  PROVE  IInv'
<1> USE NoneIsNoMessage
<1> USE DEF IInv, TypeOK, QueueIsWatched, SlotIsWatched, DpcSteps, After,
            hypervisor, guest, worker
<1>1. CASE ISR
  BY <1>1 DEF ISR
<1>2. CASE MsgDPC \/ NoMessage \/ DPCReturns
  BY <1>2 DEF MsgDPC, NoMessage, DPCReturns
<1>3. CASE SeeMessage \/ CopyMessage
  BY <1>3 DEF SeeMessage, CopyMessage
<1>4. CASE QueueWorkItem
  <2>1. works' \in Seq(Messages)
    BY <1>4, AppendProperties DEF QueueWorkItem
  <2> QED
    BY <1>4, <2>1 DEF QueueWorkItem
<1>5. CASE QueueWorkItemFails
  BY <1>5 DEF QueueWorkItemFails
<1>6. CASE ClearSlot
  BY <1>6 DEF ClearSlot
<1>7. CASE ReadPending
  BY <1>7 DEF ReadPending
<1>8. CASE WriteEOM
  BY <1>8 DEF WriteEOM
<1> QED
  BY <1>1, <1>2, <1>3, <1>4, <1>5, <1>6, <1>7, <1>8 DEF Dpc

LEMMA WorkerKeeps ==
  ASSUME IInv, Worker
  PROVE  IInv'
<1> USE NoneIsNoMessage
<1> USE DEF IInv, TypeOK, QueueIsWatched, SlotIsWatched, hypervisor, guest, worker
<1>1. CASE StartWork
  <2>1. work' \in Messages /\ works' \in Seq(Messages)
    BY <1>1, HeadTailProperties DEF StartWork
  <2> QED
    BY <1>1, <2>1 DEF StartWork
<1>2. CASE OnChannelMessage
  <2>1. work \in Messages
    BY <1>2 DEF OnChannelMessage
  <2>2. handled' \in Seq(Messages)
    BY <1>2, <2>1, AppendProperties DEF OnChannelMessage
  <2> QED
    BY <1>2, <2>1, <2>2 DEF OnChannelMessage
<1> QED
  BY <1>1, <1>2 DEF Worker

LEMMA NextKeeps == IInv /\ [Next]_vars => IInv'
<1> SUFFICES ASSUME IInv, [Next]_vars PROVE IInv'
  OBVIOUS
<1>1. CASE Next
  BY <1>1, HypervisorKeeps, DpcKeeps, WorkerKeeps DEF Next
<1>2. CASE UNCHANGED vars
  BY <1>2 DEF IInv, TypeOK, QueueIsWatched, SlotIsWatched, vars, hypervisor,
              guest, worker
<1> QED
  BY <1>1, <1>2

-----------------------------------------------------------------------------
\* The strengthened invariant holds of every behaviour.
THEOREM Invariant == Spec => []IInv
BY InitHolds, NextKeeps, PTL DEF Spec

\* The DPC never copies an empty slot and the queue never holds an empty item.
THEOREM TypeCorrect == Spec => []TypeOK
<1>1. IInv => TypeOK
  BY DEF IInv
<1> QED
  BY <1>1, Invariant, PTL

\* Emptying the slot before reading MessagePending strands no message in the
\* hypervisor's queue.
THEOREM QueueAlwaysWatched == Spec => []QueueIsWatched
<1>1. IInv => QueueIsWatched
  BY DEF IInv
<1> QED
  BY <1>1, Invariant, PTL

\* VmbusOnISR and the DPC's last test leave no message in the slot unseen.
THEOREM SlotAlwaysWatched == Spec => []SlotIsWatched
<1>1. IInv => SlotIsWatched
  BY DEF IInv
<1> QED
  BY <1>1, Invariant, PTL

-----------------------------------------------------------------------------
(* The order.  The way of a message has five parts; what is to be kept is  *)
(* said of the parts, so that a step from one to the next is about two     *)
(* sets, and the sequence is put together once.                            *)

Before(S, T) == \A x \in S, y \in T : x < y
One(m) == {m} \ {None}
Lying == IF dpc \in {"enqueue", "clear"} THEN {} ELSE One(slot)
Behind == Lying \cup ToSet(queue)
Coming == One(work) \cup ToSet(works) \cup One(copied) \cup Behind

PartsInOrder ==
  /\ Before(One(work), ToSet(works)) /\ Before(One(work) \cup ToSet(works), One(copied))
  /\ Before(One(work) \cup ToSet(works) \cup One(copied), Behind)
  /\ Before(Lying, ToSet(queue))

OInv ==
  /\ Rising(works) /\ Rising(queue) /\ Rising(handled) /\ PartsInOrder
  /\ Coming = (1 .. posted) \ (freed \cup lost)
  /\ Before(freed, Coming) /\ ToSet(handled) = freed \ Unhandled
  /\ freed \cup lost \subseteq 1 .. posted /\ freed \cap lost = {}

\* What is greater than all there is goes to the end.
LEMMA RisingAppend ==
  ASSUME NEW s \in Seq(Messages), NEW x \in Messages
  PROVE  /\ ToSet(Append(s, x)) = ToSet(s) \cup {x}
         /\ Rising(s) /\ Before(ToSet(s), {x}) => Rising(Append(s, x))
<1> DEFINE t == Append(s, x)
<1>1. /\ Len(s) \in Nat /\ DOMAIN s = 1 .. Len(s) /\ DOMAIN t = 1 .. Len(s) + 1
      /\ \A j \in 1 .. Len(s) : t[j] = s[j]
      /\ t[Len(s) + 1] = x
  BY AppendProperties, LenProperties
<1> HIDE DEF t
<1>2. 1 .. Len(s) + 1 = (1 .. Len(s)) \cup {Len(s) + 1}
  BY <1>1
<1>3. ToSet(t) = ToSet(s) \cup {x}
  BY <1>1, <1>2 DEF ToSet
<1>4. ASSUME Rising(s), Before(ToSet(s), {x}), NEW j \in DOMAIN t, NEW k \in DOMAIN t, j < k
      PROVE  t[j] < t[k]
  <2>1. j \in 1 .. Len(s)
    BY <1>1, <1>4
  <2>2. CASE k = Len(s) + 1
    BY <1>1, <1>4, <2>1, <2>2 DEF Before, ToSet
  <2>3. CASE k \in 1 .. Len(s)
    BY <1>1, <1>4, <2>1, <2>3 DEF Rising
  <2> QED
    BY <1>1, <1>2, <2>2, <2>3
<1> QED
  BY <1>3, <1>4 DEF Rising, t

\* The head is less than all the rest.
LEMMA RisingTail ==
  ASSUME NEW s \in Seq(Messages), s # <<>>
  PROVE  /\ Head(s) \in Messages /\ Tail(s) \in Seq(Messages)
         /\ ToSet(s) = {Head(s)} \cup ToSet(Tail(s))
         /\ Rising(s) => Rising(Tail(s)) /\ Before({Head(s)}, ToSet(Tail(s)))
<1> DEFINE t == Tail(s)
<1>1. /\ Head(s) \in Messages /\ t \in Seq(Messages) /\ Len(t) = Len(s) - 1
      /\ \A j \in 1 .. Len(t) : t[j] = s[j + 1]
      /\ Head(s) = s[1]
  BY HeadTailProperties
<1>2. Len(s) \in Nat /\ DOMAIN s = 1 .. Len(s) /\ DOMAIN t = 1 .. Len(s) - 1 /\ Len(s) # 0
  BY <1>1, LenProperties, EmptySeq
<1> HIDE DEF t
<1>3. \A j \in DOMAIN t : j + 1 \in DOMAIN s /\ t[j] = s[j + 1]
  BY <1>1, <1>2
<1>4. 1 \in DOMAIN s
  BY <1>2
<1>5. ToSet(s) = {Head(s)} \cup ToSet(t)
  <2>1. ASSUME NEW j \in DOMAIN s PROVE s[j] \in {Head(s)} \cup ToSet(t)
    <3>1. CASE j = 1
      BY <1>1, <3>1
    <3>2. CASE j # 1
      <4>1. j - 1 \in DOMAIN t /\ (j - 1) + 1 = j
        BY <1>2, <3>2
      <4>2. t[j - 1] = s[j]
        BY <1>3, <4>1
      <4> QED
        BY <4>1, <4>2 DEF ToSet
    <3> QED
      BY <3>1, <3>2
  <2> QED
    BY <1>1, <1>3, <1>4, <2>1 DEF ToSet
<1>6. ASSUME Rising(s) PROVE Rising(t) /\ Before({Head(s)}, ToSet(t))
  <2>1. ASSUME NEW j \in DOMAIN t, NEW k \in DOMAIN t, j < k PROVE t[j] < t[k]
    <3>1. j + 1 < k + 1
      BY <1>2, <2>1
    <3> QED
      BY <1>3, <1>6, <3>1 DEF Rising
  <2>2. ASSUME NEW j \in DOMAIN t PROVE Head(s) < t[j]
    <3>1. 1 < j + 1
      BY <1>2
    <3> QED
      BY <1>1, <1>3, <1>4, <1>6, <3>1 DEF Rising
  <2> QED
    BY <2>1, <2>2 DEF Rising, Before, ToSet
<1> QED
  BY <1>1, <1>5, <1>6 DEF t

\* Two rising sequences in a row, the first below the second.
LEMMA RisingConcat ==
  ASSUME NEW s \in Seq(Messages), NEW t \in Seq(Messages)
  PROVE  /\ s \o t \in Seq(Messages) /\ ToSet(s \o t) = ToSet(s) \cup ToSet(t)
         /\ Rising(s) /\ Rising(t) /\ Before(ToSet(s), ToSet(t)) => Rising(s \o t)
<1> DEFINE u == s \o t
           l == Len(s)
<1>1. /\ u \in Seq(Messages) /\ Len(u) = l + Len(t) /\ l \in Nat /\ Len(t) \in Nat
      /\ \A j \in 1 .. l + Len(t) : u[j] = IF j <= l THEN s[j] ELSE t[j - l]
      /\ DOMAIN s = 1 .. l /\ DOMAIN t = 1 .. Len(t) /\ DOMAIN u = 1 .. l + Len(t)
  BY ConcatProperties, LenProperties
<1> HIDE DEF u, l
<1>2. \A j \in DOMAIN u : \/ j \in DOMAIN s /\ u[j] = s[j]
                          \/ j > l /\ j - l \in DOMAIN t /\ u[j] = t[j - l]
  BY <1>1
<1>3. \A j \in DOMAIN s : j \in DOMAIN u /\ u[j] = s[j]
  BY <1>1
<1>4. \A j \in DOMAIN t : l + j \in DOMAIN u /\ u[l + j] = t[j]
  <2> TAKE j \in DOMAIN t
  <2>1. l + j \in DOMAIN u /\ ~ l + j <= l /\ (l + j) - l = j
    BY <1>1
  <2> QED
    BY <1>1, <2>1
<1>5. ToSet(u) = ToSet(s) \cup ToSet(t)
  BY <1>2, <1>3, <1>4 DEF ToSet
<1>6. ASSUME Rising(s), Rising(t), Before(ToSet(s), ToSet(t)),
             NEW j \in DOMAIN u, NEW k \in DOMAIN u, j < k
      PROVE  u[j] < u[k]
  <2>1. CASE k \in DOMAIN s /\ u[k] = s[k]
    <3>1. j \in DOMAIN s
      BY <1>1, <1>6, <2>1
    <3> QED
      BY <1>3, <1>6, <2>1, <3>1 DEF Rising
  <2>2. CASE k > l /\ k - l \in DOMAIN t /\ u[k] = t[k - l]
    <3>1. CASE j \in DOMAIN s
      BY <1>3, <1>6, <2>2, <3>1 DEF Before, ToSet
    <3>2. CASE j > l /\ j - l \in DOMAIN t /\ u[j] = t[j - l]
      <4>1. j - l < k - l
        BY <1>1, <1>6, <2>2, <3>2
      <4> QED
        BY <1>6, <2>2, <3>2, <4>1 DEF Rising
    <3> QED
      BY <1>2, <3>1, <3>2
  <2> QED
    BY <1>2, <2>1, <2>2
<1> QED
  BY <1>1, <1>5, <1>6 DEF Rising, u

\* At most one message.
LEMMA OptProperties ==
  ASSUME NEW m \in Messages \cup {None}
  PROVE  Opt(m) \in Seq(Messages) /\ ToSet(Opt(m)) = One(m) /\ Rising(Opt(m))
<1>1. CASE m = None
  BY <1>1 DEF Opt, One, ToSet, Rising
<1>2. CASE m # None
  <2>1. Opt(m) = <<m>> /\ DOMAIN <<m>> = {1} /\ <<m>>[1] = m /\ m \in Messages
    BY <1>2 DEF Opt
  <2>2. <<m>> \in Seq(Messages)
    BY <2>1
  <2>3. ToSet(<<m>>) = One(m)
    BY <1>2, <2>1 DEF ToSet, One
  <2>4. Rising(<<m>>)
    BY <2>1 DEF Rising
  <2> QED
    BY <2>1, <2>2, <2>3, <2>4
<1> QED
  BY <1>1, <1>2

\* The parts together are the way.
LEMMA WayIsParts == IInv /\ OInv => HandledInOrder
<1> SUFFICES ASSUME IInv, OInv PROVE HandledInOrder
  OBVIOUS
<1> DEFINE a == Opt(work)
           b == Opt(copied)
           u == a \o works
           v == u \o b
           w == v \o InSlot
<1>1. /\ a \in Seq(Messages) /\ ToSet(a) = One(work) /\ Rising(a)
      /\ b \in Seq(Messages) /\ ToSet(b) = One(copied) /\ Rising(b)
  BY OptProperties DEF IInv, TypeOK
<1>2. InSlot \in Seq(Messages) /\ ToSet(InSlot) = Lying /\ Rising(InSlot)
  <2>1. CASE dpc \in {"enqueue", "clear"}
    <3>1. InSlot = Opt(None) /\ Lying = One(None)
      BY <2>1 DEF InSlot, Opt, Lying, One
    <3> QED
      BY <3>1, OptProperties
  <2>2. CASE dpc \notin {"enqueue", "clear"}
    BY <2>2, OptProperties DEF InSlot, Lying, IInv, TypeOK
  <2> QED
    BY <2>1, <2>2
<1>3. works \in Seq(Messages) /\ queue \in Seq(Messages) /\ Rising(works) /\ Rising(queue)
  BY DEF IInv, TypeOK, OInv
<1>4. Before(ToSet(a), ToSet(works)) /\ Before(ToSet(a) \cup ToSet(works), ToSet(b))
  BY <1>1 DEF OInv, PartsInOrder
<1>5. /\ Before(ToSet(a) \cup ToSet(works) \cup ToSet(b), ToSet(InSlot))
      /\ Before(ToSet(a) \cup ToSet(works) \cup ToSet(b) \cup ToSet(InSlot), ToSet(queue))
  BY <1>1, <1>2 DEF OInv, PartsInOrder, Behind, Before
<1> HIDE DEF a, b
<1>6. u \in Seq(Messages) /\ ToSet(u) = ToSet(a) \cup ToSet(works) /\ Rising(u)
  BY <1>1, <1>3, <1>4, RisingConcat
<1> HIDE DEF u
<1>7. v \in Seq(Messages) /\ ToSet(v) = ToSet(u) \cup ToSet(b) /\ Rising(v)
  BY <1>1, <1>4, <1>6, RisingConcat
<1> HIDE DEF v
<1>8. w \in Seq(Messages) /\ ToSet(w) = ToSet(v) \cup ToSet(InSlot) /\ Rising(w)
  BY <1>2, <1>5, <1>6, <1>7, RisingConcat
<1> HIDE DEF w
<1>9. ToSet(w \o queue) = ToSet(w) \cup ToSet(queue) /\ Rising(w \o queue)
  BY <1>3, <1>5, <1>6, <1>7, <1>8, RisingConcat
<1>10. Way = w \o queue
  BY DEF Way, a, b, u, v, w
<1>11. ToSet(Way) = Coming
  BY <1>1, <1>2, <1>6, <1>7, <1>8, <1>9, <1>10 DEF Coming, Behind
<1> QED
  BY <1>9, <1>10, <1>11 DEF OInv, HandledInOrder, Before

\* At first nothing is on its way.
LEMMA OrderInit == Init => OInv
<1> SUFFICES ASSUME Init PROVE OInv
  OBVIOUS
<1>1. ToSet(<<>>) = {} /\ Rising(<<>>)
  BY DEF ToSet, Rising
<1>2. 1 .. 0 = {}
  OBVIOUS
<1>3. Coming = {} /\ One(work) = {} /\ One(copied) = {} /\ Behind = {} /\ Lying = {}
  BY <1>1 DEF Init, Coming, One, Behind, Lying
<1> QED
  BY <1>1, <1>2, <1>3 DEF Init, OInv, PartsInOrder, Before

\* A step that takes no message from one part to another.
LEMMA PartsStay ==
  ASSUME OInv, UNCHANGED <<work, works, copied, queue, posted, freed, lost, handled>>,
         Lying' = Lying
  PROVE  OInv'
<1>1. Behind' = Behind
  BY DEF Behind
<1>2. Coming' = Coming
  BY <1>1 DEF Coming
<1> QED
  BY <1>1, <1>2 DEF OInv, PartsInOrder

\* The newest message joins the end, in the slot or in the queue.
LEMMA PostKeepsOrder ==
  ASSUME IInv, OInv, PostToSlot \/ PostToQueue
  PROVE  OInv'
<1> DEFINE n == posted + 1
<1>1. /\ n \in Messages /\ posted \in Nat /\ posted' = n /\ n # None
      /\ UNCHANGED <<work, works, copied, freed, lost, handled, dpc>>
  <2>1. /\ posted < MaxMessages /\ posted' = n
        /\ UNCHANGED <<work, works, copied, freed, lost, handled, dpc>>
    BY DEF PostToSlot, PostToQueue, guest, worker
  <2>2. posted \in 0 .. MaxMessages
    BY DEF IInv, TypeOK
  <2>3. n \in Messages /\ posted \in Nat
    BY <2>1, <2>2, BoundsAssumption DEF Messages
  <2> QED
    BY <2>1, <2>3, NoneIsNoMessage
<1>2. \A m \in Coming \cup freed \cup lost : m < n /\ m # n
  BY <1>1 DEF OInv
<1>3. Rising(queue') /\ Before(Lying', ToSet(queue')) /\ Behind' = Behind \cup {n}
  <2>1. CASE PostToSlot
    <3>1. slot = None /\ queue = <<>> /\ queue' = <<>> /\ slot' = n
      BY <2>1 DEF PostToSlot, Deliver
    <3>2. dpc \notin {"enqueue", "clear"}
      BY <3>1 DEF IInv
    <3>3. ToSet(<<>>) = {} /\ Rising(<<>>)
      BY DEF ToSet, Rising
    <3>4. Lying = {} /\ Lying' = {n}
      BY <1>1, <3>1, <3>2 DEF Lying, One
    <3> QED
      BY <3>1, <3>3, <3>4 DEF Behind, Before
  <2>2. CASE PostToQueue
    <3>1. queue' = Append(queue, n) /\ slot' = slot /\ queue \in Seq(Messages)
      BY <2>2 DEF PostToQueue, IInv, TypeOK
    <3>2. Before(ToSet(queue) \cup Lying, {n})
      BY <1>2 DEF Before, Coming, Behind
    <3>3. Before(ToSet(queue), {n}) /\ Before(Lying, {n})
      BY <3>2 DEF Before
    <3>4. ToSet(queue') = ToSet(queue) \cup {n} /\ Rising(queue')
      BY <1>1, <3>1, <3>3, RisingAppend DEF OInv
    <3>5. Lying' = Lying
      BY <1>1, <3>1 DEF Lying
    <3> QED
      BY <3>3, <3>4, <3>5 DEF Behind, OInv, PartsInOrder, Before
  <2> QED
    BY <2>1, <2>2
<1> HIDE DEF n
<1>4. Coming' = Coming \cup {n}
  BY <1>1, <1>3 DEF Coming
<1>5. 1 .. posted' = (1 .. posted) \cup {n}
  BY <1>1 DEF n
<1>6. PartsInOrder'
  <2>1. Before(One(work) \cup ToSet(works) \cup One(copied), Behind')
    BY <1>2, <1>3 DEF Before, OInv, PartsInOrder, Coming
  <2> QED
    BY <1>1, <1>3, <2>1 DEF OInv, PartsInOrder
<1>7. Coming' = (1 .. posted') \ (freed \cup lost) /\ Before(freed, Coming')
  BY <1>2, <1>4, <1>5 DEF OInv, Before
<1> QED
  BY <1>1, <1>3, <1>5, <1>6, <1>7 DEF OInv

\* The oldest message in the queue goes to the empty slot.
LEMMA RescanKeepsOrder ==
  ASSUME IInv, OInv, Rescan
  PROVE  OInv'
<1>1. UNCHANGED <<work, works, copied, freed, lost, handled, dpc, posted>>
  BY DEF Rescan, guest, worker
<1>2. CASE UNCHANGED <<slot, queue>>
  BY <1>1, <1>2, PartsStay DEF Lying
<1>3. CASE slot = None /\ queue # <<>> /\ slot' = Head(queue) /\ queue' = Tail(queue)
  <2>1. /\ Head(queue) \in Messages /\ ToSet(queue) = {Head(queue)} \cup ToSet(queue')
        /\ Rising(queue') /\ Before({Head(queue)}, ToSet(queue'))
    BY <1>3, RisingTail DEF IInv, TypeOK, OInv
  <2>2. dpc \notin {"enqueue", "clear"} /\ Head(queue) # None
    BY <1>3, <2>1, NoneIsNoMessage DEF IInv
  <2>3. Lying = {} /\ Lying' = {Head(queue)}
    BY <1>1, <1>3, <2>2 DEF Lying, One
  <2>4. Behind' = Behind
    BY <2>1, <2>3 DEF Behind
  <2>5. Coming' = Coming
    BY <1>1, <2>4 DEF Coming
  <2> QED
    BY <1>1, <2>1, <2>3, <2>4, <2>5 DEF OInv, PartsInOrder
<1> QED
  BY <1>2, <1>3 DEF Rescan, Deliver

\* The DPC takes the message from the slot to its copy, and to the work queue.
LEMMA DpcKeepsOrder ==
  ASSUME IInv, OInv, ISR \/ Dpc
  PROVE  OInv'
<1>1. CASE ISR \/ MsgDPC \/ NoMessage \/ DPCReturns \/ SeeMessage \/ ReadPending \/ WriteEOM
  <2>1. UNCHANGED <<work, works, copied, queue, posted, freed, lost, handled, slot>>
    BY <1>1 DEF ISR, MsgDPC, NoMessage, DPCReturns, SeeMessage, ReadPending, WriteEOM,
       hypervisor, guest, worker
  <2>2. dpc \in {"enqueue", "clear"} <=> dpc' \in {"enqueue", "clear"}
    BY <1>1 DEF ISR, MsgDPC, NoMessage, DPCReturns, SeeMessage, ReadPending, WriteEOM,
       guest, After
  <2> QED
    BY <2>1, <2>2, PartsStay DEF Lying
<1>2. CASE CopyMessage
  <2>1. /\ dpc = "copy" /\ dpc' = "enqueue" /\ copied' = slot /\ copied = None
        /\ UNCHANGED <<work, works, queue, posted, freed, lost, handled, slot>>
    BY <1>2 DEF CopyMessage, IInv, hypervisor, worker
  <2>2. Lying = One(slot) /\ Lying' = {} /\ One(copied) = {} /\ One(copied') = One(slot)
    BY <2>1 DEF Lying, One
  <2>3. Coming' = Coming
    BY <2>1, <2>2 DEF Coming, Behind
  <2>4. PartsInOrder'
    BY <2>1, <2>2 DEF OInv, PartsInOrder, Behind, Before
  <2> QED
    BY <2>1, <2>3, <2>4 DEF OInv
<1>3. CASE QueueWorkItem
  <2>1. /\ dpc = "enqueue" /\ dpc' = "clear" /\ copied' = None /\ works' = Append(works, copied)
        /\ UNCHANGED <<work, queue, posted, freed, lost, handled, slot>>
    BY <1>3 DEF QueueWorkItem, hypervisor, After
  <2>2. copied \in Messages /\ copied # None /\ works \in Seq(Messages)
    BY <2>1, NoneIsNoMessage DEF IInv, TypeOK
  <2>3. One(copied) = {copied} /\ One(copied') = {} /\ Lying' = Lying
    BY <2>1, <2>2 DEF One, Lying
  <2>4. Before(ToSet(works), {copied})
    BY <2>3 DEF OInv, PartsInOrder, Before
  <2>5. ToSet(works') = ToSet(works) \cup {copied} /\ Rising(works')
    BY <2>1, <2>2, <2>4, RisingAppend DEF OInv
  <2>6. Coming' = Coming
    BY <2>1, <2>3, <2>5 DEF Coming, Behind
  <2>7. PartsInOrder'
    BY <2>1, <2>3, <2>5 DEF OInv, PartsInOrder, Behind, Before
  <2> QED
    BY <2>1, <2>5, <2>6, <2>7 DEF OInv
<1>4. CASE QueueWorkItemFails
  <2>1. /\ dpc = "enqueue" /\ dpc' = "clear" /\ copied' = None /\ lost' = lost \cup {copied}
        /\ UNCHANGED <<work, works, queue, posted, freed, handled, slot>>
    BY <1>4 DEF QueueWorkItemFails, hypervisor, worker, After
  <2>2. copied \in Messages /\ copied # None
    BY <2>1, NoneIsNoMessage DEF IInv, TypeOK
  <2>3. One(copied) = {copied} /\ One(copied') = {} /\ Lying' = Lying
    BY <2>1, <2>2 DEF One, Lying
  <2>4. copied \in Coming /\ copied \in Nat
    BY <2>2, <2>3, BoundsAssumption DEF Coming, Messages
  <2>5. copied \notin One(work) \cup ToSet(works) \cup Behind
    BY <2>3, <2>4 DEF OInv, PartsInOrder, Before
  <2>6. Coming' = Coming \ {copied}
    BY <2>1, <2>3, <2>5 DEF Coming, Behind
  <2>7. PartsInOrder'
    BY <2>1, <2>3 DEF OInv, PartsInOrder, Behind, Before
  <2> QED
    BY <2>1, <2>4, <2>6, <2>7 DEF OInv, Before
<1>5. CASE ClearSlot
  <2>1. /\ dpc = "clear" /\ dpc' = "fenced" /\ slot' = None
        /\ UNCHANGED <<work, works, copied, queue, posted, freed, lost, handled>>
    BY <1>5 DEF ClearSlot, hypervisor, worker, After
  <2> QED
    BY <2>1, PartsStay DEF Lying, One
<1> QED
  BY <1>1, <1>2, <1>3, <1>4, <1>5 DEF Dpc

\* The work thread takes the oldest item and handles it.
LEMMA WorkerKeepsOrder ==
  ASSUME IInv, OInv, Worker
  PROVE  OInv'
<1>1. CASE StartWork
  <2>1. /\ work = None /\ works # <<>> /\ work' = Head(works) /\ works' = Tail(works)
        /\ UNCHANGED <<copied, queue, posted, freed, lost, handled, slot, dpc>>
    BY <1>1 DEF StartWork, hypervisor, guest
  <2>2. /\ work' \in Messages /\ ToSet(works) = {work'} \cup ToSet(works')
        /\ Rising(works') /\ Before({work'}, ToSet(works'))
    BY <2>1, RisingTail DEF IInv, TypeOK, OInv
  <2>3. One(work) = {} /\ One(work') = {work'} /\ Lying' = Lying
    BY <2>1, <2>2, NoneIsNoMessage DEF One, Lying
  <2>4. Behind' = Behind /\ Coming' = Coming
    BY <2>1, <2>2, <2>3 DEF Coming, Behind
  <2>5. PartsInOrder'
    BY <2>1, <2>2, <2>3, <2>4 DEF OInv, PartsInOrder
  <2> QED
    BY <2>1, <2>2, <2>4, <2>5 DEF OInv
<1>2. CASE OnChannelMessage
  <2>1. /\ work # None /\ work' = None /\ freed' = freed \cup {work}
        /\ handled' = IF work \in Unhandled THEN handled ELSE Append(handled, work)
        /\ UNCHANGED <<copied, works, queue, posted, lost, slot, dpc>>
    BY <1>2 DEF OnChannelMessage, hypervisor, guest
  <2>2. work \in Messages /\ handled \in Seq(Messages)
    BY <2>1 DEF IInv, TypeOK
  <2>3. One(work) = {work} /\ One(work') = {} /\ Lying' = Lying
    BY <2>1 DEF One, Lying
  <2>4. work \in Coming /\ Behind' = Behind /\ work \in Nat
    BY <2>1, <2>2, <2>3 DEF Coming, Behind, Messages
  <2>5. Before({work}, ToSet(works) \cup One(copied) \cup Behind)
    BY <2>3 DEF OInv, PartsInOrder, Before
  <2>6. Coming' = ToSet(works) \cup One(copied) \cup Behind
    BY <2>1, <2>3, <2>4 DEF Coming
  <2>7. Coming' = Coming \ {work}
    BY <2>3, <2>4, <2>5, <2>6 DEF Coming, Before
  <2>8. Before(freed', Coming')
    BY <2>1, <2>5, <2>6, <2>7 DEF OInv, Before
  <2>9. Rising(handled') /\ ToSet(handled') = freed' \ Unhandled
    <3>1. Before(ToSet(handled), {work})
      BY <2>4 DEF OInv, Before
    <3>2. CASE work \in Unhandled
      BY <2>1, <3>2 DEF OInv
    <3>3. CASE work \notin Unhandled
      <4>1. ToSet(handled') = ToSet(handled) \cup {work} /\ Rising(handled')
        BY <2>1, <2>2, <3>1, <3>3, RisingAppend DEF OInv
      <4> QED
        BY <2>1, <3>3, <4>1 DEF OInv
    <3> QED
      BY <3>2, <3>3
  <2>10. PartsInOrder'
    BY <2>1, <2>3, <2>4 DEF OInv, PartsInOrder, Before
  <2> QED
    BY <2>1, <2>4, <2>7, <2>8, <2>9, <2>10 DEF OInv
<1> QED
  BY <1>1, <1>2 DEF Worker

\* Every step keeps the order.
LEMMA OrderKept == IInv /\ OInv /\ [Next]_vars => OInv'
<1> SUFFICES ASSUME IInv, OInv, [Next]_vars PROVE OInv'
  OBVIOUS
<1>1. CASE Next
  BY <1>1, PostKeepsOrder, RescanKeepsOrder, DpcKeepsOrder, WorkerKeepsOrder
  DEF Next, Hypervisor
<1>2. CASE UNCHANGED vars
  BY <1>2, PartsStay DEF vars, hypervisor, guest, worker, Lying
<1> QED
  BY <1>1, <1>2

\* Messages reach their handlers in the order the host posted them, none twice, and none
\* is lost between the slot, the DPC, the work queue and its thread but those whose work
\* item could not be allocated.
THEOREM MessagesInOrder == Spec => []HandledInOrder
<1>1. Init => IInv /\ OInv
  BY InitHolds, OrderInit
<1>2. IInv /\ OInv /\ [Next]_vars => IInv' /\ OInv'
  BY NextKeeps, OrderKept
<1> QED
  BY <1>1, <1>2, WayIsParts, PTL DEF Spec

-----------------------------------------------------------------------------
(* The offers and the life of the bus.                                     *)

Results == {"opened", "not opened"}
Responses == {"supported", "unsupported"}
Whats == {"offer", "rescind", "release"} \cup Results \cup Responses
Items == [what : Whats, r : 0 .. MaxOffers]
ControlSteps == {"idle", "check", "create", "add", "asked", "wait", "added", "stuck",
                 "remove"} \cup Results

\* The types, with what the queues are sequences of.
OfferTypes ==
  /\ offered \in Seq(Instances) /\ Len(offered) <= MaxOffers
  /\ todo \in Seq(Items)
  /\ control \in [Relids -> Seq({"offer", "rescind"})]
  /\ at \in [Relids -> ControlSteps]
  /\ list \in Seq(Relids)
  /\ rescinded \cup device \cup driver \cup opened \cup isOpenState \cup torn \cup released
       \subseteq Relids
  /\ dropped \subseteq Items
StateTypes ==
  /\ stage \in ExitStages \cup Glue \cup {"hv", "pages", "connect", "wait", "supported",
                                          "unsupported", "request", "up", "failed"}
  /\ held \subseteq Resources /\ granted \subseteq Pages
  /\ misused \subseteq Resources \cup {"device"}
  /\ hypercallPage \in BOOLEAN /\ connected \in BOOLEAN /\ requested \in BOOLEAN
  /\ failed \in BOOLEAN /\ quiet \in BOOLEAN
  /\ hostConn \in {"none", "asked", "connected", "unloading"}

\* Nothing is done for a channel that was not offered.
TodoKnown == \A k \in DOMAIN todo : todo[k].what \notin Responses => todo[k].r \in Known
ChannelKnown(r) ==
  at[r] # "idle" \/ control[r] # <<>> \/ ListedChannel(r) \/ r \in torn => r \in Known
OnlyOffered == TodoKnown /\ \A r \in Relids : ChannelKnown(r)

\* What the connection's queue has for a channel.
Result(x, r) == x.what \in Results /\ x.r = r
OfferQueued(r) == \E k \in DOMAIN todo : todo[k] = Item("offer", r)
ResultQueued(r) == \E k \in DOMAIN todo : Result(todo[k], r)
OneOfEach(r) ==
  \A j, k \in DOMAIN todo :
    \/ todo[j] = Item("offer", r) /\ todo[k] = Item("offer", r)
    \/ Result(todo[j], r) /\ Result(todo[k], r)
    => j = k

\* Each channel is offered once, and found in the list, or torn down, after that.
New(r) == ~ ListedChannel(r) /\ r \notin torn
OfferOnce(r) ==
  /\ OfferQueued(r) => at[r] = "idle" /\ control[r] = <<>> /\ New(r)
  /\ control[r] = <<"offer">> => at[r] = "idle" /\ New(r)
  /\ control[r] = <<"offer">> \/ \A k \in DOMAIN control[r] : control[r][k] = "rescind"
  /\ at[r] = "check" => control[r] = <<>> /\ New(r)

\* A thread waits for the result that is queued for it; a channel that is torn
\* down has nothing to do; one that is listed and at work has a device.
QuietChannel(r) ==
  /\ OneOfEach(r)
  /\ OfferOnce(r)
  /\ ResultQueued(r) => at[r] = "wait"
  /\ r \in torn => at[r] = "idle" /\ control[r] = <<>> /\ ~ ListedChannel(r)
  /\ ListedChannel(r) => at[r] = "create" \/ r \in device

\* While the exit is alone, all that is left to do is to release channels.
ExitIsAlone ==
  Exiting =>
    /\ \A r \in Relids : at[r] = "idle" /\ control[r] = <<>>
    /\ \A k \in DOMAIN todo : todo[k].what = "release"

QuietInv == quiet => ExitIsAlone /\ \A r \in Relids : QuietChannel(r)

OfferInv == OnlyOffered /\ OneChannelPerInstance /\ QuietInv

\* Until the offers are requested there are none, and the only message is the
\* response VmbusConnect waits for.
NoOffers ==
  /\ offered = <<>> /\ list = <<>> /\ torn = {}
  /\ \A r \in Relids : at[r] = "idle" /\ control[r] = <<>>
NoResponse == \A k \in DOMAIN todo : todo[k].what \notin Responses
Response == IF hostConn = "connected" THEN "supported" ELSE "unsupported"
BeforeOffers ==
  /\ requested => stage \in {"up"} \cup ExitStages /\ ~ failed /\ NoResponse
  /\ ~ requested =>
       /\ NoOffers
       /\ todo = <<>> \/ (stage = "wait" /\ hostConn # "asked" /\ todo = <<Item(Response, 0)>>)

\* What the initialisation has when it comes to a step.
Hv == {"hypercall", "signal"}
HeldBefore ==
  /\ stage = "hv" => held = {}
  /\ stage = "msg_swi" => held = Hv
  /\ stage = "event_swi" => held = Hv \cup {"msg_swi"}
  /\ stage = "irq" => held = Hv \cup {"msg_swi", "event_swi"}
  /\ stage = "intr" => held = Hv \cup {"msg_swi", "event_swi", "irq"}
  /\ stage = "pages" => held = Hv \cup Glue
  /\ stage = "connect" => held = Hv \cup Glue \cup {"synic"}
  /\ stage \in {"wait", "supported", "unsupported", "request", "up"} => held = Resources

\* What is still there at each step of the exit, or of a failed initialisation.
HeldAfter ==
  /\ stage \in {"release", "disconnect"} /\ ~ failed => held = Resources
  /\ stage = "close" => held = Resources \ {"intpage", "msglock"}
  /\ stage \in {"synic", "hv_cleanup"} /\ ~ failed => Hv \subseteq held
  /\ stage \in {"synic", "hv_cleanup", "teardown"} /\ ~ failed => Glue \subseteq held
  /\ failed => held \subseteq Hv \cup {"synic"}
  /\ stage \in {"hv_cleanup", "teardown", "gone"} => "synic" \notin held
  /\ stage \in {"teardown", "gone"} => held \cap Hv = {}
  /\ stage = "gone" => held \cap Glue = {}
  /\ stage \in {"synic", "hv_cleanup", "teardown", "gone"} /\ ~ connected =>
       held \cap Connection \subseteq {"monitor", "chanlock"}

\* What the host believes at each step.
Connections ==
  /\ connected => stage \in {"request", "up"} \cup ExitStages
  /\ stage \in {"request", "up"} => connected
  /\ stage \in {"release", "disconnect", "close"} /\ ~ failed => connected
  /\ failed => ~ connected /\ hostConn = "none" /\ stage \in {"failed"} \cup ExitStages
  /\ stage = "failed" => failed
  /\ stage = "close" => ~ failed
  /\ hostConn = "asked" => stage = "wait"
  /\ hostConn = "connected" =>
       /\ stage \in {"wait", "supported", "request", "up"} \cup ExitStages
       /\ Connection \subseteq held
  /\ stage \in {"supported", "request", "up"} => hostConn = "connected"
  /\ hostConn = "unloading" => Exiting /\ {"monitor", "chanlock"} \subseteq held

\* What the hypervisor and the host can reach.
Reached ==
  /\ "synic" \in granted <=> "synic" \in held
  /\ "hypercall" \in granted <=> hypercallPage /\ "hypercall" \in held
  /\ "intpage" \in granted \/ "monitor" \in granted => hostConn \in {"connected", "unloading"}

Careful ==
  /\ ~ Exiting => quiet
  /\ MisuseIsKnown

HoldInv == HeldBefore /\ HeldAfter /\ Connections /\ Reached

BusInv == OfferTypes /\ StateTypes /\ OfferInv /\ BeforeOffers /\ HoldInv /\ Careful

\* A set of numbers has a least one.
LEMMA MinOfNaturals ==
  ASSUME NEW S \in SUBSET Nat, S # {}
  PROVE  Min(S) \in S
<1>1. IsWellFoundedOn(OpToRel(<, Nat), Nat)
  BY NatLessThanWellFounded
<1>2. PICK x \in S : \A y \in S : <<y, x>> \notin OpToRel(<, Nat)
  BY <1>1, WFMin
<1>3. \A y \in S : ~(y < x)
  BY <1>2 DEF OpToRel
<1>4. \A y \in S : x <= y
  BY <1>3
<1> QED
  BY <1>4 DEF Min

-----------------------------------------------------------------------------
(* The sequences.                                                          *)

\* What Append adds is behind everything that was there.
LEMMA Appended ==
  ASSUME NEW S, NEW s \in Seq(S), NEW x \in S
  PROVE  /\ Append(s, x) \in Seq(S)
         /\ \A k \in DOMAIN s : k \in DOMAIN Append(s, x) /\ Append(s, x)[k] = s[k]
         /\ Len(s) + 1 \notin DOMAIN s /\ Len(s) + 1 \in DOMAIN Append(s, x)
         /\ \A k \in DOMAIN Append(s, x) :
              \/ k \in DOMAIN s /\ Append(s, x)[k] = s[k]
              \/ k = Len(s) + 1 /\ Append(s, x)[k] = x
<1>1. Len(s) \in Nat /\ DOMAIN s = 1 .. Len(s)
  BY LenProperties
<1>2. /\ Append(s, x) \in Seq(S) /\ Len(Append(s, x)) = Len(s) + 1
      /\ \A i \in 1 .. Len(s) : Append(s, x)[i] = s[i]
      /\ Append(s, x)[Len(s) + 1] = x
  BY AppendProperties
<1>3. DOMAIN Append(s, x) = 1 .. Len(s) + 1
  BY <1>2, LenProperties
<1> QED BY <1>1, <1>2, <1>3

\* What Tail leaves is one place further to the front.
LEMMA Tailed ==
  ASSUME NEW S, NEW s \in Seq(S), s # <<>>
  PROVE  /\ Tail(s) \in Seq(S) /\ Head(s) \in S
         /\ 1 \in DOMAIN s /\ Head(s) = s[1]
         /\ \A k \in DOMAIN Tail(s) :
              /\ k \in Int /\ k + 1 # 1 /\ k + 1 \in DOMAIN s /\ Tail(s)[k] = s[k + 1]
<1>1. Len(s) \in Nat \ {0} /\ DOMAIN s = 1 .. Len(s)
  BY LenProperties, EmptySeq
<1>2. /\ Head(s) \in S /\ Tail(s) \in Seq(S) /\ Len(Tail(s)) = Len(s) - 1
      /\ \A i \in 1 .. Len(Tail(s)) : Tail(s)[i] = s[i + 1]
  BY HeadTailProperties
<1>3. DOMAIN Tail(s) = 1 .. Len(s) - 1
  BY <1>2, LenProperties
<1>4. Head(s) = s[1]
  BY <1>1
<1> QED BY <1>1, <1>2, <1>3, <1>4

\* What FreeVmbusChannel queues is behind everything that was there.
LEMMA Concatenated ==
  ASSUME NEW S, NEW s \in Seq(S), NEW t \in Seq(S)
  PROVE  /\ s \o t \in Seq(S)
         /\ \A k \in DOMAIN s : k \in DOMAIN (s \o t) /\ (s \o t)[k] = s[k]
         /\ \A k \in DOMAIN (s \o t) :
              \/ k \in DOMAIN s /\ (s \o t)[k] = s[k]
              \/ \E i \in DOMAIN t : (s \o t)[k] = t[i]
<1>1. /\ Len(s) \in Nat /\ DOMAIN s = 1 .. Len(s)
      /\ Len(t) \in Nat /\ DOMAIN t = 1 .. Len(t)
  BY LenProperties
<1>2. /\ s \o t \in Seq(S) /\ Len(s \o t) = Len(s) + Len(t)
      /\ \A i \in 1 .. Len(s) + Len(t) :
           (s \o t)[i] = IF i <= Len(s) THEN s[i] ELSE t[i - Len(s)]
  BY ConcatProperties
<1>3. DOMAIN (s \o t) = 1 .. Len(s) + Len(t)
  BY <1>2, LenProperties
<1>4. \A k \in DOMAIN s : k \in DOMAIN (s \o t) /\ (s \o t)[k] = s[k]
  BY <1>1, <1>2, <1>3
<1>5. ASSUME NEW k \in DOMAIN (s \o t)
      PROVE  \/ k \in DOMAIN s /\ (s \o t)[k] = s[k]
             \/ \E i \in DOMAIN t : (s \o t)[k] = t[i]
  <2>1. CASE k <= Len(s) BY <1>1, <1>2, <1>3, <2>1
  <2>2. CASE ~ (k <= Len(s))
    <3>1. k - Len(s) \in DOMAIN t /\ (s \o t)[k] = t[k - Len(s)]
      BY <1>1, <1>2, <1>3, <2>2
    <3> QED BY <3>1
  <2> QED BY <2>1, <2>2
<1> QED BY <1>2, <1>4, <1>5

\* What is left of a sequence without the first n.
LEMMA RestOfSeq ==
  ASSUME NEW S, NEW s \in Seq(S), NEW n \in 0 .. Len(s)
  PROVE  /\ SubSeq(s, n + 1, Len(s)) \in Seq(S)
         /\ Len(SubSeq(s, n + 1, Len(s))) = Len(s) - n
         /\ \A i \in 1 .. Len(s) - n : SubSeq(s, n + 1, Len(s))[i] = s[n + i]
<1> DEFINE m == n + 1
           l == Len(s)
<1>1. l \in Nat /\ m \in Int /\ l \in Int /\ \A i \in m .. l : s[i] \in S
  BY LenProperties, ElementOfSeq
<1> HIDE DEF m, l
<1>2. /\ SubSeq(s, m, l) \in Seq(S)
      /\ Len(SubSeq(s, m, l)) = IF m <= l THEN l - m + 1 ELSE 0
      /\ \A i \in 1 .. l - m + 1 : SubSeq(s, m, l)[i] = s[m + i - 1]
  BY <1>1, SubSeqProperties
<1> DEFINE q == SubSeq(s, m, l)
<1> HIDE DEF q
<1>3. q \in Seq(S) /\ Len(q) = l - n /\ \A i \in 1 .. l - n : q[i] = s[n + i]
  <2>1. m = n + 1 /\ n \in 0 .. l
    BY <1>1 DEF m, l
  <2>2. /\ q \in Seq(S)
        /\ Len(q) = IF m <= l THEN l - m + 1 ELSE 0
        /\ \A i \in 1 .. l - m + 1 : q[i] = s[m + i - 1]
    BY <1>2 DEF q
  <2>3. l - m + 1 = l - n /\ (~ (m <= l) => l - n = 0) /\ \A i \in Int : m + i - 1 = n + i
    BY <1>1, <2>1
  <2> QED BY <2>2, <2>3
<1> QED BY <1>3 DEF q, m, l

LEMMA ItemsAreItems ==
  ASSUME NEW what \in Whats, NEW r \in 0 .. MaxOffers
  PROVE  Item(what, r) \in Items /\ Item(what, r).what = what /\ Item(what, r).r = r
BY DEF Item, Items

LEMMA BoundIsNatural == MaxOffers \in Nat
BY OffersAssumption

LEMMA RelidsAreNumbers == Relids \subseteq 0 .. MaxOffers
BY BoundIsNatural DEF Relids

\* The types are those of the model.
LEMMA TypesAreRight == OfferTypes /\ StateTypes => BusLifeTypeOK
<1> SUFFICES ASSUME OfferTypes, StateTypes PROVE BusLifeTypeOK
  OBVIOUS
<1>1. offered \in BoundedSeq(Instances, MaxOffers)
  <2>1. Len(offered) \in 0 .. MaxOffers /\ offered \in [1 .. Len(offered) -> Instances]
    BY LenProperties, BoundIsNatural DEF OfferTypes
  <2> QED BY <2>1 DEF BoundedSeq, SeqOf
<1>2. \A k \in DOMAIN todo : todo[k].what \in ItemKinds
  <2>1. ASSUME NEW k \in DOMAIN todo PROVE todo[k].what \in Whats
    <3>1. todo \in Seq(Items) BY DEF OfferTypes
    <3>2. todo[k] \in Items BY <3>1, LenProperties, ElementOfSeq
    <3> QED BY <3>2 DEF Items
  <2> QED BY <2>1 DEF Whats, Results, Responses, ItemKinds
<1>d. \A d \in dropped : d.what \in ItemKinds
  <2>1. \A d \in dropped : d.what \in Whats
    BY DEF OfferTypes, Items
  <2> QED BY <2>1 DEF Whats, Results, Responses, ItemKinds
<1>3. \A r \in Relids : ToSet(control[r]) \subseteq {"offer", "rescind"}
  <2>1. ASSUME NEW r \in Relids PROVE ToSet(control[r]) \subseteq {"offer", "rescind"}
    <3>1. control[r] \in Seq({"offer", "rescind"}) BY DEF OfferTypes
    <3>2. \A k \in DOMAIN control[r] : control[r][k] \in {"offer", "rescind"}
      BY <3>1, LenProperties, ElementOfSeq
    <3> QED BY <3>2 DEF ToSet
  <2> QED BY <2>1
<1>4. ToSet(list) \subseteq Relids
  <2>1. list \in Seq(Relids) BY DEF OfferTypes
  <2>2. \A k \in DOMAIN list : list[k] \in Relids BY <2>1, LenProperties, ElementOfSeq
  <2> QED BY <2>2 DEF ToSet
<1>5. OffersTypeOK
  BY <1>1, <1>2, <1>d, <1>3, <1>4 DEF OffersTypeOK, OfferTypes, ControlSteps, Results
<1>6. {hypercallPage, connected, requested, failed, quiet} \subseteq BOOLEAN
  BY Zenon DEF StateTypes
<1> QED BY <1>5, <1>6 DEF BusLifeTypeOK, StateTypes

\* Unattached is the front of the list, and what is left is the rest.
LEMMA UnattachedIsPrefix ==
  ASSUME OfferTypes
  PROVE  \E n \in 0 .. Len(list) :
           /\ Unattached = SubSeq(list, 1, n) /\ Len(Unattached) = n
<1> DEFINE I == {i \in 1 .. Len(list) : list[i] \in driver}
<1>1. list \in Seq(Relids) /\ Len(list) \in Nat
  BY LenProperties DEF OfferTypes
<1>2. FirstAttached = IF I # {} THEN Min(I) ELSE 0
  BY DEF FirstAttached, SelectInSeq
<1>3. FirstAttached \in 0 .. Len(list)
  <2>1. CASE I = {} BY <1>1, <1>2, <2>1
  <2>2. CASE I # {}
    <3>1. I \subseteq Nat OBVIOUS
    <3>2. Min(I) \in I BY <2>2, <3>1, MinOfNaturals
    <3> QED BY <1>1, <1>2, <2>2, <3>2
  <2> QED BY <2>1, <2>2
<1>4. CASE FirstAttached = 0
  <2>1. Unattached = list /\ SubSeq(list, 1, Len(list)) = list
    BY <1>1, <1>4, SubSeqFull DEF Unattached
  <2>2. Len(list) \in 0 .. Len(list)
    BY <1>1
  <2>3. Unattached = SubSeq(list, 1, Len(list)) /\ Len(Unattached) = Len(list)
    BY <2>1
  <2> QED BY <2>2, <2>3
<1>5. CASE FirstAttached # 0
  <2> DEFINE n == FirstAttached - 1
  <2>1. n \in 0 .. Len(list) /\ Unattached = SubSeq(list, 1, n)
    BY <1>1, <1>3, <1>5 DEF Unattached
  <2>2. \A i \in 1 .. n : list[i] \in Relids
    BY <1>1, <2>1, ElementOfSeq
  <2>3. Len(Unattached) = n
    BY <2>1, <2>2, SubSeqProperties
  <2> QED BY <2>1, <2>3
<1> QED BY <1>4, <1>5

\* The release moves each channel from the list to those that are torn down, or leaves it.
LEMMA ReleaseSplits ==
  ASSUME OfferTypes, ReleaseUnattachedChannels
  PROVE  /\ list' \in Seq(Relids)
         /\ ToSet(Unattached) \subseteq Relids
         /\ \A r \in ToSet(Unattached) : ListedChannel(r)
         /\ \A r : ListedChannel(r)' => ListedChannel(r)
         /\ \E n \in 0 .. Len(list) :
              /\ \A k \in DOMAIN list' :
                   k \in Nat /\ k + n \in DOMAIN list /\ k + n > n /\ list'[k] = list[k + n]
              /\ \A r \in ToSet(Unattached) : \E j \in DOMAIN list : j <= n /\ list[j] = r
<1>1. PICK n \in 0 .. Len(list) : Unattached = SubSeq(list, 1, n) /\ Len(Unattached) = n
  BY UnattachedIsPrefix
<1>2. list \in Seq(Relids) /\ Len(list) \in Nat /\ DOMAIN list = 1 .. Len(list)
  BY LenProperties DEF OfferTypes
<1>3. \A i \in 1 .. Len(list) : list[i] \in Relids
  BY <1>2, ElementOfSeq
<1>4. list' = SubSeq(list, n + 1, Len(list))
  BY <1>1 DEF ReleaseUnattachedChannels
<1>5. /\ list' \in Seq(Relids) /\ Len(list') = Len(list) - n
      /\ \A i \in 1 .. Len(list) - n : list'[i] = list[n + i]
  <2>1. /\ SubSeq(list, n + 1, Len(list)) \in Seq(Relids)
        /\ Len(SubSeq(list, n + 1, Len(list))) = Len(list) - n
        /\ \A i \in 1 .. Len(list) - n : SubSeq(list, n + 1, Len(list))[i] = list[n + i]
    BY <1>2, RestOfSeq
  <2> QED BY <1>4, <2>1
<1>6. DOMAIN list' = 1 .. Len(list) - n
  BY <1>5, LenProperties
<1>7. \A k \in DOMAIN list' :
        k \in Nat /\ k + n \in DOMAIN list /\ k + n > n /\ list'[k] = list[k + n]
  BY <1>2, <1>5, <1>6
<1>8. /\ Unattached \in Seq(Relids)
      /\ \A i \in 1 .. n : Unattached[i] = list[i]
  <2>1. \A i \in 1 .. n : list[i] \in Relids
    BY <1>2, <1>3
  <2>2. /\ SubSeq(list, 1, n) \in Seq(Relids)
        /\ \A i \in 1 .. n - 1 + 1 : SubSeq(list, 1, n)[i] = list[1 + i - 1]
    BY <2>1, SubSeqProperties
  <2> QED BY <1>1, <2>2
<1>9. DOMAIN Unattached = 1 .. n
  BY <1>1, <1>8, LenProperties
<1>10. \A r \in ToSet(Unattached) : \E j \in DOMAIN list : j <= n /\ list[j] = r
  BY <1>2, <1>8, <1>9 DEF ToSet
<1>11. /\ ToSet(Unattached) \subseteq Relids
       /\ \A r \in ToSet(Unattached) : ListedChannel(r)
  BY <1>2, <1>3, <1>10 DEF ListedChannel, ToSet
<1>12. \A r : ListedChannel(r)' => ListedChannel(r)
  BY <1>7 DEF ListedChannel, ToSet
<1> QED BY <1>5, <1>7, <1>10, <1>11, <1>12

-----------------------------------------------------------------------------
(* The connection's queue.                                                 *)

LEMMA QueueTaken ==
  ASSUME OfferTypes, todo # <<>>, todo' = Tail(todo)
  PROVE  /\ todo' \in Seq(Items) /\ Head(todo) \in Items
         /\ \E j \in DOMAIN todo : todo[j] = Head(todo)
         /\ \A k \in DOMAIN todo' : \E j \in DOMAIN todo : todo'[k] = todo[j]
         /\ \A r : /\ OneOfEach(r) => OneOfEach(r)'
                   /\ OfferQueued(r)' => OfferQueued(r)
                   /\ ResultQueued(r)' => ResultQueued(r)
         /\ \A r : Head(todo) = Item("offer", r) =>
                     OfferQueued(r) /\ (OneOfEach(r) => ~ OfferQueued(r)')
         /\ \A r : Result(Head(todo), r) =>
                     ResultQueued(r) /\ (OneOfEach(r) => ~ ResultQueued(r)')
<1>1. todo \in Seq(Items)
  BY DEF OfferTypes
<1>2. /\ todo' \in Seq(Items) /\ Head(todo) \in Items
      /\ 1 \in DOMAIN todo /\ Head(todo) = todo[1]
      /\ \A k \in DOMAIN todo' :
           k \in Int /\ k + 1 # 1 /\ k + 1 \in DOMAIN todo /\ todo'[k] = todo[k + 1]
  BY <1>1, Tailed
<1>3. \A k \in DOMAIN todo' : \E j \in DOMAIN todo : todo'[k] = todo[j]
  BY <1>2
<1>4. ASSUME NEW r, OneOfEach(r) PROVE OneOfEach(r)'
  <2> SUFFICES ASSUME NEW j \in DOMAIN todo', NEW k \in DOMAIN todo',
                      \/ todo'[j] = Item("offer", r) /\ todo'[k] = Item("offer", r)
                      \/ Result(todo'[j], r) /\ Result(todo'[k], r)
               PROVE  j = k
    BY DEF OneOfEach, Result
  <2>1. \/ todo[j + 1] = Item("offer", r) /\ todo[k + 1] = Item("offer", r)
        \/ Result(todo[j + 1], r) /\ Result(todo[k + 1], r)
    BY <1>2
  <2>2. j + 1 = k + 1
    BY <1>2, <1>4, <2>1 DEF OneOfEach
  <2> QED BY <1>2, <2>2
<1>5. \A r : (OfferQueued(r)' => OfferQueued(r)) /\ (ResultQueued(r)' => ResultQueued(r))
  BY <1>3 DEF OfferQueued, ResultQueued, Result
<1>6. ASSUME NEW r, Head(todo) = Item("offer", r)
      PROVE  OfferQueued(r) /\ (OneOfEach(r) => ~ OfferQueued(r)')
  <2>1. OfferQueued(r)
    BY <1>2, <1>6 DEF OfferQueued
  <2>2. ASSUME OneOfEach(r), NEW k \in DOMAIN todo', todo'[k] = Item("offer", r) PROVE FALSE
    <3>1. todo[1] = Item("offer", r) /\ todo[k + 1] = Item("offer", r)
      BY <1>2, <1>6, <2>2
    <3> QED BY <1>2, <2>2, <3>1 DEF OneOfEach
  <2> QED BY <2>1, <2>2 DEF OfferQueued
<1>7. ASSUME NEW r, Result(Head(todo), r)
      PROVE  ResultQueued(r) /\ (OneOfEach(r) => ~ ResultQueued(r)')
  <2>1. ResultQueued(r)
    BY <1>2, <1>7 DEF ResultQueued
  <2>2. ASSUME OneOfEach(r), NEW k \in DOMAIN todo', Result(todo'[k], r) PROVE FALSE
    <3>1. Result(todo[1], r) /\ Result(todo[k + 1], r)
      BY <1>2, <1>7, <2>2
    <3> QED BY <1>2, <2>2, <3>1 DEF OneOfEach
  <2> QED BY <2>1, <2>2 DEF ResultQueued, Result
<1> QED BY <1>2, <1>3, <1>4, <1>5, <1>6, <1>7

\* What is for the queue is behind all the rest, or lost.
LEMMA QueueGrows ==
  ASSUME OfferTypes, NEW x \in Items, Queues(x)
  PROVE  /\ todo' \in Seq(Items) /\ dropped' \subseteq Items
         /\ \A k \in DOMAIN todo' : todo'[k] = x \/ \E j \in DOMAIN todo : todo'[k] = todo[j]
         /\ \A r : /\ OfferQueued(r)' => OfferQueued(r) \/ x = Item("offer", r)
                   /\ ResultQueued(r)' => ResultQueued(r) \/ Result(x, r)
         /\ \A r : /\ OneOfEach(r)
                   /\ x = Item("offer", r) => ~ OfferQueued(r)
                   /\ Result(x, r) => ~ ResultQueued(r)
                   => OneOfEach(r)'
<1>1. todo \in Seq(Items)
  BY DEF OfferTypes
<1> DEFINE n == Len(todo) + 1
<1>2. /\ todo' \in Seq(Items) /\ n \notin DOMAIN todo
      /\ \A k \in DOMAIN todo' :
           \/ k \in DOMAIN todo /\ todo'[k] = todo[k]
           \/ k = n /\ todo'[k] = x
  <2>1. CASE todo' = Append(todo, x)
    BY <1>1, <2>1, Appended
  <2>2. CASE todo' = todo
    BY <1>1, <2>2, Appended
  <2> QED BY <2>1, <2>2 DEF Queues
<1>d. dropped' \subseteq Items
  BY DEF Queues, Drops, OfferTypes
<1>3. \A k \in DOMAIN todo' : todo'[k] = x \/ \E j \in DOMAIN todo : todo'[k] = todo[j]
  BY <1>2
<1>4. \A r : /\ OfferQueued(r)' => OfferQueued(r) \/ x = Item("offer", r)
             /\ ResultQueued(r)' => ResultQueued(r) \/ Result(x, r)
  BY <1>3 DEF OfferQueued, ResultQueued, Result
<1>5. ASSUME NEW r, OneOfEach(r),
             x = Item("offer", r) => ~ OfferQueued(r),
             Result(x, r) => ~ ResultQueued(r)
      PROVE  OneOfEach(r)'
  <2> SUFFICES ASSUME NEW j \in DOMAIN todo', NEW k \in DOMAIN todo',
                      \/ todo'[j] = Item("offer", r) /\ todo'[k] = Item("offer", r)
                      \/ Result(todo'[j], r) /\ Result(todo'[k], r)
               PROVE  j = k
    BY DEF OneOfEach, Result
  <2> HIDE DEF n
  <2>1. CASE todo'[j] = Item("offer", r) /\ todo'[k] = Item("offer", r)
    BY <1>2, <1>5, <2>1 DEF OneOfEach, OfferQueued
  <2>2. CASE Result(todo'[j], r) /\ Result(todo'[k], r)
    BY <1>2, <1>5, <2>2 DEF OneOfEach, ResultQueued
  <2> QED BY <2>1, <2>2
<1> QED BY <1>d, <1>2, <1>3, <1>4, <1>5

\* What FreeVmbusChannel queues for the channels, or loses.
LEMMA QueueReleases ==
  ASSUME OfferTypes, NEW rs \in Seq(Relids), FreeVmbusChannels(rs)
  PROVE  /\ todo' \in Seq(Items) /\ dropped' \subseteq Items
         /\ \A k \in DOMAIN todo' :
              \/ \E j \in DOMAIN todo : todo'[k] = todo[j]
              \/ \E r \in ToSet(rs) : todo'[k] = Item("release", r)
         /\ \A r : /\ OneOfEach(r) => OneOfEach(r)'
                   /\ OfferQueued(r)' => OfferQueued(r)
                   /\ ResultQueued(r)' => ResultQueued(r)
<1>1. todo \in Seq(Items)
  BY DEF OfferTypes
<1>a. ToSet(rs) \subseteq Relids
  BY LenProperties, ElementOfSeq DEF ToSet
<1>b. PICK queued \in SUBSET ToSet(rs) :
        /\ Drops({Item("release", r) : r \in ToSet(rs) \ queued})
        /\ \E p \in InOrderOf(rs, queued) :
             todo' = todo \o [k \in DOMAIN p |-> Item("release", p[k])]
  BY DEF FreeVmbusChannels
<1>c. PICK p \in InOrderOf(rs, queued) :
        todo' = todo \o [k \in DOMAIN p |-> Item("release", p[k])]
  BY <1>b
<1>2. Cardinality(queued) \in Nat
  <2>1. IsFiniteSet(Relids)
    BY BoundIsNatural, FS_Interval DEF Relids
  <2> QED BY <1>a, <2>1, FS_Subset, FS_CardinalityType
<1>3. /\ DOMAIN p = 1 .. Cardinality(queued)
      /\ \A k \in DOMAIN p : p[k] \in ToSet(rs) /\ p[k] \in Relids
  BY <1>a DEF InOrderOf
<1>d. \A r \in Relids : Item("release", r) \in Items
  BY ItemsAreItems, RelidsAreNumbers DEF Whats
<1>e. dropped' \subseteq Items
  BY <1>a, <1>b, <1>d DEF Drops, OfferTypes
<1> DEFINE q == [k \in DOMAIN p |-> Item("release", p[k])]
<1>4. /\ q \in Seq(Items) /\ DOMAIN q = DOMAIN p
      /\ \A k \in DOMAIN q : q[k] = Item("release", p[k]) /\ p[k] \in ToSet(rs)
  <2>1. [k \in 1 .. Cardinality(queued) |-> Item("release", p[k])] \in Seq(Items)
    BY <1>2, <1>3, <1>d
  <2> QED BY <1>3, <2>1
<1>f. todo' = todo \o q
  BY <1>c
<1> HIDE DEF q
<1>5. /\ todo' \in Seq(Items)
      /\ \A k \in DOMAIN todo' :
           \/ k \in DOMAIN todo /\ todo'[k] = todo[k]
           \/ \E i \in DOMAIN q : todo'[k] = q[i]
  BY <1>1, <1>4, <1>f, Concatenated
<1>6. \A k \in DOMAIN todo' :
           \/ k \in DOMAIN todo /\ todo'[k] = todo[k]
           \/ \E r \in ToSet(rs) : todo'[k] = Item("release", r)
  BY <1>4, <1>5
<1>7. \A r, s : Item("release", s) # Item("offer", r) /\ ~ Result(Item("release", s), r)
  BY DEF Item, Result, Results
<1>8. \A k \in DOMAIN todo' :
        \A r : todo'[k] = Item("offer", r) \/ Result(todo'[k], r) =>
                 k \in DOMAIN todo /\ todo'[k] = todo[k]
  BY <1>6, <1>7
<1>9. \A r : /\ OfferQueued(r)' => OfferQueued(r)
             /\ ResultQueued(r)' => ResultQueued(r)
  BY <1>8 DEF OfferQueued, ResultQueued, Result
<1>10. ASSUME NEW r, OneOfEach(r) PROVE OneOfEach(r)'
  <2> SUFFICES ASSUME NEW j \in DOMAIN todo', NEW k \in DOMAIN todo',
                      \/ todo'[j] = Item("offer", r) /\ todo'[k] = Item("offer", r)
                      \/ Result(todo'[j], r) /\ Result(todo'[k], r)
               PROVE  j = k
    BY DEF OneOfEach, Result
  <2>1. j \in DOMAIN todo /\ todo'[j] = todo[j] /\ k \in DOMAIN todo /\ todo'[k] = todo[k]
    BY <1>8
  <2> QED BY <1>10, <2>1 DEF OneOfEach
<1>11. \A k \in DOMAIN todo' :
           \/ \E j \in DOMAIN todo : todo'[k] = todo[j]
           \/ \E r \in ToSet(rs) : todo'[k] = Item("release", r)
  BY <1>6
<1> QED BY <1>e, <1>5, <1>9, <1>10, <1>11

-----------------------------------------------------------------------------
(* The channels.                                                           *)

\* Nobody makes the quiet, and the exit neither begins nor ends.
Calm == (quiet' => quiet) /\ (Exiting' <=> Exiting)

\* A step that is about other channels.
SameChannel(r) ==
  /\ at'[r] = at[r] /\ control'[r] = control[r]
  /\ ListedChannel(r)' => ListedChannel(r)
  /\ r \in torn' <=> r \in torn
  /\ r \in device => r \in device'
SameQueue(r) ==
  /\ OneOfEach(r) => OneOfEach(r)'
  /\ OfferQueued(r)' => OfferQueued(r)
  /\ ResultQueued(r)' => ResultQueued(r)

LEMMA ChannelStays ==
  ASSUME NEW r, QuietChannel(r), SameChannel(r), SameQueue(r)
  PROVE  QuietChannel(r)'
<1>1. New(r) => New(r)'
  BY DEF New, SameChannel
<1>2. OfferOnce(r)'
  BY <1>1 DEF OfferOnce, QuietChannel, SameChannel, SameQueue
<1> QED BY <1>2 DEF QuietChannel, SameChannel, SameQueue

LEMMA ListStays ==
  ASSUME list' = list
  PROVE  \A r : ListedChannel(r)' <=> ListedChannel(r)
BY DEF ListedChannel

LEMMA QueueStays ==
  ASSUME todo' = todo
  PROVE  \A r : SameQueue(r)
BY DEF SameQueue, OneOfEach, OfferQueued, ResultQueued, Result

\* While the exit is alone no thread of a channel has anything to do.
LEMMA NobodyAtWork ==
  ASSUME OfferInv, quiet, NEW r \in Relids, at[r] # "idle" \/ control[r] # <<>>
  PROVE  ~ Exiting
BY DEF OfferInv, QuietInv, ExitIsAlone

LEMMA OnlyReleases ==
  ASSUME OfferInv, quiet, Exiting, OfferTypes, todo # <<>>
  PROVE  Head(todo).what = "release"
<1>1. \A k \in DOMAIN todo : todo[k].what = "release"
  BY DEF OfferInv, QuietInv, ExitIsAlone
<1>2. todo \in Seq(Items)
  BY DEF OfferTypes
<1> QED BY <1>1, <1>2, Tailed

\* The steps of a control thread that leave the queue and the list alone.
LEMMA OneChannelSteps ==
  ASSUME OfferInv, Calm, NEW r \in Relids,
         at[r] # "idle" \/ control[r] # <<>>,
         offered' = offered, list' = list, todo' = todo, torn' = torn,
         \A s \in Relids \ {r} : at'[s] = at[s] /\ control'[s] = control[s],
         device \subseteq device',
         QuietChannel(r) => QuietChannel(r)'
  PROVE  OfferInv'
<1>1. Known' = Known /\ r \in Known
  BY DEF Known, OfferInv, OnlyOffered, ChannelKnown
<1>2. \A s : (ListedChannel(s)' <=> ListedChannel(s)) /\ SameQueue(s)
  BY ListStays, QueueStays
<1>3. OnlyOffered'
  <2>1. TodoKnown'
    BY <1>1 DEF OfferInv, OnlyOffered, TodoKnown
  <2>2. ASSUME NEW s \in Relids PROVE ChannelKnown(s)'
    <3>1. CASE s = r BY <1>1, <3>1 DEF ChannelKnown
    <3>2. CASE s # r BY <1>1, <1>2, <3>2 DEF ChannelKnown, OfferInv, OnlyOffered
    <3> QED BY <3>1, <3>2
  <2> QED BY <2>1, <2>2 DEF OnlyOffered
<1>4. OneChannelPerInstance'
  BY DEF OneChannelPerInstance, OfferInv
<1>5. ASSUME quiet' PROVE ExitIsAlone' /\ \A s \in Relids : QuietChannel(s)'
  <2>1. quiet /\ ~ Exiting'
    BY <1>5, NobodyAtWork DEF Calm
  <2>2. ASSUME NEW s \in Relids PROVE QuietChannel(s)'
    <3>1. QuietChannel(s)
      BY <2>1 DEF OfferInv, QuietInv
    <3>2. CASE s = r BY <3>1, <3>2
    <3>3. CASE s # r
      <4>1. SameChannel(s) BY <1>2, <3>3 DEF SameChannel
      <4> QED BY <1>2, <3>1, <4>1, ChannelStays
    <3> QED BY <3>2, <3>3
  <2> QED BY <2>1, <2>2 DEF ExitIsAlone
<1> QED BY <1>3, <1>4, <1>5 DEF OfferInv, QuietInv

\* The first six steps of VmbusChannelProcessOffer and of the rescind.
LEMMA ControlKeeps ==
  ASSUME OfferTypes, OfferInv, Calm, NEW r \in Relids,
         \/ Begin(r) \/ ChildDeviceCreate(r) \/ ChildDeviceAdd(r) \/ OpenReturns(r)
         \/ Added(r) \/ ProcessRescindOffer(r)
  PROVE  OfferTypes' /\ OfferInv'
<1> DEFINE Touched == /\ offered' = offered /\ list' = list /\ todo' = todo /\ torn' = torn
                      /\ at[r] # "idle" \/ control[r] # <<>>
                      /\ \A s \in Relids \ {r} : at'[s] = at[s] /\ control'[s] = control[s]
                      /\ device \subseteq device'
<1>1. \A s : (ListedChannel(s)' <=> ListedChannel(s)) /\ SameQueue(s)
  <2>1. list' = list /\ todo' = todo
    BY DEF Begin, ChildDeviceCreate, ChildDeviceAdd, OpenReturns, Added, ProcessRescindOffer
  <2> QED BY <2>1, ListStays, QueueStays
<1>2. ASSUME torn' = torn PROVE New(r)' <=> New(r)
  BY <1>1, <1>2 DEF New
<1>3. CASE Begin(r)
  <2>1. /\ at' = [at EXCEPT ![r] = IF Head(control[r]) = "offer" THEN "check" ELSE "remove"]
        /\ control' = [control EXCEPT ![r] = Tail(control[r])]
        /\ at[r] = "idle" /\ control[r] # <<>>
        /\ UNCHANGED <<offered, rescinded, todo, list, device, driver, opened, isOpenState, torn,
                       released, dropped>>
    BY <1>3 DEF Begin, Goes
  <2>2. control[r] \in Seq({"offer", "rescind"})
    BY DEF OfferTypes
  <2>3. /\ Tail(control[r]) \in Seq({"offer", "rescind"})
        /\ Head(control[r]) = control[r][1] /\ 1 \in DOMAIN control[r]
        /\ \A k \in DOMAIN Tail(control[r]) :
             k + 1 \in DOMAIN control[r] /\ Tail(control[r])[k] = control[r][k + 1]
    BY <2>1, <2>2, Tailed
  <2>4. OfferTypes'
    BY <2>1, <2>3 DEF OfferTypes, ControlSteps
  <2>5. Touched
    BY <2>1 DEF OfferTypes
  <2>6. /\ at'[r] = IF Head(control[r]) = "offer" THEN "check" ELSE "remove"
        /\ control'[r] = Tail(control[r])
    BY <2>1 DEF OfferTypes
  <2>7. ASSUME QuietChannel(r) PROVE QuietChannel(r)'
    <3>1. ~ OfferQueued(r)' /\ ~ ResultQueued(r)' /\ r \notin torn' /\ OneOfEach(r)'
      BY <1>1, <2>1, <2>7 DEF QuietChannel, OfferOnce, SameQueue
    <3>2. ListedChannel(r)' => r \in device'
      BY <1>1, <2>1, <2>7 DEF QuietChannel
    <3>3. CASE control[r] = <<"offer">>
      <4>1. at'[r] = "check" /\ control'[r] = <<>>
        BY <2>3, <2>6, <3>3
      <4>2. New(r)'
        BY <1>2, <2>1, <2>7, <3>3 DEF QuietChannel, OfferOnce
      <4> QED BY <3>1, <3>2, <4>1, <4>2 DEF QuietChannel, OfferOnce
    <3>4. CASE \A k \in DOMAIN control[r] : control[r][k] = "rescind"
      <4>1. at'[r] = "remove" /\ \A k \in DOMAIN control'[r] : control'[r][k] = "rescind"
        BY <2>3, <2>6, <3>4
      <4>2. control'[r] # <<"offer">>
        BY <4>1
      <4> QED BY <3>1, <3>2, <4>1, <4>2 DEF QuietChannel, OfferOnce
    <3> QED BY <2>7, <3>3, <3>4 DEF QuietChannel, OfferOnce
  <2> QED BY <2>4, <2>5, <2>7, OneChannelSteps
<1>4. CASE ChildDeviceCreate(r) \/ ChildDeviceAdd(r) \/ OpenReturns(r) \/ Added(r)
           \/ ProcessRescindOffer(r)
  <2>1. /\ at[r] \notin {"idle", "check", "wait"}
        /\ UNCHANGED <<offered, rescinded, todo, control, list, opened, torn, released, dropped>>
        /\ at[r] = "create" => r \in device'
        /\ device \subseteq device'
    BY <1>4 DEF ChildDeviceCreate, ChildDeviceAdd, OpenReturns, Added, ProcessRescindOffer
  <2>2. PICK where \in ControlSteps \ {"check", "wait", "create"} : at' = [at EXCEPT ![r] = where]
    <3>1. \/ at' = [at EXCEPT ![r] = "add"] \/ at' = [at EXCEPT ![r] = "asked"]
          \/ at' = [at EXCEPT ![r] = "added"] \/ at' = [at EXCEPT ![r] = "idle"]
          \/ at' = [at EXCEPT ![r] = "stuck"]
      BY <1>4 DEF ChildDeviceCreate, ChildDeviceAdd, OpenReturns, Added, ProcessRescindOffer,
                  Goes
    <3> QED BY <3>1 DEF ControlSteps
  <2>3. device' \subseteq Relids /\ driver' \subseteq Relids /\ isOpenState' \subseteq Relids
    BY <1>4 DEF ChildDeviceCreate, ChildDeviceAdd, OpenReturns, Added, ProcessRescindOffer,
                OfferTypes
  <2>4. OfferTypes'
    BY <2>1, <2>2, <2>3 DEF OfferTypes
  <2>5. Touched /\ at'[r] = where
    BY <2>1, <2>2 DEF OfferTypes
  <2>6. ASSUME QuietChannel(r) PROVE QuietChannel(r)'
    <3>1. ~ OfferQueued(r)' /\ ~ ResultQueued(r)' /\ r \notin torn' /\ OneOfEach(r)'
      BY <1>1, <2>1, <2>6 DEF QuietChannel, OfferOnce, SameQueue
    <3>2. ListedChannel(r)' => r \in device'
      BY <1>1, <2>1, <2>6 DEF QuietChannel
    <3>3. control'[r] # <<"offer">> /\ \A k \in DOMAIN control'[r] : control'[r][k] = "rescind"
      BY <2>1, <2>6 DEF QuietChannel, OfferOnce
    <3> QED BY <2>2, <2>5, <3>1, <3>2, <3>3 DEF QuietChannel, OfferOnce
  <2> QED BY <2>4, <2>5, <2>6, OneChannelSteps
<1> QED BY <1>3, <1>4

\* The search for the device and the insertion: this is where a channel is listed, or
\* torn down at once.
LEMMA CheckKeeps ==
  ASSUME OfferTypes, OfferInv, Calm, NEW r \in Relids, Check(r)
  PROVE  OfferTypes' /\ OfferInv'
<1>a. /\ at[r] = "check" /\ r \in Known /\ offered' = offered /\ Known' = Known
      /\ control' = control /\ device' = device
  BY DEF Check, OfferInv, OnlyOffered, ChannelKnown, Known
<1>b. /\ list \in Seq(Relids) /\ DOMAIN list = 1 .. Len(list)
      /\ \A k \in DOMAIN list : list[k] \in Relids
  BY LenProperties, ElementOfSeq DEF OfferTypes
<1>c. quiet' => quiet /\ ~ Exiting /\ ~ Exiting'
  BY <1>a, NobodyAtWork DEF Calm
<1>1. CASE \E s \in ToSet(list) : SameDevice(r, s)
  <2>a. /\ at' = [at EXCEPT ![r] = "idle"] /\ list' = list
        /\ torn' = torn \cup ToSet(<<r>>) /\ FreeVmbusChannels(<<r>>)
        /\ UNCHANGED <<offered, rescinded, control, device, driver, opened, isOpenState, released>>
    BY <1>1 DEF Check, FreeDuplicate, FreeVmbusChannels, Goes
  <2>b. ToSet(<<r>>) = {r} /\ <<r>> \in Seq(Relids)
    BY DEF ToSet
  <2>c. torn' = torn \cup {r}
    BY <2>a, <2>b
  <2>d. /\ todo' \in Seq(Items) /\ dropped' \subseteq Items
        /\ \A k \in DOMAIN todo' : (\E j \in DOMAIN todo : todo'[k] = todo[j])
                                   \/ todo'[k] = Item("release", r)
        /\ \A s : SameQueue(s)
    BY <2>a, <2>b, QueueReleases DEF SameQueue
  <2>1. OfferTypes'
    BY <2>a, <2>c, <2>d DEF OfferTypes, ControlSteps
  <2>2. OnlyOffered'
    <3>1. TodoKnown'
      BY <1>a, <2>d DEF TodoKnown, OfferInv, OnlyOffered, Item
    <3>2. \A s \in Relids : ChannelKnown(s)'
      BY <1>a, <2>a, <2>c, ListStays DEF ChannelKnown, OfferInv, OnlyOffered, OfferTypes
    <3> QED BY <3>1, <3>2 DEF OnlyOffered
  <2>3. OneChannelPerInstance'
    BY <1>a, <2>a DEF OneChannelPerInstance, OfferInv
  <2>4. ASSUME quiet', NEW s \in Relids PROVE QuietChannel(s)'
    <3>1. QuietChannel(s) /\ QuietChannel(r)
      BY <1>c, <2>4 DEF OfferInv, QuietInv
    <3>2. CASE s # r
      <4>1. SameChannel(s)
        BY <1>a, <2>a, <2>c, <3>2, ListStays DEF SameChannel, OfferTypes
      <4> QED BY <2>d, <3>1, <4>1, ChannelStays
    <3>3. CASE s = r
      <4>1. control[r] = <<>> /\ ~ ListedChannel(r) /\ ~ OfferQueued(r) /\ ~ ResultQueued(r)
        BY <1>a, <3>1 DEF QuietChannel, OfferOnce, New
      <4>2. /\ control'[r] = <<>> /\ ~ ListedChannel(r)' /\ ~ OfferQueued(r)' /\ ~ ResultQueued(r)'
            /\ OneOfEach(r)' /\ at'[r] = "idle"
        BY <1>a, <2>a, <2>d, <3>1, <4>1, ListStays DEF SameQueue, QuietChannel, OfferTypes
      <4>3. control'[r] # <<"offer">> /\ \A k \in DOMAIN control'[r] : control'[r][k] = "rescind"
        BY <4>2
      <4> QED BY <3>3, <4>2, <4>3 DEF QuietChannel, OfferOnce
    <3> QED BY <3>2, <3>3
  <2> QED BY <1>c, <2>1, <2>2, <2>3, <2>4 DEF OfferInv, QuietInv, ExitIsAlone
<1>2. CASE ~ \E s \in ToSet(list) : SameDevice(r, s)
  <2>a. /\ at' = [at EXCEPT ![r] = "create"] /\ list' = Append(list, r)
        /\ torn' = torn /\ todo' = todo /\ dropped' = dropped
        /\ UNCHANGED <<offered, rescinded, control, device, driver, opened, isOpenState, released>>
    BY <1>2 DEF Check, Goes
  <2>b. /\ list' \in Seq(Relids)
        /\ \A k \in DOMAIN list' : \/ k \in DOMAIN list /\ list'[k] = list[k]
                                   \/ k = Len(list) + 1 /\ list'[k] = r
        /\ \A k \in DOMAIN list : k \in DOMAIN list' /\ list'[k] = list[k]
        /\ Len(list) + 1 \in DOMAIN list' /\ Len(list) + 1 \notin DOMAIN list
    BY <1>b, <2>a, Appended
  <2>c. \A s : (ListedChannel(s)' <=> ListedChannel(s) \/ s = r)
    <3>1. list'[Len(list) + 1] = r
      BY <2>b
    <3> QED BY <2>b, <3>1 DEF ListedChannel, ToSet
  <2>1. OfferTypes'
    BY <2>a, <2>b DEF OfferTypes, ControlSteps
  <2>2. OnlyOffered'
    <3>1. TodoKnown'
      BY <1>a, <2>a DEF TodoKnown, OfferInv, OnlyOffered
    <3>2. \A s \in Relids : ChannelKnown(s)'
      BY <1>a, <2>a, <2>c DEF ChannelKnown, OfferInv, OnlyOffered, OfferTypes
    <3> QED BY <3>1, <3>2 DEF OnlyOffered
  <2>3. OneChannelPerInstance'
    <3>1. \A k \in DOMAIN list : offered[list[k]] # offered[r]
      BY <1>2 DEF SameDevice, ToSet
    <3> QED BY <1>a, <2>b, <3>1 DEF OneChannelPerInstance, OfferInv
  <2>4. ASSUME quiet', NEW s \in Relids PROVE QuietChannel(s)'
    <3>1. QuietChannel(s) /\ QuietChannel(r)
      BY <1>c, <2>4 DEF OfferInv, QuietInv
    <3>2. CASE s # r
      <4>1. SameChannel(s)
        BY <1>a, <2>a, <2>c, <3>2 DEF SameChannel, OfferTypes
      <4> QED BY <2>a, <3>1, <4>1, ChannelStays, QueueStays
    <3>3. CASE s = r
      <4>1. control[r] = <<>> /\ r \notin torn /\ ~ OfferQueued(r) /\ ~ ResultQueued(r)
        BY <1>a, <3>1 DEF QuietChannel, OfferOnce, New
      <4>2. /\ control'[r] = <<>> /\ r \notin torn' /\ ~ OfferQueued(r)' /\ ~ ResultQueued(r)'
            /\ OneOfEach(r)' /\ at'[r] = "create"
        BY <1>a, <2>a, <3>1, <4>1, QueueStays DEF SameQueue, QuietChannel, OfferTypes
      <4>3. control'[r] # <<"offer">> /\ \A k \in DOMAIN control'[r] : control'[r][k] = "rescind"
        BY <4>2
      <4> QED BY <3>3, <4>2, <4>3 DEF QuietChannel, OfferOnce
    <3> QED BY <3>2, <3>3
  <2> QED BY <1>c, <2>1, <2>2, <2>3, <2>4 DEF OfferInv, QuietInv, ExitIsAlone
<1> QED BY <1>1, <1>2

-----------------------------------------------------------------------------
(* The work queue of the connection.                                       *)

\* What the queue has is for a channel that is known, but for the response.
LEMMA HeadIsKnown ==
  ASSUME OfferTypes, OfferInv, todo # <<>>, Head(todo).what \notin Responses
  PROVE  Head(todo).r \in Relids /\ Head(todo).r \in Known
<1>1. todo \in Seq(Items) /\ Len(offered) \in Nat /\ Len(offered) <= MaxOffers
  BY LenProperties DEF OfferTypes
<1>2. 1 \in DOMAIN todo /\ Head(todo) = todo[1]
  BY <1>1, Tailed
<1>3. Head(todo).r \in Known
  BY <1>2 DEF OfferInv, OnlyOffered, TodoKnown
<1> QED BY <1>1, <1>3, BoundIsNatural DEF Known, Relids

LEMMA OfferHandled ==
  ASSUME OfferTypes, OfferInv, Calm, OnOffer
  PROVE  OfferTypes' /\ OfferInv'
<1>0. todo # <<>> /\ Head(todo).what = "offer"
  BY DEF OnOffer, Handles
<1> PICK r \in Relids : r = Head(todo).r /\ r \in Known
  BY <1>0, HeadIsKnown DEF Responses
<1>a. /\ todo # <<>> /\ Head(todo).what = "offer" /\ todo' = Tail(todo)
      /\ control' = control \/ control' = [control EXCEPT ![r] = <<"offer">>]
      /\ UNCHANGED <<offered, rescinded, at, list, device, driver, opened, isOpenState, torn,
                     released>>
  BY DEF OnOffer, Handles
<1>d. dropped' \subseteq dropped \cup {Item("offer", r)}
  BY DEF OnOffer, Drops
<1>b. /\ todo' \in Seq(Items) /\ Head(todo) \in Items
      /\ \E j \in DOMAIN todo : todo[j] = Head(todo)
      /\ \A k \in DOMAIN todo' : \E j \in DOMAIN todo : todo'[k] = todo[j]
      /\ \A s : SameQueue(s)
      /\ \A s : Head(todo) = Item("offer", s) =>
                  OfferQueued(s) /\ (OneOfEach(s) => ~ OfferQueued(s)')
  BY <1>a, QueueTaken DEF SameQueue
<1>c. Known' = Known
  BY <1>a DEF Known
<1>e. Head(todo) = Item("offer", r)
  BY <1>a, <1>b DEF Item, Items
<1>f. quiet' => quiet /\ ~ Exiting /\ ~ Exiting'
  BY <1>a, OnlyReleases DEF Calm
<1>g. \A s \in Relids \ {r} : control'[s] = control[s]
  BY <1>a DEF OfferTypes
<1>h. control'[r] = control[r] \/ control'[r] = <<"offer">>
  BY <1>a DEF OfferTypes
<1>1. OfferTypes'
  <2>1. <<"offer">> \in Seq({"offer", "rescind"})
    OBVIOUS
  <2>2. dropped' \subseteq Items
    <3>1. dropped \subseteq Items /\ Item("offer", r) \in Items
      BY <1>b, <1>e DEF OfferTypes
    <3> QED BY <1>d, <3>1
  <2> QED BY <1>a, <1>b, <2>1, <2>2 DEF OfferTypes
<1>2. OnlyOffered'
  <2>1. TodoKnown'
    BY <1>b, <1>c DEF TodoKnown, OfferInv, OnlyOffered
  <2>2. \A s \in Relids : ChannelKnown(s)'
    BY <1>a, <1>c, <1>g, ListStays DEF ChannelKnown, OfferInv, OnlyOffered
  <2> QED BY <2>1, <2>2 DEF OnlyOffered
<1>3. OneChannelPerInstance'
  BY <1>a DEF OneChannelPerInstance, OfferInv
<1>4. ASSUME quiet', NEW s \in Relids PROVE QuietChannel(s)'
  <2>1. QuietChannel(s) /\ QuietChannel(r)
    BY <1>f, <1>4 DEF OfferInv, QuietInv
  <2>2. CASE s # r
    <3>1. SameChannel(s)
      BY <1>a, <1>g, <2>2, ListStays DEF SameChannel
    <3> QED BY <1>b, <2>1, <3>1, ChannelStays
  <2>3. CASE s = r
    <3>1. /\ ~ OfferQueued(r)' /\ at[r] = "idle" /\ control[r] = <<>> /\ New(r)
          /\ ~ ResultQueued(r) /\ OneOfEach(r)'
      BY <1>b, <1>e, <2>1 DEF QuietChannel, OfferOnce, SameQueue
    <3>2. New(r)' /\ at'[r] = "idle" /\ ~ ResultQueued(r)'
      BY <1>a, <1>b, <3>1, ListStays DEF New, SameQueue
    <3>3. control'[r] = <<"offer">> \/ \A k \in DOMAIN control'[r] : control'[r][k] = "rescind"
      BY <1>h, <3>1
    <3> QED BY <2>3, <3>1, <3>2, <3>3 DEF QuietChannel, OfferOnce, New
  <2> QED BY <2>2, <2>3
<1> QED BY <1>1, <1>2, <1>3, <1>4, <1>f DEF OfferInv, QuietInv, ExitIsAlone

LEMMA RescindHandled ==
  ASSUME OfferTypes, OfferInv, Calm, OnOfferRescind
  PROVE  OfferTypes' /\ OfferInv'
<1>0. todo # <<>> /\ Head(todo).what = "rescind"
  BY DEF OnOfferRescind, Handles
<1> PICK r \in Relids : r = Head(todo).r /\ r \in Known
  BY <1>0, HeadIsKnown DEF Responses
<1>a. /\ todo # <<>> /\ Head(todo).what = "rescind" /\ todo' = Tail(todo)
      /\ \/ control' = control
         \/ /\ ListedChannel(r)
            /\ control' = [control EXCEPT ![r] = Append(control[r], "rescind")]
      /\ UNCHANGED <<offered, rescinded, at, list, device, driver, opened, isOpenState, torn,
                     released>>
  BY DEF OnOfferRescind, Handles
<1>d. dropped' \subseteq dropped \cup {Item("rescind", r)}
  BY DEF OnOfferRescind, Drops
<1>b. /\ todo' \in Seq(Items) /\ Head(todo) \in Items
      /\ \E j \in DOMAIN todo : todo[j] = Head(todo)
      /\ \A k \in DOMAIN todo' : \E j \in DOMAIN todo : todo'[k] = todo[j]
      /\ \A s : SameQueue(s)
  BY <1>a, QueueTaken DEF SameQueue
<1>c. Known' = Known
  BY <1>a DEF Known
<1>e. control[r] \in Seq({"offer", "rescind"})
  BY DEF OfferTypes
<1>f. quiet' => quiet /\ ~ Exiting /\ ~ Exiting'
  BY <1>a, OnlyReleases DEF Calm
<1>g. /\ \A s \in Relids \ {r} : control'[s] = control[s]
      /\ \/ control'[r] = control[r]
         \/ ListedChannel(r) /\ control'[r] = Append(control[r], "rescind")
  BY <1>a DEF OfferTypes
<1>h. \A s : ListedChannel(s)' <=> ListedChannel(s)
  BY <1>a, ListStays
<1>1. OfferTypes'
  <2>1. Append(control[r], "rescind") \in Seq({"offer", "rescind"})
    BY <1>e
  <2>2. Item("rescind", r) \in Items
    BY RelidsAreNumbers, ItemsAreItems DEF Whats
  <2>3. dropped' \subseteq Items
    <3>1. dropped \subseteq Items
      BY DEF OfferTypes
    <3> QED BY <1>d, <2>2, <3>1
  <2>4. control' \in [Relids -> Seq({"offer", "rescind"})]
    BY <1>a, <2>1 DEF OfferTypes
  <2> QED BY <1>a, <1>b, <2>3, <2>4 DEF OfferTypes
<1>2. OnlyOffered'
  <2>1. TodoKnown'
    BY <1>b, <1>c DEF TodoKnown, OfferInv, OnlyOffered
  <2>2. \A s \in Relids : ChannelKnown(s)'
    BY <1>a, <1>c, <1>g, <1>h DEF ChannelKnown, OfferInv, OnlyOffered
  <2> QED BY <2>1, <2>2 DEF OnlyOffered
<1>3. OneChannelPerInstance'
  BY <1>a DEF OneChannelPerInstance, OfferInv
<1>4. ASSUME quiet', NEW s \in Relids PROVE QuietChannel(s)'
  <2>1. QuietChannel(s) /\ QuietChannel(r)
    BY <1>f, <1>4 DEF OfferInv, QuietInv
  <2>2. CASE s # r \/ control'[r] = control[r]
    <3>1. SameChannel(s)
      BY <1>a, <1>g, <1>h, <2>2 DEF SameChannel
    <3> QED BY <1>b, <2>1, <3>1, ChannelStays
  <2>3. CASE s = r /\ ListedChannel(r) /\ control'[r] = Append(control[r], "rescind")
    <3>1. /\ ~ OfferQueued(r) /\ at[r] # "check" /\ control[r] # <<"offer">>
          /\ r \notin torn /\ \A k \in DOMAIN control[r] : control[r][k] = "rescind"
      BY <2>1, <2>3 DEF QuietChannel, OfferOnce, New
    <3>2. \A k \in DOMAIN control'[r] : control'[r][k] = "rescind"
      <4>1. \A k \in DOMAIN Append(control[r], "rescind") :
              \/ k \in DOMAIN control[r] /\ Append(control[r], "rescind")[k] = control[r][k]
              \/ Append(control[r], "rescind")[k] = "rescind"
        BY <1>e, Appended
      <4> QED BY <2>3, <3>1, <4>1
    <3>3. control'[r] # <<"offer">>
      BY <3>2
    <3>4. /\ ~ OfferQueued(r)' /\ at'[r] = at[r] /\ r \notin torn' /\ device' = device
          /\ OneOfEach(r)' /\ (ResultQueued(r)' => ResultQueued(r))
      BY <1>a, <1>b, <2>1, <3>1 DEF SameQueue, QuietChannel
    <3> QED BY <1>h, <2>1, <2>3, <3>1, <3>2, <3>3, <3>4 DEF QuietChannel, OfferOnce
  <2> QED BY <1>g, <2>2, <2>3
<1> QED BY <1>1, <1>2, <1>3, <1>4, <1>f DEF OfferInv, QuietInv, ExitIsAlone

LEMMA OpenResultHandled ==
  ASSUME OfferTypes, OfferInv, Calm, OnOpenResult
  PROVE  OfferTypes' /\ OfferInv'
<1>0. todo # <<>> /\ Head(todo).what \in Results
  BY DEF OnOpenResult, Handles, Results
<1> PICK r \in Relids : r = Head(todo).r /\ r \in Known
  BY <1>0, HeadIsKnown DEF Results, Responses
<1>a. /\ todo' = Tail(todo) /\ at' = [at EXCEPT ![r] = Head(todo).what]
      /\ UNCHANGED <<offered, rescinded, control, list, device, driver, opened, isOpenState,
                     torn, released, dropped>>
  BY DEF OnOpenResult
<1>b. /\ todo' \in Seq(Items)
      /\ \A k \in DOMAIN todo' : \E j \in DOMAIN todo : todo'[k] = todo[j]
      /\ \A s : SameQueue(s)
      /\ Result(Head(todo), r) =>
           ResultQueued(r) /\ (OneOfEach(r) => ~ ResultQueued(r)')
  BY <1>0, <1>a, QueueTaken DEF SameQueue
<1>c. Known' = Known
  BY <1>a DEF Known
<1>d. Result(Head(todo), r)
  BY <1>0 DEF Result
<1>e. at'[r] \in Results /\ \A s \in Relids \ {r} : at'[s] = at[s]
  BY <1>0, <1>a DEF OfferTypes
<1>f. quiet' => quiet /\ ~ Exiting /\ ~ Exiting'
  BY <1>0, OnlyReleases DEF Calm, Results
<1>h. \A s : ListedChannel(s)' <=> ListedChannel(s)
  BY <1>a, ListStays
<1>1. OfferTypes'
  BY <1>0, <1>a, <1>b DEF OfferTypes, ControlSteps
<1>2. OnlyOffered'
  <2>1. TodoKnown'
    BY <1>b, <1>c DEF TodoKnown, OfferInv, OnlyOffered
  <2>2. \A s \in Relids : ChannelKnown(s)'
    BY <1>a, <1>c, <1>e, <1>h DEF ChannelKnown, OfferInv, OnlyOffered
  <2> QED BY <2>1, <2>2 DEF OnlyOffered
<1>3. OneChannelPerInstance'
  BY <1>a DEF OneChannelPerInstance, OfferInv
<1>4. ASSUME quiet', NEW s \in Relids PROVE QuietChannel(s)'
  <2>1. QuietChannel(s) /\ QuietChannel(r)
    BY <1>f, <1>4 DEF OfferInv, QuietInv
  <2>2. CASE s # r
    <3>1. SameChannel(s)
      BY <1>a, <1>e, <1>h, <2>2 DEF SameChannel
    <3> QED BY <1>b, <2>1, <3>1, ChannelStays
  <2>3. CASE s = r
    <3>1. at[r] = "wait" /\ ~ OfferQueued(r) /\ control[r] # <<"offer">> /\ r \notin torn
      BY <1>b, <1>d, <2>1 DEF QuietChannel, OfferOnce
    <3>2. ListedChannel(r) => r \in device
      BY <2>1, <3>1 DEF QuietChannel
    <3>3. /\ ~ OfferQueued(r)' /\ ~ ResultQueued(r)' /\ OneOfEach(r)' /\ r \notin torn'
          /\ ListedChannel(r)' => r \in device'
      BY <1>a, <1>b, <1>d, <1>h, <2>1, <3>1, <3>2 DEF SameQueue, QuietChannel
    <3>4. control'[r] # <<"offer">> /\ \A k \in DOMAIN control'[r] : control'[r][k] = "rescind"
      BY <1>a, <2>1, <3>1 DEF QuietChannel, OfferOnce
    <3>5. at'[r] # "check"
      BY <1>e DEF Results
    <3> QED BY <2>3, <3>3, <3>4, <3>5 DEF QuietChannel, OfferOnce
  <2> QED BY <2>2, <2>3
<1> QED BY <1>1, <1>2, <1>3, <1>4, <1>f DEF OfferInv, QuietInv, ExitIsAlone

-----------------------------------------------------------------------------
\* Steps that leave every channel as it is.
LEMMA ChannelsStay ==
  ASSUME OfferInv, quiet' => quiet, offered' = offered, list' = list,
         \A s : SameQueue(s),
         \A s \in Relids : at'[s] = at[s] /\ control'[s] = control[s],
         torn' = torn, device \subseteq device',
         TodoKnown', quiet' => ExitIsAlone'
  PROVE  OfferInv'
<1>1. \A s : ListedChannel(s)' <=> ListedChannel(s)
  BY ListStays
<1>2. Known' = Known
  BY DEF Known
<1>3. OnlyOffered'
  BY <1>1, <1>2 DEF OnlyOffered, ChannelKnown, OfferInv
<1>4. OneChannelPerInstance'
  BY DEF OneChannelPerInstance, OfferInv
<1>5. ASSUME quiet', NEW s \in Relids PROVE QuietChannel(s)'
  <2>1. QuietChannel(s)
    BY <1>5 DEF OfferInv, QuietInv
  <2>2. SameChannel(s)
    BY <1>1 DEF SameChannel
  <2> QED BY <2>1, <2>2, ChannelStays
<1> QED BY <1>3, <1>4, <1>5 DEF OfferInv, QuietInv

LEMMA ReleaseHandled ==
  ASSUME OfferTypes, OfferInv, Calm, ReleaseVmbusChannel
  PROVE  OfferTypes' /\ OfferInv'
<1>a. /\ todo # <<>> /\ Head(todo).what = "release" /\ todo' = Tail(todo)
      /\ released' = released \cup {Head(todo).r}
      /\ UNCHANGED <<offered, rescinded, control, at, list, device, driver, opened, isOpenState,
                     torn, dropped>>
  BY DEF ReleaseVmbusChannel, Handles
<1>b. /\ todo' \in Seq(Items)
      /\ \A k \in DOMAIN todo' : \E j \in DOMAIN todo : todo'[k] = todo[j]
      /\ \A s : SameQueue(s)
  BY <1>a, QueueTaken DEF SameQueue
<1>c. Head(todo).r \in Relids
  BY <1>a, HeadIsKnown DEF Responses
<1>1. OfferTypes'
  BY <1>a, <1>b, <1>c DEF OfferTypes
<1>2. TodoKnown'
  <2>1. Known' = Known
    BY <1>a DEF Known
  <2> QED BY <1>b, <2>1 DEF TodoKnown, OfferInv, OnlyOffered
<1>3. quiet' => ExitIsAlone'
  BY <1>a, <1>b DEF Calm, OfferInv, QuietInv, ExitIsAlone
<1>4. \A s \in Relids : at'[s] = at[s] /\ control'[s] = control[s]
  BY <1>a
<1>5. quiet' => quiet
  BY DEF Calm
<1> QED BY <1>a, <1>b, <1>1, <1>2, <1>3, <1>4, <1>5, ChannelsStay

\* A message that is neither an offer nor a result, from the host while no exit runs.
LEMMA MessageArrives ==
  ASSUME OfferTypes, OfferInv, quiet' => quiet /\ ~ Exiting', NEW x \in Items,
         x.what \notin Results \cup {"offer"}, x.what \notin Responses => x.r \in Known,
         Queues(x),
         UNCHANGED <<offered, control, at, list, device, driver, opened, isOpenState, torn,
                     released>>,
         rescinded' \subseteq Relids
  PROVE  OfferTypes' /\ OfferInv'
<1>1. /\ todo' \in Seq(Items) /\ dropped' \subseteq Items
      /\ \A k \in DOMAIN todo' : todo'[k] = x \/ \E j \in DOMAIN todo : todo'[k] = todo[j]
      /\ \A r : /\ OfferQueued(r)' => OfferQueued(r) \/ x = Item("offer", r)
                /\ ResultQueued(r)' => ResultQueued(r) \/ Result(x, r)
      /\ \A r : /\ OneOfEach(r)
                /\ x = Item("offer", r) => ~ OfferQueued(r)
                /\ Result(x, r) => ~ ResultQueued(r)
                => OneOfEach(r)'
  BY QueueGrows
<1>2. \A r : x # Item("offer", r) /\ ~ Result(x, r)
  BY DEF Item, Result
<1>3. \A r : SameQueue(r)
  BY <1>1, <1>2 DEF SameQueue
<1>4. OfferTypes'
  BY <1>1 DEF OfferTypes
<1>5. TodoKnown'
  <2>1. Known' = Known
    BY DEF Known
  <2> QED BY <1>1, <2>1 DEF TodoKnown, OfferInv, OnlyOffered
<1>6. quiet' => ExitIsAlone'
  BY DEF ExitIsAlone
<1> QED BY <1>3, <1>4, <1>5, <1>6, ChannelsStay

LEMMA RescindArrives ==
  ASSUME OfferTypes, OfferInv, quiet' => quiet /\ ~ Exiting', NEW r, HostRescinds(r)
  PROVE  OfferTypes' /\ OfferInv'
<1>1. /\ r \in Known /\ rescinded' = rescinded \cup {r}
      /\ Queues(Item("rescind", r))
      /\ UNCHANGED <<offered, control, at, list, device, driver, opened, isOpenState, torn,
                     released>>
  BY DEF HostRescinds
<1>2. r \in Relids
  <2>1. Len(offered) \in Nat /\ Len(offered) <= MaxOffers
    BY LenProperties DEF OfferTypes
  <2> QED BY <1>1, <2>1, BoundIsNatural DEF Known, Relids
<1>3. /\ Item("rescind", r) \in Items
      /\ Item("rescind", r).what = "rescind" /\ Item("rescind", r).r = r
  BY <1>2, RelidsAreNumbers, ItemsAreItems DEF Whats
<1>4. rescinded' \subseteq Relids
  BY <1>1, <1>2 DEF OfferTypes
<1>5. "rescind" \notin Results \cup {"offer"}
  BY DEF Results
<1> QED BY <1>1, <1>3, <1>4, <1>5, MessageArrives

LEMMA OfferArrives ==
  ASSUME OfferTypes, OfferInv, quiet' => quiet /\ ~ Exiting', NEW i \in Instances,
         HostOffers(i)
  PROVE  OfferTypes' /\ OfferInv'
<1> DEFINE n == Len(offered) + 1
<1>a. /\ Len(offered) < MaxOffers /\ offered' = Append(offered, i)
      /\ Queues(Item("offer", n))
      /\ UNCHANGED <<rescinded, control, at, list, device, driver, opened, isOpenState, torn,
                     released>>
  BY DEF HostOffers
<1>b. /\ Len(offered) \in Nat /\ offered \in Seq(Instances)
      /\ offered' \in Seq(Instances) /\ Len(offered') = n
      /\ \A k \in Known : offered'[k] = offered[k]
  BY <1>a, LenProperties, AppendProperties DEF OfferTypes, Known
<1>c. PICK r \in Relids : r = n
  BY <1>a, <1>b, BoundIsNatural DEF Relids
<1>d. /\ Queues(Item("offer", r)) /\ Len(offered') = r
      /\ r \notin Known /\ Known' = Known \cup {r}
  BY <1>a, <1>b, <1>c DEF Known
<1> HIDE DEF n
<1>e. Item("offer", r) \in Items /\ Item("offer", r).r = r /\ Item("offer", r).what = "offer"
  BY <1>c, RelidsAreNumbers, ItemsAreItems DEF Whats
<1>f. \A s : ~ Result(Item("offer", r), s) /\ (Item("offer", r) = Item("offer", s) => s = r)
  BY DEF Item, Result, Results
<1>g. /\ todo' \in Seq(Items) /\ dropped' \subseteq Items
      /\ \A k \in DOMAIN todo' :
           todo'[k] = Item("offer", r) \/ \E j \in DOMAIN todo : todo'[k] = todo[j]
      /\ \A s : s # r => SameQueue(s)
      /\ OneOfEach(r) /\ ~ OfferQueued(r) => OneOfEach(r)'
      /\ ResultQueued(r)' => ResultQueued(r)
  <2>1. /\ todo' \in Seq(Items) /\ dropped' \subseteq Items
        /\ \A k \in DOMAIN todo' :
             todo'[k] = Item("offer", r) \/ \E j \in DOMAIN todo : todo'[k] = todo[j]
        /\ \A s : /\ OfferQueued(s)' => OfferQueued(s) \/ Item("offer", r) = Item("offer", s)
                  /\ ResultQueued(s)' => ResultQueued(s) \/ Result(Item("offer", r), s)
        /\ \A s : /\ OneOfEach(s)
                  /\ Item("offer", r) = Item("offer", s) => ~ OfferQueued(s)
                  /\ Result(Item("offer", r), s) => ~ ResultQueued(s)
                  => OneOfEach(s)'
    BY <1>d, <1>e, QueueGrows
  <2> QED BY <1>f, <2>1 DEF SameQueue
<1>h. \A s : ListedChannel(s)' <=> ListedChannel(s)
  BY <1>a, ListStays
<1>1. OfferTypes'
  BY <1>a, <1>b, <1>c, <1>d, <1>g, BoundIsNatural DEF OfferTypes, Relids
<1>2. OnlyOffered'
  <2>1. TodoKnown'
    BY <1>d, <1>e, <1>g DEF TodoKnown, OfferInv, OnlyOffered
  <2>2. \A s \in Relids : ChannelKnown(s)'
    BY <1>a, <1>d, <1>h DEF ChannelKnown, OfferInv, OnlyOffered
  <2> QED BY <2>1, <2>2 DEF OnlyOffered
<1>3. OneChannelPerInstance'
  <2>1. list \in Seq(Relids) /\ \A k \in DOMAIN list : list[k] \in Relids
    BY LenProperties, ElementOfSeq DEF OfferTypes
  <2>2. \A k \in DOMAIN list : list[k] \in Known
    BY <2>1 DEF OfferInv, OnlyOffered, ChannelKnown, ListedChannel, ToSet
  <2>3. \A k \in DOMAIN list : offered'[list[k]] = offered[list[k]]
    BY <1>b, <2>2
  <2> SUFFICES ASSUME NEW j \in DOMAIN list, NEW k \in DOMAIN list, j # k
               PROVE  offered'[list[j]] # offered'[list[k]]
    BY <1>a DEF OneChannelPerInstance
  <2>4. offered[list[j]] # offered[list[k]]
    BY DEF OneChannelPerInstance, OfferInv
  <2> QED BY <2>3, <2>4
<1>4. ASSUME quiet', NEW s \in Relids PROVE QuietChannel(s)'
  <2>1. QuietChannel(s) /\ QuietChannel(r)
    BY <1>4 DEF OfferInv, QuietInv
  <2>2. CASE s # r
    <3>1. SameChannel(s)
      BY <1>a, <1>h DEF SameChannel
    <3> QED BY <1>g, <2>1, <2>2, <3>1, ChannelStays
  <2>3. CASE s = r
    <3>1. at[r] = "idle" /\ control[r] = <<>> /\ ~ ListedChannel(r) /\ r \notin torn
      BY <1>d DEF OfferInv, OnlyOffered, ChannelKnown
    <3>2. ~ OfferQueued(r) /\ ~ ResultQueued(r)
      <4>1. \A k \in DOMAIN todo : todo[k] # Item("offer", r)
        BY <1>d, <1>e DEF OfferInv, OnlyOffered, TodoKnown, Responses
      <4> QED BY <2>1, <3>1, <4>1 DEF OfferQueued, QuietChannel
    <3>3. /\ at'[r] = "idle" /\ control'[r] = <<>> /\ ~ ListedChannel(r)' /\ r \notin torn'
          /\ ~ ResultQueued(r)' /\ OneOfEach(r)'
      BY <1>a, <1>g, <1>h, <2>1, <3>1, <3>2 DEF QuietChannel
    <3>4. New(r)' /\ control'[r] # <<"offer">>
          /\ \A k \in DOMAIN control'[r] : control'[r][k] = "rescind"
      BY <3>3 DEF New
    <3> QED BY <2>3, <3>3, <3>4 DEF QuietChannel, OfferOnce
  <2> QED BY <2>2, <2>3
<1> QED BY <1>1, <1>2, <1>3, <1>4 DEF OfferInv, QuietInv, ExitIsAlone

LEMMA ResultArrives ==
  ASSUME OfferTypes, OfferInv, quiet' => quiet /\ ~ Exiting', NEW r \in Relids,
         HostOpens(r)
  PROVE  OfferTypes' /\ OfferInv'
<1>0. PICK what \in Results : /\ Queues(Item(what, r))
                              /\ opened' \subseteq opened \cup {r}
  BY DEF HostOpens, Results
<1>a. /\ at[r] = "asked" /\ at' = [at EXCEPT ![r] = "wait"]
      /\ UNCHANGED <<offered, rescinded, control, list, device, driver, isOpenState, torn,
                     released>>
  BY DEF HostOpens
<1>b. Known' = Known /\ r \in Known
  BY <1>a DEF Known, OfferInv, OnlyOffered, ChannelKnown
<1>c. at'[r] = "wait" /\ \A s \in Relids \ {r} : at'[s] = at[s]
  BY <1>a DEF OfferTypes
<1>e. Item(what, r) \in Items /\ Item(what, r).r = r /\ Item(what, r).what = what
  BY RelidsAreNumbers, ItemsAreItems DEF Whats
<1>f. \A s : Item(what, r) # Item("offer", s) /\ (Result(Item(what, r), s) => s = r)
  BY DEF Item, Result, Results
<1>g. /\ todo' \in Seq(Items) /\ dropped' \subseteq Items
      /\ \A k \in DOMAIN todo' :
           todo'[k] = Item(what, r) \/ \E j \in DOMAIN todo : todo'[k] = todo[j]
      /\ \A s : s # r => SameQueue(s)
      /\ OneOfEach(r) /\ ~ ResultQueued(r) => OneOfEach(r)'
      /\ OfferQueued(r)' => OfferQueued(r)
  <2>1. /\ todo' \in Seq(Items) /\ dropped' \subseteq Items
        /\ \A k \in DOMAIN todo' :
             todo'[k] = Item(what, r) \/ \E j \in DOMAIN todo : todo'[k] = todo[j]
        /\ \A s : /\ OfferQueued(s)' => OfferQueued(s) \/ Item(what, r) = Item("offer", s)
                  /\ ResultQueued(s)' => ResultQueued(s) \/ Result(Item(what, r), s)
        /\ \A s : /\ OneOfEach(s)
                  /\ Item(what, r) = Item("offer", s) => ~ OfferQueued(s)
                  /\ Result(Item(what, r), s) => ~ ResultQueued(s)
                  => OneOfEach(s)'
    BY <1>0, <1>e, QueueGrows
  <2> QED BY <1>f, <2>1 DEF SameQueue
<1>h. \A s : ListedChannel(s)' <=> ListedChannel(s)
  BY <1>a, ListStays
<1>1. OfferTypes'
  BY <1>0, <1>a, <1>g DEF OfferTypes, ControlSteps
<1>2. OnlyOffered'
  <2>1. TodoKnown'
    BY <1>b, <1>e, <1>g DEF TodoKnown, OfferInv, OnlyOffered
  <2>2. \A s \in Relids : ChannelKnown(s)'
    BY <1>a, <1>b, <1>c, <1>h DEF ChannelKnown, OfferInv, OnlyOffered
  <2> QED BY <2>1, <2>2 DEF OnlyOffered
<1>3. OneChannelPerInstance'
  BY <1>a DEF OneChannelPerInstance, OfferInv
<1>4. ASSUME quiet', NEW s \in Relids PROVE QuietChannel(s)'
  <2>1. QuietChannel(s) /\ QuietChannel(r)
    BY <1>4 DEF OfferInv, QuietInv
  <2>2. CASE s # r
    <3>1. SameChannel(s)
      BY <1>a, <1>c, <1>h, <2>2 DEF SameChannel
    <3> QED BY <1>g, <2>1, <2>2, <3>1, ChannelStays
  <2>3. CASE s = r
    <3>1. ~ OfferQueued(r) /\ ~ ResultQueued(r) /\ control[r] # <<"offer">> /\ r \notin torn
      BY <1>a, <2>1 DEF QuietChannel, OfferOnce
    <3>2. ListedChannel(r) => r \in device
      BY <1>a, <2>1 DEF QuietChannel
    <3>3. /\ ~ OfferQueued(r)' /\ OneOfEach(r)' /\ r \notin torn'
          /\ ListedChannel(r)' => r \in device'
      BY <1>a, <1>g, <1>h, <2>1, <3>1, <3>2 DEF QuietChannel
    <3>4. control'[r] # <<"offer">> /\ \A k \in DOMAIN control'[r] : control'[r][k] = "rescind"
      BY <1>a, <2>1, <3>1 DEF QuietChannel, OfferOnce
    <3> QED BY <1>c, <2>3, <3>3, <3>4 DEF QuietChannel, OfferOnce
  <2> QED BY <2>2, <2>3
<1> QED BY <1>1, <1>2, <1>3, <1>4 DEF OfferInv, QuietInv, ExitIsAlone

\* The exit takes channels off the list as it tears them down.
LEMMA UnattachedReleased ==
  ASSUME OfferTypes, OfferInv, Exiting, quiet' = quiet, Exiting', ReleaseUnattachedChannels
  PROVE  OfferTypes' /\ OfferInv'
<1>a. /\ torn' = torn \cup ToSet(Unattached) /\ FreeVmbusChannels(Unattached)
      /\ UNCHANGED <<offered, rescinded, control, at, device, driver, opened, isOpenState,
                     released>>
  BY DEF ReleaseUnattachedChannels, FreeVmbusChannels
<1>b. /\ list' \in Seq(Relids)
      /\ ToSet(Unattached) \subseteq Relids
      /\ \A r \in ToSet(Unattached) : ListedChannel(r)
      /\ \A r : ListedChannel(r)' => ListedChannel(r)
  BY ReleaseSplits
<1>c. PICK n \in 0 .. Len(list) :
        /\ \A k \in DOMAIN list' :
             k \in Nat /\ k + n \in DOMAIN list /\ k + n > n /\ list'[k] = list[k + n]
        /\ \A r \in ToSet(Unattached) : \E j \in DOMAIN list : j <= n /\ list[j] = r
  BY ReleaseSplits
<1>d. Unattached \in Seq(Relids)
  <2>1. list \in Seq(Relids) /\ \A k \in 1 .. Len(list) : list[k] \in Relids
    BY ElementOfSeq DEF OfferTypes
  <2>2. PICK m \in 0 .. Len(list) : Unattached = SubSeq(list, 1, m)
    BY UnattachedIsPrefix
  <2>3. \A k \in 1 .. m : list[k] \in Relids
    BY <2>1, LenProperties
  <2> QED BY <2>2, <2>3, SubSeqProperties
<1>e. /\ todo' \in Seq(Items) /\ dropped' \subseteq Items
      /\ \A k \in DOMAIN todo' :
           \/ \E j \in DOMAIN todo : todo'[k] = todo[j]
           \/ \E r \in ToSet(Unattached) : todo'[k] = Item("release", r)
      /\ \A s : SameQueue(s)
  BY <1>a, <1>d, QueueReleases DEF SameQueue
<1>f. Known' = Known /\ \A r \in ToSet(Unattached) : r \in Known
  BY <1>a, <1>b DEF Known, OfferInv, OnlyOffered, ChannelKnown
<1>1. OfferTypes'
  BY <1>a, <1>b, <1>e DEF OfferTypes
<1>2. OnlyOffered'
  <2>1. TodoKnown'
    BY <1>e, <1>f DEF TodoKnown, OfferInv, OnlyOffered, Item
  <2>2. \A s \in Relids : ChannelKnown(s)'
    BY <1>a, <1>b, <1>f DEF ChannelKnown, OfferInv, OnlyOffered
  <2> QED BY <2>1, <2>2 DEF OnlyOffered
<1>3. OneChannelPerInstance'
  <2> SUFFICES ASSUME NEW j \in DOMAIN list', NEW k \in DOMAIN list', j # k
               PROVE  offered'[list'[j]] # offered'[list'[k]]
    BY DEF OneChannelPerInstance
  <2>1. /\ j + n \in DOMAIN list /\ k + n \in DOMAIN list /\ j + n # k + n
        /\ list'[j] = list[j + n] /\ list'[k] = list[k + n] /\ offered' = offered
    BY <1>a, <1>c
  <2> QED BY <2>1 DEF OneChannelPerInstance, OfferInv
<1>4. ASSUME quiet' PROVE ExitIsAlone' /\ \A s \in Relids : QuietChannel(s)'
  <2>1. /\ quiet /\ \A s \in Relids : at[s] = "idle" /\ control[s] = <<>>
        /\ \A k \in DOMAIN todo : todo[k].what = "release"
    BY <1>4 DEF OfferInv, QuietInv, ExitIsAlone
  <2>2. ExitIsAlone'
    BY <1>a, <1>e, <2>1 DEF ExitIsAlone, Item
  <2>3. ASSUME NEW s \in Relids PROVE QuietChannel(s)'
    <3>1. QuietChannel(s)
      BY <2>1 DEF OfferInv, QuietInv
    <3>2. CASE s \notin ToSet(Unattached)
      <4>1. SameChannel(s)
        BY <1>a, <1>b, <3>2 DEF SameChannel
      <4> QED BY <1>e, <3>1, <4>1, ChannelStays
    <3>3. CASE s \in ToSet(Unattached)
      <4>1. ~ ListedChannel(s)'
        <5> SUFFICES ASSUME NEW k \in DOMAIN list', list'[k] = s PROVE FALSE
          BY DEF ListedChannel, ToSet
        <5>1. PICK j \in DOMAIN list : j <= n /\ list[j] = s
          BY <1>c, <3>3
        <5>2. k + n \in DOMAIN list /\ k + n > n /\ list[k + n] = s
          BY <1>c
        <5>3. j = k + n
          BY <5>1, <5>2 DEF OfferInv, OneChannelPerInstance
        <5> QED BY <5>1, <5>2, <5>3
      <4>2. ~ OfferQueued(s) /\ ~ ResultQueued(s)
        BY <1>b, <2>1, <3>1, <3>3 DEF QuietChannel, OfferOnce, New
      <4>3. /\ ~ OfferQueued(s)' /\ ~ ResultQueued(s)' /\ OneOfEach(s)'
            /\ at'[s] = "idle" /\ control'[s] = <<>>
        BY <1>a, <1>e, <2>1, <3>1, <4>2 DEF SameQueue, QuietChannel
      <4>4. control'[s] # <<"offer">> /\ \A k \in DOMAIN control'[s] : control'[s][k] = "rescind"
        BY <4>3
      <4> QED BY <4>1, <4>3, <4>4 DEF QuietChannel, OfferOnce
    <3> QED BY <3>2, <3>3
  <2> QED BY <2>2, <2>3
<1> QED BY <1>1, <1>2, <1>3, <1>4 DEF OfferInv, QuietInv

\* Steps that are not about the offers.
LEMMA OffersStay ==
  ASSUME OfferTypes, OfferInv, UNCHANGED offerVars, quiet' => quiet,
         quiet' => (Exiting' => Exiting \/ Idle)
  PROVE  OfferTypes' /\ OfferInv'
<1>1. UNCHANGED <<offered, rescinded, todo, control, at, list, device, driver, opened,
                  isOpenState, torn, released, dropped>>
  BY DEF offerVars
<1>2. OfferTypes'
  BY <1>1 DEF OfferTypes
<1>3. TodoKnown'
  BY <1>1 DEF TodoKnown, Known, OfferInv, OnlyOffered
<1>4. ASSUME quiet' PROVE ExitIsAlone'
  <2> SUFFICES ASSUME Exiting' PROVE /\ \A r \in Relids : at[r] = "idle" /\ control[r] = <<>>
                                     /\ \A k \in DOMAIN todo : todo[k].what = "release"
    BY <1>1 DEF ExitIsAlone
  <2>1. CASE Exiting
    BY <1>4, <2>1 DEF OfferInv, QuietInv, ExitIsAlone
  <2>2. CASE Idle
    BY <2>2 DEF Idle
  <2> QED BY <1>4, <2>1, <2>2
<1>5. \A s : SameQueue(s)
  BY <1>1, QueueStays
<1> QED BY <1>1, <1>2, <1>3, <1>4, <1>5, ChannelsStay

-----------------------------------------------------------------------------
(* The initialisation and the exit.                                        *)

\* Until the offers are requested a step that is not about them keeps it so.
LEMMA StillBefore ==
  ASSUME BeforeOffers, UNCHANGED offerVars, requested' = requested,
         requested => stage' \in {"up"} \cup ExitStages /\ ~ failed',
         stage = "wait" => stage' = stage /\ hostConn' = hostConn
  PROVE  BeforeOffers'
<1>1. UNCHANGED <<offered, rescinded, todo, control, at, list, device, driver, opened,
                  isOpenState, torn, released, dropped>>
  BY DEF offerVars
<1>2. NoOffers => NoOffers'
  BY <1>1 DEF NoOffers
<1>3. NoResponse => NoResponse'
  BY <1>1 DEF NoResponse
<1>4. stage = "wait" => Response' = Response
  BY DEF Response
<1> QED BY <1>1, <1>2, <1>3, <1>4 DEF BeforeOffers

HoldParts == StateTypes /\ BeforeOffers /\ HoldInv /\ Careful

\* What OffersStay asks of a step.
LeavesOffers == quiet' => quiet /\ (Exiting' => Exiting \/ Idle)

LEMMA HvInitKeeps ==
  ASSUME HoldParts, HvInit \/ HvInitFails
  PROVE  HoldParts' /\ LeavesOffers
<1> USE DEF HoldParts, HvInit, HvInitFails, Hv, Glue, Locks, Connection, Pages, Resources,
            ExitStages, Exiting
<1>1. StateTypes'
  BY DEF StateTypes
<1>2. BeforeOffers'
  BY StillBefore DEF BeforeOffers
<1>3. HeldBefore'
  BY DEF HeldBefore, HoldInv
<1>4. HeldAfter'
  BY DEF HeldBefore, HeldAfter, HoldInv, Connections
<1>5. Connections'
  BY DEF Connections, HoldInv, StateTypes
<1>6. Reached'
  BY DEF HeldBefore, Connections, Reached, HoldInv, StateTypes
<1>7. Careful' /\ LeavesOffers
  BY DEF Careful, MisuseIsKnown, LeavesOffers
<1> QED BY <1>1, <1>2, <1>3, <1>4, <1>5, <1>6, <1>7 DEF HoldInv

LEMMA ResourcesKeep ==
  ASSUME HoldParts, GetResource \/ ResourceFails
  PROVE  HoldParts' /\ LeavesOffers
<1> USE DEF HoldParts, GetResource, ResourceFails, Undone, NextResource, Hv, Glue, Locks,
            Connection, Pages, Resources, ExitStages, Exiting
<1>1. StateTypes'
  BY DEF StateTypes
<1>2. BeforeOffers'
  BY StillBefore DEF BeforeOffers
<1>3. HeldBefore'
  BY DEF HeldBefore, HoldInv
<1>4. HeldAfter'
  BY DEF HeldBefore, HeldAfter, HoldInv, Connections
<1>5. Connections'
  BY DEF Connections, HoldInv, StateTypes
<1>6. Reached'
  BY DEF HeldBefore, Connections, Reached, HoldInv, StateTypes
<1>7. Careful' /\ LeavesOffers
  BY DEF Careful, MisuseIsKnown, LeavesOffers
<1> QED BY <1>1, <1>2, <1>3, <1>4, <1>5, <1>6, <1>7 DEF HoldInv

LEMMA ConnectKeeps ==
  ASSUME HoldParts, SynicInit \/ VmbusConnect \/ ConnectFails \/ Connected
  PROVE  HoldParts' /\ LeavesOffers
<1> USE DEF HoldParts, SynicInit, VmbusConnect, ConnectFails, Connected, Undone, Hv, Glue, Locks,
            Connection, Pages, Resources, ExitStages, Exiting
<1>1. StateTypes'
  BY DEF StateTypes
<1>2. BeforeOffers'
  BY StillBefore DEF BeforeOffers
<1>3. HeldBefore'
  BY DEF HeldBefore, HoldInv
<1>4. HeldAfter'
  BY DEF HeldBefore, HeldAfter, HoldInv, Connections
<1>5. Connections'
  BY DEF Connections, HeldBefore, HoldInv, StateTypes
<1>6. Reached'
  BY DEF HeldBefore, Connections, Reached, HoldInv, StateTypes
<1>7. Careful' /\ LeavesOffers
  BY DEF Careful, MisuseIsKnown, LeavesOffers
<1> QED BY <1>1, <1>2, <1>3, <1>4, <1>5, <1>6, <1>7 DEF HoldInv

LEMMA RequestKeeps ==
  ASSUME HoldParts, RequestOffers
  PROVE  HoldParts' /\ LeavesOffers
<1> USE DEF HoldParts, RequestOffers, Hv, Glue, Locks, Connection, Pages, Resources,
            ExitStages, Exiting
<1>1. StateTypes'
  BY DEF StateTypes
<1>2. BeforeOffers'
  <2>1. NoOffers /\ todo = <<>> /\ ~ failed
    BY DEF BeforeOffers, Connections, HoldInv
  <2>2. NoOffers' /\ todo' = <<>>
    BY <2>1 DEF NoOffers, offerVars
  <2>3. NoResponse'
    BY <2>2 DEF NoResponse
  <2> QED BY <2>1, <2>2, <2>3 DEF BeforeOffers
<1>3. HeldBefore'
  BY DEF HeldBefore, HoldInv
<1>4. HeldAfter'
  BY DEF HeldBefore, HeldAfter, HoldInv, Connections
<1>5. Connections'
  BY DEF Connections, HeldBefore, HoldInv, StateTypes
<1>6. Reached'
  BY DEF HeldBefore, Connections, Reached, HoldInv, StateTypes
<1>7. Careful' /\ LeavesOffers
  BY DEF Careful, MisuseIsKnown, LeavesOffers
<1> QED BY <1>1, <1>2, <1>3, <1>4, <1>5, <1>6, <1>7 DEF HoldInv

LEMMA DetachKeeps ==
  ASSUME HoldParts, Detach
  PROVE  HoldParts' /\ LeavesOffers
<1> USE DEF HoldParts, Detach, NextExit, Hv, Glue, Locks, Connection, Pages, Resources,
            ExitStages, Exiting
<1>1. StateTypes'
  BY DEF StateTypes, Idle
<1>2. BeforeOffers'
  BY StillBefore DEF BeforeOffers
<1>3. HeldBefore'
  BY DEF HeldBefore, HoldInv
<1>4. HeldAfter'
  BY DEF HeldBefore, HeldAfter, HoldInv, Connections
<1>5. Connections'
  BY DEF Connections, HeldBefore, HoldInv, StateTypes
<1>6. Reached'
  BY DEF HeldBefore, Connections, Reached, HoldInv, StateTypes
<1>7. Careful' /\ LeavesOffers
  BY DEF Careful, MisuseIsKnown, LeavesOffers
<1> QED BY <1>1, <1>2, <1>3, <1>4, <1>5, <1>6, <1>7 DEF HoldInv

LEMMA ExitKeeps ==
  ASSUME HoldParts, DisconnectNot \/ VmbusDisconnect \/ CloseQueue \/ SynicCleanup
  PROVE  HoldParts' /\ LeavesOffers
<1> USE DEF HoldParts, DisconnectNot, VmbusDisconnect, CloseQueue, SynicCleanup, NextExit,
            Hv, Glue, Locks, Connection, Pages, Resources, ExitStages, Exiting
<1>1. StateTypes'
  BY DEF StateTypes
<1>2. BeforeOffers'
  BY StillBefore DEF BeforeOffers
<1>3. HeldBefore'
  BY DEF HeldBefore, HoldInv
<1>4. HeldAfter'
  BY DEF HeldBefore, HeldAfter, HoldInv, Connections
<1>5. Connections'
  BY DEF Connections, HeldAfter, HoldInv, StateTypes
<1>6. Reached'
  BY DEF HeldBefore, Connections, Reached, HoldInv, StateTypes
<1>7. Careful' /\ LeavesOffers
  BY DEF Careful, MisuseIsKnown, LeavesOffers
<1> QED BY <1>1, <1>2, <1>3, <1>4, <1>5, <1>6, <1>7 DEF HoldInv

LEMMA CleanupKeeps ==
  ASSUME HoldParts, HvCleanup \/ TearDown
  PROVE  HoldParts' /\ LeavesOffers
<1> USE DEF HoldParts, HvCleanup, TearDown, NextExit, Uses, Hv, Glue, Locks, Connection, Pages,
            Resources, ExitStages, Exiting
<1>1. StateTypes'
  BY DEF StateTypes
<1>2. BeforeOffers'
  BY StillBefore DEF BeforeOffers
<1>3. HeldBefore'
  BY DEF HeldBefore, HoldInv
<1>4. HeldAfter'
  BY DEF HeldBefore, HeldAfter, HoldInv, Connections
<1>5. Connections'
  BY DEF Connections, HeldAfter, HoldInv, StateTypes
<1>6. Reached'
  BY DEF HeldBefore, Connections, Reached, HoldInv, StateTypes
<1>7. Careful' /\ LeavesOffers
  BY DEF Careful, MisuseIsKnown, LeavesOffers, HeldAfter, HoldInv
<1> QED BY <1>1, <1>2, <1>3, <1>4, <1>5, <1>6, <1>7 DEF HoldInv

-----------------------------------------------------------------------------
(* The host, and what is done for a message.                               *)

\* A message arrives where the work queue is still there.
LEMMA ArrivesHeld ==
  ASSUME HoldInv, ~ Exiting, ~ failed, hostConn \in {"asked", "connected", "unloading"}
  PROVE  Connection \subseteq held
BY DEF HoldInv, Connections, HeldBefore, Resources

\* Steps of the host that change neither the stage nor what is held.
HostSteps ==
  UNCHANGED <<stage, held, hypercallPage, connected, requested, failed>>

LEMMA HoldStays ==
  ASSUME HoldInv, HostSteps, hostConn' = hostConn, granted' = granted
  PROVE  HoldInv'
BY DEF HoldInv, HostSteps, HeldBefore, HeldAfter, Connections, Reached, Exiting

\* What is used while no exit runs, and before the initialisation failed, is there.
LEMMA StillCareful ==
  ASSUME StateTypes, HoldInv, Careful, UNCHANGED <<stage, failed>>,
         hostConn \in {"asked", "connected", "unloading"},
         quiet' = (quiet /\ ~ Exiting),
         NEW x \in Connection, misused' = misused \cup ({x} \ held)
  PROVE  Careful' /\ (quiet' => quiet /\ ~ Exiting') /\ quiet' \in BOOLEAN
         /\ misused' \subseteq Resources \cup {"device"}
<1>1. Exiting' = Exiting
  BY DEF Exiting
<1>2. quiet' => quiet /\ ~ Exiting
  OBVIOUS
<1>3. ~ Exiting => quiet
  BY DEF Careful
<1>4. ASSUME quiet' PROVE misused' = misused
  <2>1. ~ failed
    BY DEF HoldInv, Connections
  <2>2. Connection \subseteq held
    BY <1>2, <1>4, <2>1, ArrivesHeld
  <2> QED BY <2>2
<1>5. ~ Exiting' => quiet'
  BY <1>1, <1>3
<1>6. Careful'
  BY <1>2, <1>4, <1>5 DEF Careful, MisuseIsKnown
<1>7. quiet' \in BOOLEAN
  BY DEF StateTypes
<1>8. misused' \subseteq Resources \cup {"device"}
  BY DEF StateTypes, Resources
<1> QED BY <1>1, <1>2, <1>6, <1>7, <1>8

\* An offer, a rescind or the result of an open, of a host that was asked for offers.
LEMMA SpeechKeeps ==
  ASSUME HoldParts, OfferTypes, OfferInv, HostSpeaks \/ HostAnswersOpen
  PROVE  HoldParts' /\ OfferTypes' /\ OfferInv'
<1>a. /\ hostConn \in {"connected", "unloading"} /\ Arrives
      /\ UNCHANGED <<stage, held, granted, hypercallPage, connected, hostConn, requested, failed>>
  BY DEF HostSpeaks, HostAnswersOpen
<1>b. /\ Careful' /\ (quiet' => quiet /\ ~ Exiting') /\ quiet' \in BOOLEAN
      /\ misused' \subseteq Resources \cup {"device"}
  <2>1. "wq" \in Connection
    BY DEF Connection
  <2> QED BY <1>a, <2>1, StillCareful DEF HoldParts, Arrives, Uses
<1>c. requested
  <2>1. CASE HostSpeaks BY <2>1 DEF HostSpeaks
  <2>2. CASE HostAnswersOpen
    <3>1. PICK r \in Relids : at[r] = "asked"
      BY <2>2 DEF HostAnswersOpen, HostOpens
    <3> QED BY <3>1 DEF HoldParts, BeforeOffers, NoOffers
  <2> QED BY <2>1, <2>2
<1>d. \E x \in Items : x.what \notin Responses /\ Queues(x)
  <2>1. CASE \E i \in Instances : HostOffers(i)
    <3>1. Len(offered) \in Nat /\ Len(offered) < MaxOffers
          /\ Queues(Item("offer", Len(offered) + 1))
      BY <2>1, LenProperties DEF HostOffers, OfferTypes
    <3>2. Len(offered) + 1 \in 0 .. MaxOffers
      BY <3>1, BoundIsNatural
    <3> QED BY <3>1, <3>2, ItemsAreItems DEF Whats, Responses
  <2>2. CASE \E r \in Relids : HostRescinds(r)
    <3>1. PICK r \in Relids : HostRescinds(r) BY <2>2
    <3>2. Queues(Item("rescind", r)) BY <3>1 DEF HostRescinds
    <3> QED BY <3>2, ItemsAreItems, RelidsAreNumbers DEF Whats, Responses
  <2>3. CASE \E r \in Relids : HostOpens(r)
    <3>1. PICK r \in Relids : HostOpens(r) BY <2>3
    <3>2. PICK what \in Results : Queues(Item(what, r))
      BY <3>1 DEF HostOpens, Results
    <3>3. what \in Whats /\ what \notin Responses
      BY DEF Whats, Results, Responses
    <3> QED BY <3>2, <3>3, ItemsAreItems, RelidsAreNumbers
  <2> QED BY <2>1, <2>2, <2>3 DEF HostSpeaks, HostAnswersOpen
<1>1. OfferTypes' /\ OfferInv'
  BY <1>b, OfferArrives, RescindArrives, ResultArrives DEF HostSpeaks, HostAnswersOpen
<1>2. StateTypes'
  BY <1>a, <1>b DEF HoldParts, StateTypes, ExitStages
<1>3. BeforeOffers'
  <2>1. NoResponse'
    <3>1. PICK x \in Items : x.what \notin Responses /\ Queues(x)
      BY <1>d
    <3>2. \A k \in DOMAIN todo' : todo'[k] = x \/ \E j \in DOMAIN todo : todo'[k] = todo[j]
      BY <3>1, QueueGrows
    <3>3. NoResponse
      BY <1>c DEF HoldParts, BeforeOffers
    <3> QED BY <3>1, <3>2, <3>3 DEF NoResponse
  <2> QED BY <1>a, <1>c, <2>1 DEF HoldParts, BeforeOffers
<1>4. HoldInv'
  BY <1>a, HoldStays DEF HoldParts, HostSteps
<1> QED BY <1>1, <1>2, <1>3, <1>4, <1>b DEF HoldParts

\* The response VmbusConnect waits for: nothing was queued before it.
LEMMA AnswerKeeps ==
  ASSUME HoldParts, OfferTypes, OfferInv, NEW ok \in BOOLEAN, HostAnswersContact(ok)
  PROVE  HoldParts' /\ OfferTypes' /\ OfferInv'
<1> DEFINE x == Item(IF ok THEN "supported" ELSE "unsupported", 0)
<1>a. /\ hostConn = "asked" /\ Arrives
      /\ hostConn' = (IF ok THEN "connected" ELSE "none")
      /\ granted' = (IF ok THEN granted \cup {"intpage", "monitor"} ELSE granted)
      /\ Queues(x)
      /\ UNCHANGED <<offered, rescinded, control, at, list, device, driver, opened, isOpenState,
                     torn, released, stage, held, hypercallPage, connected, requested, failed>>
  BY DEF HostAnswersContact
<1>b. /\ Careful' /\ (quiet' => quiet /\ ~ Exiting') /\ quiet' \in BOOLEAN
      /\ misused' \subseteq Resources \cup {"device"}
  <2>1. "wq" \in Connection
    BY DEF Connection
  <2> QED BY <1>a, <2>1, StillCareful DEF HoldParts, Arrives, Uses
<1>c. stage = "wait" /\ ~ requested /\ NoOffers /\ todo = <<>> /\ held = Resources
      /\ ~ connected /\ ~ failed
  BY <1>a DEF HoldParts, HoldInv, Connections, HeldBefore, BeforeOffers, ExitStages
<1>d. /\ x \in Items /\ x.what \in Responses
      /\ x = Item(Response, 0)'
  <2>1. 0 \in 0 .. MaxOffers
    BY BoundIsNatural
  <2> QED BY <1>a, <2>1, ItemsAreItems DEF Whats, Responses, Response
<1> HIDE DEF x
<1>1. OfferTypes' /\ OfferInv'
  <2>1. x.what \notin Results \cup {"offer"}
    BY <1>d DEF Results, Responses
  <2>2. rescinded' \subseteq Relids
    BY <1>a DEF OfferTypes
  <2> QED BY <1>a, <1>b, <1>d, <2>1, <2>2, MessageArrives
<1>2. StateTypes'
  BY <1>a, <1>b, <1>c DEF HoldParts, StateTypes, ExitStages, Pages
<1>3. BeforeOffers'
  <2>1. NoOffers'
    BY <1>a, <1>c DEF NoOffers
  <2>2. todo' = <<x>> \/ todo' = <<>>
    BY <1>a, <1>c DEF Queues
  <2>3. hostConn' # "asked" /\ stage' = "wait" /\ ~ requested'
    BY <1>a, <1>c
  <2> QED BY <1>d, <2>1, <2>2, <2>3 DEF BeforeOffers
<1>4. HoldInv'
  <2>1. HeldBefore' /\ HeldAfter'
    BY <1>a, <1>c DEF HoldParts, HoldInv, HeldBefore, HeldAfter
  <2>2. Connections'
    BY <1>a, <1>c DEF HoldParts, HoldInv, Connections, Exiting, ExitStages, Resources
  <2>3. Reached'
    BY <1>a, <1>c DEF HoldParts, HoldInv, Reached
  <2> QED BY <2>1, <2>2, <2>3 DEF HoldInv
<1> QED BY <1>1, <1>2, <1>3, <1>4, <1>b DEF HoldParts

LEMMA SignalsKeep ==
  ASSUME HoldParts, HostSignals
  PROVE  HoldParts' /\ LeavesOffers
<1>a. /\ hostConn \in {"connected", "unloading"}
      /\ UNCHANGED <<stage, held, granted, hypercallPage, connected, hostConn, requested, failed>>
      /\ UNCHANGED offerVars
  BY DEF HostSignals
<1>b. /\ Careful' /\ (quiet' => quiet /\ ~ Exiting') /\ quiet' \in BOOLEAN
      /\ misused' \subseteq Resources \cup {"device"}
  <2>1. "intpage" \in Connection
    BY DEF Connection
  <2> QED BY <1>a, <2>1, StillCareful DEF HoldParts, HostSignals, Uses
<1>1. StateTypes'
  BY <1>a, <1>b DEF HoldParts, StateTypes, ExitStages
<1>2. BeforeOffers'
  BY <1>a, StillBefore DEF HoldParts, BeforeOffers
<1>3. HoldInv'
  BY <1>a, HoldStays DEF HoldParts, HostSteps
<1> QED BY <1>1, <1>2, <1>3, <1>b DEF HoldParts, LeavesOffers

LEMMA UnloadsKeep ==
  ASSUME HoldParts, HostUnloads
  PROVE  HoldParts' /\ LeavesOffers
<1> USE DEF HostUnloads
<1>1. StateTypes'
  BY DEF HoldParts, StateTypes, ExitStages
<1>2. BeforeOffers'
  BY StillBefore DEF HoldParts, BeforeOffers, HoldInv, Connections, ExitStages, Exiting
<1>3. HeldBefore' /\ HeldAfter'
  BY DEF HoldParts, HoldInv, HeldBefore, HeldAfter
<1>4. Connections'
  BY DEF HoldParts, HoldInv, Connections, Exiting, ExitStages
<1>5. Reached'
  BY DEF HoldParts, HoldInv, Reached
<1>6. Careful' /\ LeavesOffers
  BY DEF HoldParts, Careful, MisuseIsKnown, LeavesOffers, Exiting
<1> QED BY <1>1, <1>2, <1>3, <1>4, <1>5, <1>6 DEF HoldParts, HoldInv

\* The response is handled: the thread that waits in VmbusConnect goes on.
LEMMA VersionKeeps ==
  ASSUME HoldParts, OfferTypes, OfferInv, OnVersionResponse
  PROVE  HoldParts' /\ OfferTypes' /\ OfferInv'
<1>a. /\ todo # <<>> /\ Head(todo).what \in Responses
      /\ stage' = Head(todo).what /\ todo' = Tail(todo)
      /\ UNCHANGED <<offered, rescinded, control, at, list, device, driver, opened, isOpenState,
                     torn, released, dropped, held, granted, hypercallPage, connected, hostConn,
                     requested, failed, quiet, misused>>
  BY DEF OnVersionResponse, Handles, Responses
<1>b. /\ todo' \in Seq(Items) /\ Head(todo) \in Items
      /\ \E j \in DOMAIN todo : todo[j] = Head(todo)
      /\ \A k \in DOMAIN todo' : \E j \in DOMAIN todo : todo'[k] = todo[j]
      /\ \A s : SameQueue(s)
  BY <1>a, QueueTaken DEF SameQueue
<1>c. /\ ~ requested /\ NoOffers /\ stage = "wait" /\ hostConn # "asked"
      /\ todo = <<Item(Response, 0)>>
  BY <1>a, <1>b DEF HoldParts, BeforeOffers, NoResponse
<1>d. todo' = <<>> /\ stage' = Response
  BY <1>a, <1>c DEF Item
<1>e. held = Resources /\ ~ connected /\ ~ failed /\ quiet /\ ~ Exiting /\ ~ Exiting'
  BY <1>c, <1>d DEF HoldParts, HoldInv, HeldBefore, Connections, Careful, Exiting, ExitStages,
                    Response
<1>1. OfferTypes' /\ OfferInv'
  <2>1. OfferTypes'
    BY <1>a, <1>b DEF OfferTypes
  <2>2. TodoKnown' /\ (quiet' => ExitIsAlone')
    BY <1>d, <1>e DEF TodoKnown, ExitIsAlone
  <2> QED BY <1>a, <1>b, <2>1, <2>2, ChannelsStay
<1>2. StateTypes'
  BY <1>a, <1>d DEF HoldParts, StateTypes, Response
<1>3. BeforeOffers'
  <2>1. NoOffers' /\ ~ requested'
    BY <1>a, <1>c DEF NoOffers
  <2> QED BY <1>d, <2>1 DEF BeforeOffers
<1>4. HeldBefore' /\ HeldAfter'
  BY <1>a, <1>d, <1>e DEF Response, HeldBefore, HeldAfter
<1>5. Connections'
  BY <1>a, <1>c, <1>d, <1>e DEF HoldParts, HoldInv, Connections, Exiting, ExitStages, Resources,
                                Response
<1>6. Reached' /\ Careful'
  BY <1>a, <1>e DEF HoldParts, HoldInv, Reached, Careful, MisuseIsKnown
<1> QED BY <1>1, <1>2, <1>3, <1>4, <1>5, <1>6 DEF HoldParts, HoldInv

-----------------------------------------------------------------------------
(* The steps of Offers, and the whole.                                     *)

\* Handlers and control threads, which leave what the bus has alone.
LEMMA HandlersKeep ==
  ASSUME BusInv, UNCHANGED busVars, MainThread \/ \E r \in Relids : ControlThread(r)
  PROVE  BusInv'
<1>a. UNCHANGED <<stage, held, granted, hypercallPage, connected, hostConn, requested, failed,
                  quiet, misused>>
  BY DEF busVars
<1>b. Calm
  BY <1>a DEF Calm, Exiting
<1>1. OfferTypes' /\ OfferInv'
  <2>1. CASE MainThread
    BY <1>b, <2>1, OfferHandled, RescindHandled, OpenResultHandled, ReleaseHandled
    DEF MainThread, BusInv
  <2>2. CASE \E r \in Relids : ControlThread(r)
    BY <1>b, <2>2, ControlKeeps, CheckKeeps DEF ControlThread, BusInv
  <2> QED BY <2>1, <2>2
<1>2. requested
  <2> SUFFICES ASSUME ~ requested PROVE FALSE
    OBVIOUS
  <2>1. /\ \A r \in Relids : at[r] = "idle" /\ control[r] = <<>>
        /\ todo = <<>> \/ todo = <<Item(Response, 0)>>
    BY DEF BusInv, BeforeOffers, NoOffers
  <2>2. todo # <<>> => Head(todo).what \in Responses
    BY <2>1 DEF Item, Response, Responses
  <2>3. CASE MainThread
    <3>1. todo # <<>> /\ Head(todo).what \notin Responses
      BY <2>3 DEF MainThread, OnOffer, OnOfferRescind, OnOpenResult, ReleaseVmbusChannel,
                  Handles, Responses
    <3> QED BY <2>2, <3>1
  <2>4. CASE \E r \in Relids : ControlThread(r)
    <3>1. PICK r \in Relids : ControlThread(r)
      BY <2>4
    <3>2. at[r] # "idle" \/ control[r] # <<>>
      BY <3>1 DEF ControlThread, Begin, Check, ChildDeviceCreate, ChildDeviceAdd, OpenReturns,
                  Added, ProcessRescindOffer
    <3> QED BY <2>1, <3>2
  <2> QED BY <2>3, <2>4
<1>3. BeforeOffers'
  <2>1. NoResponse
    BY <1>2 DEF BusInv, BeforeOffers
  <2>2. \A k \in DOMAIN todo' :
           todo'[k].what = "release" \/ \E j \in DOMAIN todo : todo'[k] = todo[j]
    <3>1. CASE MainThread
      <4>1. todo # <<>> /\ todo' = Tail(todo)
        BY <3>1 DEF MainThread, OnOffer, OnOfferRescind, OnOpenResult, ReleaseVmbusChannel,
                    Handles
      <4> QED BY <4>1, QueueTaken DEF BusInv
    <3>2. CASE \E r \in Relids : ControlThread(r)
      <4>1. PICK r \in Relids : ControlThread(r)
        BY <3>2
      <4>2. CASE todo' = todo
        BY <4>2
      <4>3. CASE FreeVmbusChannels(<<r>>)
        <5>1. <<r>> \in Seq(Relids)
          OBVIOUS
        <5>2. \A k \in DOMAIN todo' :
                \/ \E j \in DOMAIN todo : todo'[k] = todo[j]
                \/ \E s \in ToSet(<<r>>) : todo'[k] = Item("release", s)
          BY <4>3, <5>1, QueueReleases DEF BusInv
        <5>3. \A s : Item("release", s).what = "release"
          BY DEF Item
        <5> QED BY <5>2, <5>3
      <4> QED BY <4>1, <4>2, <4>3
              DEF ControlThread, Begin, Check, ChildDeviceCreate, ChildDeviceAdd, OpenReturns,
                  Added, ProcessRescindOffer, FreeDuplicate
    <3> QED BY <3>1, <3>2
  <2>3. NoResponse'
    BY <2>1, <2>2 DEF NoResponse, Responses
  <2> QED BY <1>a, <1>2, <2>3 DEF BusInv, BeforeOffers
<1>4. StateTypes'
  BY <1>a DEF BusInv, StateTypes, ExitStages
<1>5. HoldInv'
  BY <1>a, HoldStays DEF BusInv, HostSteps
<1>6. Careful'
  BY <1>a DEF BusInv, Careful, MisuseIsKnown, Exiting
<1> QED BY <1>1, <1>3, <1>4, <1>5, <1>6 DEF BusInv

\* VmbusChannelReleaseUnattachedChannels uses what is there while nothing failed: every
\* channel in the list has its device when the exit is alone.
LEMMA ReleaseKeeps ==
  ASSUME BusInv, ReleaseUnattached
  PROVE  BusInv'
<1>a. /\ stage = "release" /\ stage' = "disconnect" /\ ReleaseUnattachedChannels
      /\ misused' = misused \cup
           (({"chanlock"} \cup (IF Unattached # <<>> THEN {"wq"} ELSE {})
              \cup (IF ToSet(Unattached) \subseteq device THEN {} ELSE {"device"})) \ held)
      /\ UNCHANGED <<held, granted, hypercallPage, connected, hostConn, requested, failed, quiet>>
  BY DEF ReleaseUnattached, Uses, NextExit
<1>b. Exiting /\ Exiting'
  BY <1>a DEF Exiting, ExitStages
<1>c. /\ FreeVmbusChannels(Unattached) /\ torn' = torn \cup ToSet(Unattached)
      /\ UNCHANGED <<offered, at, control>>
  BY <1>a DEF ReleaseUnattachedChannels, FreeVmbusChannels
<1>d. list \in Seq(Relids) /\ Unattached \in Seq(Relids)
  <2>1. list \in Seq(Relids) /\ \A k \in 1 .. Len(list) : list[k] \in Relids
    BY ElementOfSeq DEF OfferTypes, BusInv
  <2>2. PICK m \in 0 .. Len(list) : Unattached = SubSeq(list, 1, m)
    BY UnattachedIsPrefix DEF BusInv
  <2>3. \A k \in 1 .. m : list[k] \in Relids
    BY <2>1, LenProperties
  <2> QED BY <2>1, <2>2, <2>3, SubSeqProperties
<1>1. OfferTypes' /\ OfferInv'
  BY <1>a, <1>b, UnattachedReleased DEF BusInv
<1>2. StateTypes'
  <2>1. misused' \subseteq Resources \cup {"device"}
    BY <1>a DEF BusInv, StateTypes, Resources, Connection, Locks
  <2> QED BY <1>a, <2>1 DEF BusInv, StateTypes, ExitStages
<1>e. \A s : \A x \in Seq(s) : DOMAIN x = {} => x = <<>>
  <2> SUFFICES ASSUME NEW s, NEW x \in Seq(s), DOMAIN x = {} PROVE x = <<>>
    OBVIOUS
  <2>1. DOMAIN x = 1 .. Len(x) /\ Len(x) \in Nat
    BY LenProperties
  <2>2. Len(x) = 0
    BY <2>1
  <2> QED BY <2>2, EmptySeq
<1>f. \A k \in DOMAIN todo' :
        \/ \E j \in DOMAIN todo : todo'[k] = todo[j]
        \/ \E r \in ToSet(Unattached) : todo'[k] = Item("release", r)
  BY <1>c, <1>d, QueueReleases DEF BusInv
<1>g. ASSUME ~ requested PROVE Unattached = <<>> /\ list' = <<>> /\ todo' = <<>> /\ torn' = {}
  <2>1. NoOffers /\ todo = <<>>
    BY <1>a, <1>g DEF BusInv, BeforeOffers
  <2>2. \A r : ~ ListedChannel(r)
    BY <2>1 DEF NoOffers, ListedChannel, ToSet
  <2>3. ToSet(Unattached) = {} /\ \A r : ~ ListedChannel(r)'
    BY <1>a, <2>2, ReleaseSplits DEF BusInv
  <2>4. DOMAIN Unattached = {} /\ DOMAIN list' = {}
    BY <2>3 DEF ListedChannel, ToSet
  <2>5. DOMAIN todo' = {}
    BY <1>f, <2>1, <2>3
  <2>6. list' \in Seq(Relids) /\ todo' \in Seq(Items)
    BY <1>1 DEF OfferTypes
  <2> QED BY <1>c, <1>d, <1>e, <2>1, <2>3, <2>4, <2>5, <2>6 DEF NoOffers
<1>3. BeforeOffers'
  <2>1. CASE requested
    <3>1. NoResponse'
      BY <1>f, <2>1 DEF BusInv, BeforeOffers, NoResponse, Responses, Item
    <3> QED BY <1>a, <2>1, <3>1 DEF BusInv, BeforeOffers, ExitStages
  <2>2. CASE ~ requested
    <3>1. NoOffers
      BY <1>a, <2>2 DEF BusInv, BeforeOffers
    <3> QED BY <1>a, <1>c, <1>g, <2>2, <3>1 DEF BeforeOffers, NoOffers
  <2> QED BY <2>1, <2>2
<1>4. HeldBefore' /\ HeldAfter'
  BY <1>a DEF BusInv, HoldInv, HeldBefore, HeldAfter
<1>5. Connections' /\ Reached'
  BY <1>a DEF BusInv, HoldInv, Connections, Reached, Exiting, ExitStages
<1>6. Careful'
  <2> SUFFICES ASSUME quiet
               PROVE  misused' \subseteq IF failed THEN Glue \cup {"chanlock", "hypercall"} ELSE {}
    BY <1>a, <1>b DEF Careful, MisuseIsKnown
  <2>1. ~ failed => held = Resources
    BY <1>a DEF BusInv, HoldInv, HeldAfter
  <2>2. misused \subseteq IF failed THEN Glue \cup {"chanlock", "hypercall"} ELSE {}
    BY DEF BusInv, Careful, MisuseIsKnown
  <2>4. failed => Unattached = <<>>
    BY <1>g DEF BusInv, BeforeOffers
  <2>3. ToSet(Unattached) \subseteq device
    <3> SUFFICES ASSUME NEW r \in ToSet(Unattached) PROVE r \in device
      OBVIOUS
    <3>1. r \in Relids /\ ListedChannel(r)
      BY <1>a, ReleaseSplits DEF BusInv
    <3>2. QuietChannel(r) /\ at[r] = "idle"
      BY <1>b, <3>1 DEF BusInv, OfferInv, QuietInv, ExitIsAlone
    <3> QED BY <3>1, <3>2 DEF QuietChannel
  <2> QED BY <1>a, <2>1, <2>2, <2>3, <2>4 DEF Resources, Connection, Locks
<1> QED BY <1>1, <1>2, <1>3, <1>4, <1>5, <1>6 DEF BusInv, HoldInv

LEMMA BusInitHolds == BusLifeInit => BusInv
<1> SUFFICES ASSUME BusLifeInit PROVE BusInv
  OBVIOUS
<1> USE DEF BusLifeInit, OffersInit
<1>1. OfferTypes
  <2>1. <<>> \in Seq(Instances) /\ <<>> \in Seq(Items) /\ <<>> \in Seq(Relids)
        /\ <<>> \in Seq({"offer", "rescind"}) /\ Len(<<>>) = 0
    BY EmptySeq
  <2> QED BY <2>1, BoundIsNatural DEF OfferTypes, ControlSteps
<1>2. StateTypes
  BY DEF StateTypes
<1>3. OfferInv
  <2>1. \A r : ~ ListedChannel(r)
    BY DEF ListedChannel, ToSet
  <2>2. \A r : ~ OfferQueued(r) /\ ~ ResultQueued(r) /\ OneOfEach(r)
    BY DEF OfferQueued, ResultQueued, OneOfEach
  <2>3. OnlyOffered
    BY <2>1 DEF OnlyOffered, TodoKnown, ChannelKnown
  <2>4. \A r \in Relids : QuietChannel(r)
    BY <2>1, <2>2 DEF QuietChannel, OfferOnce
  <2> QED BY <2>3, <2>4 DEF OfferInv, OneChannelPerInstance, QuietInv, ExitIsAlone, Exiting,
                            ExitStages
<1>4. BeforeOffers
  BY DEF BeforeOffers, NoOffers
<1>5. HoldInv
  BY DEF HoldInv, HeldBefore, HeldAfter, Connections, Reached, ExitStages
<1>6. Careful
  BY DEF Careful, MisuseIsKnown
<1> QED BY <1>1, <1>2, <1>3, <1>4, <1>5, <1>6 DEF BusInv

LEMMA BusNextKeeps == BusInv /\ [BusLifeNext]_busLifeVars => BusInv'
<1> SUFFICES ASSUME BusInv, [BusLifeNext]_busLifeVars PROVE BusInv'
  OBVIOUS
<1>a. HoldParts /\ OfferTypes /\ OfferInv
  BY DEF BusInv, HoldParts
<1>b. ASSUME HoldParts', LeavesOffers, UNCHANGED offerVars PROVE BusInv'
  BY <1>a, <1>b, OffersStay DEF LeavesOffers, HoldParts, BusInv
<1>1. CASE BusInit
  <2>1. HoldParts' /\ LeavesOffers
    BY <1>a, <1>1, HvInitKeeps, ResourcesKeep, ConnectKeeps, RequestKeeps DEF BusInit
  <2>2. UNCHANGED offerVars
    BY <1>1 DEF BusInit, HvInit, HvInitFails, GetResource, ResourceFails, SynicInit, VmbusConnect,
                ConnectFails, Connected, RequestOffers
  <2> QED BY <1>b, <2>1, <2>2
<1>2. CASE Detach
  BY <1>a, <1>b, <1>2, DetachKeeps DEF Detach
<1>3. CASE BusExit
  <2>1. CASE ReleaseUnattached
    BY <2>1, ReleaseKeeps
  <2>2. CASE DisconnectNot \/ VmbusDisconnect \/ CloseQueue \/ SynicCleanup \/ HvCleanup \/ TearDown
    <3>1. HoldParts' /\ LeavesOffers
      BY <1>a, <2>2, ExitKeeps, CleanupKeeps
    <3>2. UNCHANGED offerVars
      BY <2>2 DEF DisconnectNot, VmbusDisconnect, CloseQueue, SynicCleanup, HvCleanup, TearDown
    <3> QED BY <1>b, <3>1, <3>2
  <2> QED BY <1>3, <2>1, <2>2 DEF BusExit
<1>4. CASE WorkQueue
  BY <1>a, <1>4, VersionKeeps, HandlersKeep DEF WorkQueue, HoldParts, BusInv
<1>5. CASE \E r \in Relids : Control(r)
  BY <1>5, HandlersKeep DEF Control
<1>6. CASE HostAnswers \/ HostSpeaks
  BY <1>a, <1>6, SpeechKeeps, AnswerKeeps DEF HostAnswers, HoldParts, BusInv
<1>7. CASE HostSignals \/ HostUnloads
  <2>1. HoldParts' /\ LeavesOffers
    BY <1>a, <1>7, SignalsKeep, UnloadsKeep
  <2>2. UNCHANGED offerVars
    BY <1>7 DEF HostSignals, HostUnloads
  <2> QED BY <1>b, <2>1, <2>2
<1>8. CASE UNCHANGED busLifeVars
  <2>1. UNCHANGED offerVars /\ UNCHANGED <<stage, held, granted, hypercallPage, connected, hostConn,
                                           requested, failed, quiet, misused>>
    BY <1>8 DEF busLifeVars, busVars
  <2>2. HoldParts'
    <3>1. StateTypes' BY <1>a, <2>1 DEF HoldParts, StateTypes, ExitStages
    <3>2. BeforeOffers' BY <1>a, <2>1, StillBefore DEF HoldParts, BeforeOffers
    <3>3. HoldInv' BY <1>a, <2>1, HoldStays DEF HoldParts, HostSteps
    <3>4. Careful' BY <1>a, <2>1 DEF HoldParts, Careful, MisuseIsKnown, Exiting
    <3> QED BY <3>1, <3>2, <3>3, <3>4 DEF HoldParts
  <2>3. LeavesOffers
    BY <2>1 DEF LeavesOffers, Exiting
  <2> QED BY <1>b, <2>1, <2>2, <2>3
<1> QED BY <1>1, <1>2, <1>3, <1>4, <1>5, <1>6, <1>7, <1>8 DEF BusLifeNext

(* What is true of the bus driver after every step: the types, where an offer is     *)
(* on its way, and what is held, connected and reached at each stage.                *)
THEOREM BusInductive == BusLifeSpec => []BusInv
<1>1. BusLifeInit => BusInv
  BY BusInitHolds
<1>2. BusInv /\ [BusLifeNext]_busLifeVars => BusInv'
  BY BusNextKeeps
<1> QED BY <1>1, <1>2, PTL DEF BusLifeSpec

(* However offers, rescinds and the exit are ordered, there is one channel for each  *)
(* device instance, and none is torn down (FreeVmbusChannel) with work to do.        *)
THEOREM ChannelsAreOne == BusLifeSpec => []ChannelInv
<1>1. BusInv => ChannelInv
  <2> SUFFICES ASSUME BusInv PROVE ChannelInv
    OBVIOUS
  <2>1. BusLifeTypeOK
    BY TypesAreRight DEF BusInv
  <2>2. NobodyInTorn
    <3> SUFFICES ASSUME quiet, NEW r \in torn PROVE at[r] = "idle" /\ control[r] = <<>>
      BY DEF NobodyInTorn
    <3>1. r \in Relids
      BY DEF BusInv, OfferTypes
    <3> QED BY <3>1 DEF BusInv, OfferInv, QuietInv, QuietChannel
  <2> QED BY <2>1, <2>2 DEF ChannelInv, BusInv, OfferInv
<1> QED BY <1>1, BusInductive, PTL

(* Wherever vmbus_bus_init fails and whatever the host refuses, the hypervisor and   *)
(* the host hold no page that was freed (but for the interrupt page), what is left   *)
(* behind is known, and nothing is used or released that is not there - but for what *)
(* vmbus_detach takes after a failed initialisation, which is named.                 *)
THEOREM HeldIsKnown == BusLifeSpec => []HeldInv
<1>1. BusInv => HeldInv
  <2> SUFFICES ASSUME BusInv PROVE HeldInv
    OBVIOUS
  <2>1. HostReachesHeldPages
    <3> SUFFICES ASSUME NEW p \in granted
                 PROVE  p \in held \/ (hostConn = "unloading" /\ p = "intpage")
      BY DEF HostReachesHeldPages
    <3>1. p \in Pages
      BY DEF BusInv, StateTypes
    <3>2. CASE p \in {"hypercall", "synic"}
      BY <3>2 DEF BusInv, HoldInv, Reached
    <3>3. CASE p \in {"intpage", "monitor"}
      <4>1. CASE hostConn = "connected"
        BY <3>3, <4>1 DEF BusInv, HoldInv, Connections, Connection
      <4>2. CASE hostConn = "unloading"
        BY <3>3, <4>2 DEF BusInv, HoldInv, Connections
      <4>3. hostConn \in {"connected", "unloading"}
        BY <3>3 DEF BusInv, HoldInv, Reached
      <4> QED BY <4>1, <4>2, <4>3
    <3> QED BY <3>1, <3>2, <3>3 DEF Pages
  <2>2. MisuseIsKnown
    BY DEF BusInv, Careful
  <2>3. LeaksAreKnown
    <3>1. stage = "failed" => held \subseteq {"hypercall", "signal", "synic"}
      BY DEF BusInv, HoldInv, Connections, HeldAfter, Hv
    <3>2. ASSUME stage = "gone"
          PROVE  held \subseteq IF connected THEN Connection ELSE {"monitor", "chanlock"}
      <4>1. held \subseteq Resources /\ "synic" \notin held /\ held \cap Hv = {}
            /\ held \cap Glue = {}
        BY <3>2 DEF BusInv, StateTypes, HoldInv, HeldAfter
      <4>2. held \subseteq Connection
        BY <4>1 DEF Resources, Pages, Connection, Hv
      <4>3. ~ connected => held \cap Connection \subseteq {"monitor", "chanlock"}
        BY <3>2 DEF BusInv, HoldInv, HeldAfter
      <4> QED BY <4>2, <4>3
    <3> QED BY <3>1, <3>2 DEF LeaksAreKnown
  <2> QED BY <2>1, <2>2, <2>3 DEF HeldInv
<1> QED BY <1>1, BusInductive, PTL
=============================================================================
