--------------------------- MODULE IcServicesProofs ---------------------------
(***************************************************************************)
(* For any number of requests, samples and answers the ring has room for:  *)
(* a request is in the ring, in one of the two buffers, or answered, and   *)
(* what is done with it on the way is what the host expects.               *)
(***************************************************************************)
EXTENDS IcServices, TLAPS

RequestsOf(s) == Messages(s) \cup Negotiations
Pcs == {"out", "handle", "count", "set", "send", "halt"}
Packets == [id : Nat, type : Services \cup {"negotiate"}, data : Int]
Records == [again : BOOLEAN, packet : Packets]

InHand(c) == pc[c] \in {"handle", "count", "set", "send"}
Waiting(id) == \E k \in DOMAIN inbound : inbound[k] = id
Answered(id) == \E a \in answers : a.packet.id = id

Types ==
  /\ service \in Services
  /\ asked \in Seq(RequestsOf(service)) /\ inbound \in Seq(Nat) /\ outbound \in Seq(Packets)
  /\ Len(outbound) <= OutSize
  /\ pc \in [Contexts -> Pcs] /\ buf \in [Contexts -> Packets]
  /\ \A c \in Contexts : buf[c].id \in Ids \cup {0}
  /\ clock \in Ids \cup {0} /\ halted \subseteq Ids /\ answers \subseteq Records
  /\ woken \in BOOLEAN /\ started \in BOOLEAN /\ missed \in BOOLEAN

\* While n contexts are about to count, the count is at least n - 1.
Sampled ==
  /\ scnt \in -1 .. Samples /\ seen \in [Contexts -> -1 .. Samples]
  /\ \A c \in Contexts :
       pc[c] = "count" =>
         /\ scnt >= 0 /\ seen[c] >= 1
         /\ \A d \in Contexts :
              c # d /\ pc[d] = "count" => scnt >= 1 /\ scnt \in {seen[c], seen[d]}

\* What the samples may still come to is m * (m + 1) / 2 + scnt, for the greatest m that scnt
\* may be or be set back to: loading it changes nothing, and counting a sample lowers it by one.
Limit == Samples * (Samples + 3)
Spent(m) == 2 * sampled + m * (m + 1) + 2 * scnt
Bounded ==
  /\ sampled \in Nat /\ 2 * sampled <= Limit /\ Spent(scnt) <= Limit
  /\ \A c \in Contexts : pc[c] = "count" => Spent(seen[c]) <= Limit

\* A request is at one place.
Once ==
  /\ \A j, k \in DOMAIN inbound :
       inbound[j] \in Ids /\ (inbound[j] = inbound[k] => j = k)
  /\ \A c \in Contexts : pc[c] # "out" => buf[c].id \in Ids
  /\ \A c \in Contexts :
       InHand(c) =>
         /\ ~ Waiting(buf[c].id) /\ ~ Answered(buf[c].id)
         /\ \A d \in Contexts : c # d /\ InHand(d) => buf[c].id # buf[d].id
  /\ \A a \in answers : a.packet.id \in Ids /\ ~ Waiting(a.packet.id)
  /\ \A a, b \in answers : a.packet.id = b.packet.id => a = b

\* A buffer has what was asked, or what the host expects.
Right ==
  /\ \A c \in Contexts :
       InHand(c) =>
         LET m == asked[buf[c].id]
         IN /\ buf[c].type = m.type
            /\ pc[c] = "handle" => buf[c].data = m.data
            /\ pc[c] \in {"count", "set"} => m.type = "timesync" /\ buf[c].data = m.data
            /\ pc[c] = "send" => buf[c].data = Expected(m)
  /\ \A a \in answers : a.packet.data = Expected(asked[a.packet.id])

\* The halt comes after its answer.
HaltsAfter ==
  /\ \A c \in Contexts :
       pc[c] = "halt" =>
         \E a \in answers : a.packet.id = buf[c].id /\ Halts(a.packet)
  /\ HaltIsAnswered

IInv == Types /\ Sampled /\ Bounded /\ Once /\ Right /\ HaltsAfter

-----------------------------------------------------------------------------
\* What the callbacks rely on of a request.
LEMMA RequestFacts ==
  ASSUME NEW s \in Services, NEW m \in RequestsOf(s)
  PROVE  /\ m.type \in Services \cup {"negotiate"} /\ m.data \in Int
         /\ m.type = "negotiate" => m.data \in {3, 4}
         /\ m.type = "shutdown" => m.data \in {0, 1, 2}
         /\ m.type = "heartbeat" => m.data \in 0 .. SeqLimit - 1
<1> USE BoundsAssumption
<1>1. CASE m \in Negotiations
  BY <1>1 DEF Negotiations, Services
<1>2. CASE m \in Messages(s)
  <2>1. CASE s = "shutdown"
    BY <1>2, <2>1 DEF Messages, Services
  <2>2. CASE s = "heartbeat"
    BY <1>2, <2>2 DEF Messages, Services
  <2>3. CASE s = "timesync"
    BY <1>2, <2>3 DEF Messages, Services, Probe, Sync, Sample
  <2> QED BY <2>1, <2>2, <2>3 DEF Services
<1> QED BY <1>1, <1>2 DEF RequestsOf

\* Sequence numbers wrap to 0.
LEMMA NextNumber ==
  ASSUME NEW d \in 0 .. SeqLimit - 1
  PROVE  (d + 1) % SeqLimit = IF d = SeqLimit - 1 THEN 0 ELSE d + 1
<1> SeqLimit \in Nat \ {0} BY BoundsAssumption
<1>1. CASE d = SeqLimit - 1
  BY <1>1
<1>2. CASE d # SeqLimit - 1
  BY <1>2
<1> QED BY <1>1, <1>2

\* An answer that is put among the answers is one.
LEMMA RecordFacts ==
  ASSUME NEW again \in BOOLEAN, NEW p \in Packets
  PROVE  [again |-> again, packet |-> p] \in Records
BY DEF Records

\* A callback that stores other data in its packet leaves the rest of it, and the other buffer.
LEMMA PacketChanged ==
  ASSUME buf \in [Contexts -> Packets], NEW c \in Contexts, NEW x \in Int,
         Store(c, [buf[c] EXCEPT !.data = x])
  PROVE  /\ buf' \in [Contexts -> Packets]
         /\ \A d \in Contexts : buf'[d].id = buf[d].id /\ (d # c => buf'[d] = buf[d])
         /\ buf'[c].type = buf[c].type /\ buf'[c].data = x
<1> DEFINE p == [buf[c] EXCEPT !.data = x]
<1>1. p \in Packets /\ p.id = buf[c].id /\ p.type = buf[c].type /\ p.data = x
  BY DEF Packets
<1>2. buf' = [buf EXCEPT ![c] = p]
  BY DEF Store
<1> HIDE DEF p
<1> QED
  BY <1>1, <1>2

\* A packet a callback is at is a request of the host, and of a kind that is known.
LEMMA InHandFacts ==
  ASSUME IInv, NEW c \in Contexts, InHand(c)
  PROVE  LET m == asked[buf[c].id]
         IN /\ buf[c].id \in Ids /\ m \in RequestsOf(service) /\ buf[c].type = m.type
            /\ pc[c] = "handle" => buf[c].data = m.data
            /\ m.type \in Services \cup {"negotiate"} /\ m.data \in Int
            /\ m.type = "negotiate" => m.data \in {3, 4}
            /\ m.type = "shutdown" => m.data \in {0, 1, 2}
            /\ m.type = "heartbeat" => m.data \in 0 .. SeqLimit - 1
<1>1. buf[c].id \in Ids
  BY DEF IInv, Once, InHand
<1>2. asked[buf[c].id] \in RequestsOf(service)
  BY <1>1 DEF IInv, Types, Ids
<1>3. service \in Services
  BY DEF IInv, Types
<1>4. /\ buf[c].type = asked[buf[c].id].type
      /\ pc[c] = "handle" => buf[c].data = asked[buf[c].id].data
  BY DEF IInv, Right
<1> QED
  BY <1>1, <1>2, <1>3, <1>4, RequestFacts

-----------------------------------------------------------------------------
\* The three kinds of message that change their packet do the same but for what they put there,
\* which is what the host expects.
Message(c) == Negotiate(c) \/ ShutdownMessage(c) \/ Heartbeat(c)

LEMMA MessageHandled ==
  ASSUME IInv, NEW c \in Contexts, Message(c)
  PROVE  /\ pc[c] = "handle" /\ pc' = [pc EXCEPT ![c] = "send"]
         /\ buf' \in [Contexts -> Packets]
         /\ \A d \in Contexts : buf'[d].id = buf[d].id /\ (d # c => buf'[d] = buf[d])
         /\ buf'[c].type = buf[c].type /\ buf'[c].data = Expected(asked[buf[c].id])
         /\ UNCHANGED <<service, asked, inbound, outbound, samples, wake, clock, answers, halted>>
<1> DEFINE m == asked[buf[c].id]
<1>1. pc[c] = "handle" /\ InHand(c)
  BY DEF Message, Negotiate, ShutdownMessage, Heartbeat, InHand
<1>2. /\ buf[c].type = m.type /\ buf[c].data = m.data /\ m.data \in Int
      /\ m.type = "negotiate" => m.data \in {3, 4}
      /\ m.type = "shutdown" => m.data \in {0, 1, 2}
      /\ m.type = "heartbeat" => m.data \in 0 .. SeqLimit - 1
  BY <1>1, InHandFacts
<1>3. /\ pc' = [pc EXCEPT ![c] = "send"]
      /\ UNCHANGED <<service, asked, inbound, outbound, samples, wake, clock, answers, halted>>
  BY DEF Message, Negotiate, ShutdownMessage, Heartbeat, HaltsLater, Goes
<1>4. Expected(m) \in Int /\ Store(c, [buf[c] EXCEPT !.data = Expected(m)])
  <2> HIDE DEF m
  <2>1. CASE Negotiate(c)
    <3>1. Version(buf[c].data) = Expected(m) /\ Expected(m) \in Int
      BY <1>2, <2>1 DEF Negotiate, Version, Expected
    <3> QED
      BY <3>1, <2>1 DEF Negotiate
  <2>2. CASE ShutdownMessage(c)
    <3>1. (IF Flags(c) \in {0, 1} THEN Ok ELSE Fail) = Expected(m) /\ Expected(m) \in Int
      BY <1>2, <2>2 DEF ShutdownMessage, Flags, Ok, Fail, Expected
    <3> QED
      BY <3>1, <2>2 DEF ShutdownMessage
  <2>3. CASE Heartbeat(c)
    <3>1. m.data \in 0 .. SeqLimit - 1 /\ m.type = "heartbeat"
      BY <1>2, <2>3 DEF Heartbeat
    <3>2. (buf[c].data + 1) % SeqLimit = Expected(m) /\ Expected(m) \in Int
      BY <1>2, <3>1, NextNumber, BoundsAssumption DEF Expected
    <3> QED
      BY <3>2, <2>3 DEF Heartbeat
  <2> QED
    BY <2>1, <2>2, <2>3 DEF Message
<1>5. buf \in [Contexts -> Packets]
  BY DEF IInv, Types
<1> HIDE DEF m
<1>6. /\ buf' \in [Contexts -> Packets]
      /\ \A d \in Contexts : buf'[d].id = buf[d].id /\ (d # c => buf'[d] = buf[d])
      /\ buf'[c].type = buf[c].type /\ buf'[c].data = Expected(m)
  BY <1>4, <1>5, PacketChanged
<1> QED
  BY <1>1, <1>3, <1>6 DEF m

\* Nothing is done, or for want of a packet nothing but the timer is started.
Rests == UNCHANGED vars \/ \E c \in Contexts : ReceiveNothing(c)

LEMMA RestFacts ==
  ASSUME IInv, Rests
  PROVE  /\ UNCHANGED <<service, asked, inbound, outbound, pc, buf, scnt, seen, sampled, missed,
                        clock, answers, halted>>
         /\ woken' \in BOOLEAN /\ started' \in BOOLEAN
<1>1. CASE UNCHANGED vars
  BY <1>1 DEF vars, IInv, Types
<1>2. CASE \E c \in Contexts : ReceiveNothing(c)
  BY <1>2 DEF ReceiveNothing, EventTaken, StartsTimer, samples, IInv, Types
<1> QED
  BY <1>1, <1>2 DEF Rests

\* Sent or lost, an answer is the packet of the buffer.
Replies(c) == Answer(c) \/ AnswerLost(c)

LEMMA AnswerPut ==
  ASSUME IInv, NEW c \in Contexts, Replies(c)
  PROVE  /\ pc[c] = "send" /\ pc' = [pc EXCEPT ![c] = IF Halts(buf[c]) THEN "halt" ELSE "out"]
         /\ \E r \in Records : r.packet = buf[c] /\ answers' = answers \cup {r}
         /\ outbound' \in Seq(Packets) /\ Len(outbound') <= OutSize
         /\ UNCHANGED <<service, asked, inbound, buf, samples, woken, missed, clock, halted>>
         /\ started' \in {started, TRUE}
<1> DEFINE again == \E a \in answers : a.packet.id = buf[c].id
<1>1. buf[c] \in Packets /\ outbound \in Seq(Packets) /\ Len(outbound) <= OutSize /\ OutSize \in Nat
  BY BoundsAssumption DEF IInv, Types
<1>2. Record(c) = [again |-> again, packet |-> buf[c]] /\ again \in BOOLEAN
  BY DEF Record
<1>3. Record(c) \in Records /\ Record(c).packet = buf[c]
  <2> HIDE DEF again
  <2> QED
    BY <1>1, <1>2, RecordFacts
<1>4. \E a \in Records : a.packet = buf[c] /\ answers' = answers \cup {a}
  BY <1>3 DEF Replies, Answer, AnswerLost
<1>5. outbound' = outbound \/ (Len(outbound) < OutSize /\ outbound' = Append(outbound, buf[c]))
  BY DEF Replies, Answer, AnswerLost
<1>6. outbound' \in Seq(Packets) /\ Len(outbound') <= OutSize
  BY <1>1, <1>5
<1>7. /\ pc[c] = "send" /\ pc' = [pc EXCEPT ![c] = IF Halts(buf[c]) THEN "halt" ELSE "out"]
      /\ UNCHANGED <<service, asked, inbound, buf, samples, woken, missed, clock, halted>>
         /\ started' \in {started, TRUE}
  BY DEF Replies, Answer, AnswerLost, Reply, StartsTimer, Goes
<1> QED
  BY <1>4, <1>6, <1>7

\* The request a callback takes is known, and nothing else has it.
LEMMA RequestTaken ==
  ASSUME IInv, NEW c \in Contexts, Receive(c)
  PROVE  \E id \in Ids :
           /\ Waiting(id) /\ \A x : Waiting(x)' <=> Waiting(x) /\ x # id
           /\ inbound' \in Seq(Nat)
           /\ \A j, k \in DOMAIN inbound' :
                inbound'[j] \in Ids /\ (inbound'[j] = inbound'[k] => j = k)
           /\ buf' \in [Contexts -> Packets]
           /\ buf'[c].id = id /\ buf'[c].type = asked[id].type /\ buf'[c].data = asked[id].data
           /\ \A d \in Contexts : d # c => buf'[d] = buf[d]
           /\ pc[c] = "out" /\ pc' = [pc EXCEPT ![c] = "handle"]
           /\ UNCHANGED <<service, asked, outbound, samples, started, missed, clock, answers, halted>>
           /\ woken' \in {woken, FALSE}
<1> DEFINE id == Head(inbound)
           p == [id |-> id, type |-> asked[id].type, data |-> asked[id].data]
<1>1. /\ inbound \in Seq(Nat) /\ inbound # <<>> /\ inbound' = Tail(inbound)
      /\ pc[c] = "out" /\ pc' = [pc EXCEPT ![c] = "handle"]
      /\ buf' = [buf EXCEPT ![c] = p]
      /\ UNCHANGED <<service, asked, outbound, samples, started, missed, clock, answers, halted>>
           /\ woken' \in {woken, FALSE}
  BY DEF IInv, Types, Receive, EventTaken, IsCalled, Store, Goes
<1>2. /\ id = inbound[1] /\ DOMAIN inbound = 1 .. Len(inbound) /\ Len(inbound) \in Nat \ {0}
      /\ inbound' \in Seq(Nat) /\ DOMAIN inbound' = 1 .. Len(inbound) - 1
      /\ \A k \in DOMAIN inbound' : inbound'[k] = inbound[k + 1]
  BY <1>1
<1>3. \A j, k \in DOMAIN inbound : inbound[j] \in Ids /\ (inbound[j] = inbound[k] => j = k)
  BY DEF IInv, Once
<1>4. id \in Ids /\ id \in Nat /\ asked[id] \in RequestsOf(service) /\ service \in Services
  <2>1. 1 \in DOMAIN inbound
    BY <1>2
  <2>2. id \in Ids
    BY <1>2, <1>3, <2>1
  <2>3. asked \in Seq(RequestsOf(service)) /\ service \in Services
    BY DEF IInv, Types
  <2> QED
    BY <2>2, <2>3 DEF Ids
<1>5. p \in Packets
  BY <1>4, RequestFacts DEF Packets
<1>6. Waiting(id)
  BY <1>2 DEF Waiting
<1>7. ASSUME NEW x PROVE Waiting(x)' <=> Waiting(x) /\ x # id
  <2>1. ASSUME NEW k \in DOMAIN inbound' PROVE k + 1 \in DOMAIN inbound /\ inbound'[k] = inbound[k + 1]
    BY <1>2
  <2>2. ASSUME NEW k \in DOMAIN inbound, k # 1
        PROVE  k - 1 \in DOMAIN inbound' /\ inbound[k] = inbound'[k - 1]
    BY <1>2, <2>2
  <2>3. Waiting(x)' => Waiting(x) /\ x # id
    BY <1>2, <1>3, <2>1 DEF Waiting
  <2>4. Waiting(x) /\ x # id => Waiting(x)'
    BY <1>2, <2>2 DEF Waiting
  <2> QED
    BY <2>3, <2>4
<1>8. \A j, k \in DOMAIN inbound' : inbound'[j] \in Ids /\ (inbound'[j] = inbound'[k] => j = k)
  <2> SUFFICES ASSUME NEW j \in DOMAIN inbound', NEW k \in DOMAIN inbound'
               PROVE  inbound'[j] \in Ids /\ (inbound'[j] = inbound'[k] => j = k)
    OBVIOUS
  <2>1. /\ j + 1 \in DOMAIN inbound /\ inbound'[j] = inbound[j + 1]
        /\ k + 1 \in DOMAIN inbound /\ inbound'[k] = inbound[k + 1]
    BY <1>2
  <2>2. inbound[j + 1] \in Ids /\ (inbound[j + 1] = inbound[k + 1] => j + 1 = k + 1)
    BY <1>3, <2>1
  <2>3. j \in Int /\ k \in Int
    BY <1>2
  <2> QED
    BY <2>1, <2>2, <2>3
<1>9. buf \in [Contexts -> Packets]
  BY DEF IInv, Types
<1> HIDE DEF p
<1>10. buf' \in [Contexts -> Packets] /\ buf'[c] = p /\ \A d \in Contexts : d # c => buf'[d] = buf[d]
  BY <1>1, <1>5, <1>9
<1>11. p.id = id /\ p.type = asked[id].type /\ p.data = asked[id].data
  BY DEF p
<1> HIDE DEF id
<1> QED
  BY <1>1, <1>2, <1>4, <1>6, <1>7, <1>8, <1>10, <1>11

\* Nothing is asked, taken or answered at first.
LEMMA Start == Init => IInv
<1> SUFFICES ASSUME Init PROVE IInv
  OBVIOUS
<1>1. Empty \in Packets /\ Empty.id = 0
  BY DEF Empty, Packets
<1>2. Bounded
  <2>1. Samples \in Nat /\ Samples * (Samples + 3) = Samples * (Samples + 1) + 2 * Samples
    BY BoundsAssumption
  <2>2. Samples * (Samples + 1) \in Nat
    BY <2>1
  <2> QED
    BY <2>1, <2>2 DEF Init, Bounded, Spent, Limit
<1>3. Types
  <2>1. asked \in Seq(RequestsOf(service)) /\ inbound \in Seq(Nat) /\ outbound \in Seq(Packets)
    BY DEF Init
  <2>2. Len(outbound) <= OutSize
    BY BoundsAssumption DEF Init
  <2>3. woken \in BOOLEAN /\ started \in BOOLEAN /\ missed \in BOOLEAN
    BY DEF Init
  <2> QED
    BY <1>1, <2>1, <2>2, <2>3 DEF Init, Types, Pcs
<1> QED
  BY <1>1, <1>2, <1>3, BoundsAssumption
     DEF Init, IInv, Sampled, Once, Right, HaltsAfter, HaltIsAnswered, Pcs, InHand, Waiting,
         Answered, Ids, Contexts

\* Each step keeps the types.
LEMMA TypesKept == IInv /\ [Next]_vars => Types'
<1> SUFFICES ASSUME IInv, [Next]_vars PROVE Types'
  OBVIOUS
<1> USE BoundsAssumption DEF samples, wake, IInv, Types, Pcs, Ids
<1>1. ASSUME NEW m \in RequestsOf(service), HostAsks(m) PROVE Types'
  <2>1. woken' \in BOOLEAN /\ started' \in BOOLEAN /\ missed' \in BOOLEAN
    BY <1>1 DEF HostAsks, HostSignals
  <2> QED
    BY <1>1, <2>1 DEF HostAsks
<1>2. CASE HostReads
  BY <1>2 DEF HostReads
<1>3. ASSUME NEW c \in Contexts, Receive(c) PROVE Types'
  <2>1. woken' \in BOOLEAN /\ started' \in BOOLEAN /\ missed' \in BOOLEAN
    BY <1>3, RequestTaken
  <2>2. UNCHANGED <<service, asked, outbound, clock, answers, halted>>
    BY <1>3, RequestTaken
  <2>3. inbound' \in Seq(Nat) /\ buf' \in [Contexts -> Packets] /\ pc' \in [Contexts -> Pcs]
    BY <1>3, RequestTaken
  <2>4. \A d \in Contexts : buf'[d].id \in Ids \cup {0}
    BY <1>3, RequestTaken
  <2> QED
    BY <2>1, <2>2, <2>3, <2>4
<1>4. ASSUME NEW c \in Contexts, Message(c) PROVE Types'
  BY <1>4, MessageHandled
<1>5. ASSUME NEW c \in Contexts, TimeMessage(c) PROVE Types'
  BY <1>5 DEF TimeMessage, SamplesLeft, Goes
<1>6. ASSUME NEW c \in Contexts, CountSample(c) PROVE Types'
  BY <1>6 DEF CountSample, Goes
<1>7. ASSUME NEW c \in Contexts, SetClock(c) PROVE Types'
  BY <1>7 DEF SetClock, Goes
<1>8. ASSUME NEW c \in Contexts, Replies(c) PROVE Types'
  BY <1>8, AnswerPut
<1>9. ASSUME NEW c \in Contexts, ShutDown(c) PROVE Types'
  BY <1>9 DEF Once, ShutDown, StartsTimer, Goes
<1>10. CASE Rests
  BY <1>10, RestFacts
<1> QED
  BY <1>1, <1>2, <1>3, <1>4, <1>5, <1>6, <1>7, <1>8, <1>9, <1>10
     DEF Next, Callback, Message, Replies, Rests, RequestsOf

\* Each step keeps the count of samples in its bounds.
LEMMA SampledKept == IInv /\ [Next]_vars => Sampled'
<1> SUFFICES ASSUME IInv, [Next]_vars PROVE Sampled'
  OBVIOUS
<1> USE BoundsAssumption DEF samples, wake, IInv, Sampled, Types, Pcs, Contexts
<1>1. ASSUME NEW m \in RequestsOf(service), HostAsks(m) PROVE Sampled'
  BY <1>1 DEF HostAsks, HostSignals
<1>2. CASE HostReads
  BY <1>2 DEF HostReads
<1>3. ASSUME NEW c \in Contexts, Receive(c) PROVE Sampled'
  BY <1>3 DEF Receive, Store, Goes
<1>4. ASSUME NEW c \in Contexts, Message(c) PROVE Sampled'
  BY <1>4, MessageHandled
<1>5. ASSUME NEW c \in Contexts, TimeMessage(c) PROVE Sampled'
  BY <1>5 DEF TimeMessage, SamplesLeft, Goes
<1>6. ASSUME NEW c \in Contexts, CountSample(c) PROVE Sampled'
  BY <1>6 DEF CountSample, Goes
<1>7. ASSUME NEW c \in Contexts, SetClock(c) PROVE Sampled'
  BY <1>7 DEF SetClock, Goes
<1>8. ASSUME NEW c \in Contexts, Replies(c) PROVE Sampled'
  BY <1>8, AnswerPut
<1>9. ASSUME NEW c \in Contexts, ShutDown(c) PROVE Sampled'
  BY <1>9 DEF ShutDown, StartsTimer, Goes
<1>10. CASE Rests
  BY <1>10, RestFacts
<1> QED
  BY <1>1, <1>2, <1>3, <1>4, <1>5, <1>6, <1>7, <1>8, <1>9, <1>10
     DEF Next, Callback, Message, Replies, Rests, RequestsOf

\* A greater count may still come to more.
LEMMA MoreToCome ==
  ASSUME NEW m \in Nat, NEW n \in Nat, m <= n
  PROVE  m * (m + 1) <= n * (n + 1)
<1>1. n * (n + 1) = m * (m + 1) + (n - m) * (n + m + 1)
  OBVIOUS
<1>2. (n - m) \in Nat /\ (n + m + 1) \in Nat
  OBVIOUS
<1>3. \A a, b \in Nat : a * b \in Nat
  OBVIOUS
<1>4. (n - m) * (n + m + 1) \in Nat
  BY <1>2, <1>3
<1> QED
  BY <1>1, <1>4

\* What a count of n comes to when one is taken from it.
LEMMA OneTaken ==
  ASSUME NEW n \in Int
  PROVE  (n - 1) * (n - 1 + 1) = n * (n + 1) - 2 * n
OBVIOUS

\* A context that has loaded m while the count was n takes one from either.
LEMMA Counted ==
  ASSUME NEW limit \in Int, NEW s \in Nat, NEW m \in Nat \ {0}, NEW n \in Nat,
         2 * s + m * (m + 1) + 2 * n <= limit, 2 * s + n * (n + 1) + 2 * n <= limit
  PROVE  /\ 2 * (s + 1) <= limit
         /\ \A x \in {m - 1, n - 1} : 2 * (s + 1) + x * (x + 1) + 2 * x <= limit
<1>1. m * (m + 1) >= 1 * (1 + 1)
  BY MoreToCome
<1>2. m * (m + 1) \in Int /\ n * (n + 1) \in Int
  OBVIOUS
<1>3. /\ (m - 1) * (m - 1 + 1) = m * (m + 1) - 2 * m
      /\ (n - 1) * (n - 1 + 1) = n * (n + 1) - 2 * n
  BY OneTaken
<1> DEFINE mm == m * (m + 1)
           nn == n * (n + 1)
<1>4. mm \in Int /\ nn \in Int /\ mm >= 2 /\ 2 * s + mm + 2 * n <= limit /\ 2 * s + nn + 2 * n <= limit
  BY <1>1, <1>2
<1> HIDE DEF mm, nn
<1>5. /\ 2 * (s + 1) <= limit
      /\ 2 * (s + 1) + (mm - 2 * m) + 2 * (m - 1) <= limit
      /\ 2 * (s + 1) + (nn - 2 * n) + 2 * (n - 1) <= limit
  BY <1>4
<1> QED
  BY <1>3, <1>5 DEF mm, nn

\* While it did, another one had loaded l, and one of the two was the last to load.
LEMMA OtherCounted ==
  ASSUME NEW limit \in Int, NEW s \in Nat, NEW m \in Nat \ {0}, NEW l \in Nat \ {0},
         NEW n \in {m, l}, 2 * s + m * (m + 1) + 2 * n <= limit, 2 * s + l * (l + 1) + 2 * n <= limit
  PROVE  \A x \in {m - 1, n - 1} : 2 * (s + 1) + l * (l + 1) + 2 * x <= limit
<1> DEFINE mm == m * (m + 1)
           ll == l * (l + 1)
<1>1. mm \in Int /\ ll \in Int /\ 2 * s + mm + 2 * n <= limit /\ 2 * s + ll + 2 * n <= limit
  OBVIOUS
<1>2. l < m => ll <= mm - 2 * m
  <2> SUFFICES ASSUME l < m PROVE ll <= mm - 2 * m
    OBVIOUS
  <2>1. m - 1 \in Nat /\ l <= m - 1
    OBVIOUS
  <2>2. l * (l + 1) <= (m - 1) * (m - 1 + 1)
    BY <2>1, MoreToCome
  <2> QED
    BY <2>2, OneTaken
<1> HIDE DEF mm, ll
<1>3. 2 * (s + 1) + ll + 2 * (n - 1) <= limit
  BY <1>1
<1>4. 2 * (s + 1) + ll + 2 * (m - 1) <= limit
  BY <1>1, <1>2
<1> QED
  BY <1>3, <1>4 DEF ll

\* Each step keeps what the samples may come to.
LEMMA BoundedKept == IInv /\ [Next]_vars => Bounded'
<1> SUFFICES ASSUME IInv, [Next]_vars PROVE Bounded'
  OBVIOUS
<1> USE BoundsAssumption DEF samples, wake, IInv, Sampled, Bounded, Types, Pcs, Contexts, Spent, Limit
<1>1. ASSUME NEW m \in RequestsOf(service), HostAsks(m) PROVE Bounded'
  BY <1>1 DEF HostAsks, HostSignals
<1>2. CASE HostReads
  BY <1>2 DEF HostReads
<1>3. ASSUME NEW c \in Contexts, Receive(c) PROVE Bounded'
  BY <1>3 DEF Receive, Store, Goes
<1>4. ASSUME NEW c \in Contexts, Message(c) PROVE Bounded'
  BY <1>4, MessageHandled
<1>5. ASSUME NEW c \in Contexts, TimeMessage(c) PROVE Bounded'
  BY <1>5 DEF TimeMessage, SamplesLeft, Goes
<1>6. ASSUME NEW c \in Contexts, CountSample(c) PROVE Bounded'
  <2>1. /\ pc[c] = "count" /\ pc' = [pc EXCEPT ![c] = "set"]
        /\ sampled' = sampled + 1 /\ scnt' \in {seen[c] - 1, scnt - 1} /\ UNCHANGED seen
    BY <1>6 DEF CountSample, Goes
  <2>2. /\ seen[c] \in Nat \ {0} /\ scnt \in Nat /\ sampled \in Nat /\ Limit \in Int
        /\ Spent(seen[c]) <= Limit /\ Spent(scnt) <= Limit
    <3>1. Limit \in Int
      BY BoundsAssumption
    <3> HIDE DEF Spent, Limit
    <3> QED
      BY <2>1, <3>1
  <2>3. 2 * sampled' <= Limit' /\ Spent(scnt)' <= Limit'
    <3>1. /\ 2 * (sampled + 1) <= Limit
          /\ \A x \in {seen[c] - 1, scnt - 1} : 2 * (sampled + 1) + x * (x + 1) + 2 * x <= Limit
      <4> HIDE DEF IInv, Types, Sampled, Bounded, Limit
      <4> QED
        BY <2>2, Counted
    <3> QED
      BY <2>1, <3>1
  <2>4. ASSUME NEW d \in Contexts, pc'[d] = "count"
        PROVE  Spent(seen[d])' <= Limit'
    <3>1. d # c /\ pc[d] = "count" /\ seen'[d] = seen[d]
      BY <2>1, <2>4
    <3>2. seen[d] \in Nat \ {0} /\ scnt \in {seen[c], seen[d]} /\ Spent(seen[d]) <= Limit
      <4> HIDE DEF Spent, Limit
      <4> QED
        BY <2>1, <3>1
    <3>3. \A x \in {seen[c] - 1, scnt - 1} :
            2 * (sampled + 1) + seen[d] * (seen[d] + 1) + 2 * x <= Limit
      <4> HIDE DEF IInv, Types, Sampled, Bounded, Limit
      <4> QED
        BY <2>2, <3>2, OtherCounted
    <3> QED
      BY <2>1, <3>1, <3>3
  <2> QED
    BY <2>1, <2>2, <2>3, <2>4
<1>7. ASSUME NEW c \in Contexts, SetClock(c) PROVE Bounded'
  BY <1>7 DEF SetClock, Goes
<1>8. ASSUME NEW c \in Contexts, Replies(c) PROVE Bounded'
  BY <1>8, AnswerPut
<1>9. ASSUME NEW c \in Contexts, ShutDown(c) PROVE Bounded'
  BY <1>9 DEF ShutDown, StartsTimer, Goes
<1>10. CASE Rests
  BY <1>10, RestFacts
<1> QED
  BY <1>1, <1>2, <1>3, <1>4, <1>5, <1>6, <1>7, <1>8, <1>9, <1>10
     DEF Next, Callback, Message, Replies, Rests, RequestsOf

\* Each step keeps a request at one place.
LEMMA OnceKept == IInv /\ [Next]_vars => Once'
<1> SUFFICES ASSUME IInv, [Next]_vars PROVE Once'
  OBVIOUS
<1> USE BoundsAssumption DEF samples, wake, IInv, Once, Types, Waiting, Answered, InHand, Ids, Pcs
<1>1. ASSUME NEW m \in RequestsOf(service), HostAsks(m) PROVE Once'
  <2> DEFINE n == Len(asked) + 1
  <2>1. /\ Ids' = Ids \cup {n} /\ n \notin Ids
        /\ inbound' = Append(inbound, n) /\ UNCHANGED <<pc, buf, answers>>
    BY <1>1 DEF HostAsks, HostSignals
  <2>2. DOMAIN inbound' = DOMAIN inbound \cup {Len(inbound) + 1} /\ inbound'[Len(inbound) + 1] = n
    BY <2>1
  <2>3. \A k \in DOMAIN inbound : inbound'[k] = inbound[k] /\ k # Len(inbound) + 1
    BY <2>1
  <2>4. ASSUME NEW x \in Ids PROVE Waiting(x)' => Waiting(x)
    BY <2>1, <2>2, <2>3
  <2>5. \A j, k \in DOMAIN inbound' :
          inbound'[j] \in Ids' /\ (inbound'[j] = inbound'[k] => j = k)
    BY <2>1, <2>2, <2>3
  <2> HIDE DEF n, Ids, Waiting
  <2> QED
    BY <2>1, <2>4, <2>5
<1>2. CASE HostReads
  BY <1>2 DEF HostReads
<1>3. ASSUME NEW c \in Contexts, Receive(c) PROVE Once'
  <2>1. PICK id \in Ids :
          /\ Waiting(id) /\ \A x : Waiting(x)' <=> Waiting(x) /\ x # id
          /\ \A j, k \in DOMAIN inbound' :
               inbound'[j] \in Ids /\ (inbound'[j] = inbound'[k] => j = k)
          /\ buf'[c].id = id /\ \A d \in Contexts : d # c => buf'[d] = buf[d]
          /\ pc[c] = "out" /\ pc' = [pc EXCEPT ![c] = "handle"]
          /\ UNCHANGED <<asked, answers>>
    <3> HIDE DEF IInv, Once, Types, Waiting, Ids
    <3> QED
      BY <1>3, RequestTaken
  <2>2. Ids' = Ids /\ \A x : Answered(x)' <=> Answered(x)
    BY <2>1
  <2>3. ~ Answered(id) /\ \A d \in Contexts : InHand(d) => buf[d].id # id
    <3> HIDE DEF Waiting, InHand, Ids
    <3> QED
      BY <2>1
  <2>4. \A d \in Contexts : d # c => (InHand(d)' <=> InHand(d)) /\ pc'[d] = pc[d]
    BY <2>1
  <2>5. ASSUME NEW d \in Contexts, pc'[d] # "out"
        PROVE  /\ buf'[d].id \in Ids
               /\ d = c => buf'[d].id = id
               /\ d # c => buf'[d] = buf[d] /\ pc[d] # "out"
    BY <2>1, <2>4, <2>5
  <2> HIDE DEF Waiting, Ids, Answered, InHand
  <2>6. ASSUME NEW d \in Contexts, InHand(d)'
        PROVE  /\ ~ Waiting(buf[d].id)' /\ ~ Answered(buf[d].id)'
               /\ \A e \in Contexts : d # e /\ InHand(e)' => buf'[d].id # buf'[e].id
    <3>1. CASE d = c
      BY <2>1, <2>2, <2>3, <2>4, <2>6, <3>1
    <3>2. CASE d # c
      <4>1. InHand(d) /\ buf'[d] = buf[d] /\ buf[d].id # id
        BY <2>1, <2>3, <2>4, <2>6, <3>2
      <4>2. ~ Waiting(buf[d].id)' /\ ~ Answered(buf[d].id)'
        BY <2>1, <2>2, <4>1
      <4>3. ASSUME NEW e \in Contexts, d # e, InHand(e)' PROVE buf'[d].id # buf'[e].id
        <5>1. CASE e = c
          BY <2>1, <4>1, <5>1
        <5>2. CASE e # c
          <6>1. InHand(e) /\ buf'[e] = buf[e]
            BY <2>1, <2>4, <4>3, <5>2
          <6> QED
            BY <4>1, <4>3, <6>1
        <5> QED
          BY <5>1, <5>2
      <4> QED
        BY <4>2, <4>3
    <3> QED
      BY <3>1, <3>2
  <2>7. \A a \in answers' : a.packet.id \in Ids /\ ~ Waiting(a.packet.id)'
    BY <2>1
  <2> QED
    BY <2>1, <2>2, <2>5, <2>6, <2>7
<1>4. ASSUME NEW c \in Contexts, Message(c) PROVE Once'
  <2>1. /\ pc[c] = "handle" /\ pc' = [pc EXCEPT ![c] = "send"]
        /\ \A d \in Contexts : buf'[d].id = buf[d].id
        /\ UNCHANGED <<asked, inbound, answers>>
    BY <1>4, MessageHandled
  <2>2. Ids' = Ids /\ \A x : Waiting(x)' <=> Waiting(x)
    BY <2>1
  <2>3. \A d \in Contexts : (InHand(d)' <=> InHand(d)) /\ (pc'[d] # "out" => pc[d] # "out")
    <3>1. pc \in [Contexts -> Pcs]
      BY DEF Types
    <3> HIDE DEF Pcs, IInv, Once, Types
    <3> QED
      BY <2>1, <3>1
  <2>4. \A x : Answered(x)' <=> Answered(x)
    BY <2>1
  <2> HIDE DEF Waiting, Ids, InHand, Answered
  <2> QED
    BY <2>1, <2>2, <2>3, <2>4
<1>5. ASSUME NEW c \in Contexts, TimeMessage(c) PROVE Once'
  BY <1>5 DEF TimeMessage, SamplesLeft, Goes
<1>6. ASSUME NEW c \in Contexts, CountSample(c) PROVE Once'
  BY <1>6 DEF CountSample, Goes
<1>7. ASSUME NEW c \in Contexts, SetClock(c) PROVE Once'
  BY <1>7 DEF SetClock, Goes
<1>8. ASSUME NEW c \in Contexts, Replies(c) PROVE Once'
  <2>1. /\ pc[c] = "send" /\ pc' = [pc EXCEPT ![c] = IF Halts(buf[c]) THEN "halt" ELSE "out"]
        /\ UNCHANGED <<asked, inbound, buf>>
    BY <1>8, AnswerPut
  <2>2. PICK r \in Records : r.packet = buf[c] /\ answers' = answers \cup {r}
    BY <1>8, AnswerPut
  <2>3. Ids' = Ids /\ \A x : Waiting(x)' <=> Waiting(x)
    BY <2>1
  <2> HIDE DEF Waiting, Ids
  <2> QED
    BY <2>1, <2>2, <2>3
<1>9. ASSUME NEW c \in Contexts, ShutDown(c) PROVE Once'
  BY <1>9 DEF ShutDown, StartsTimer, Goes
<1>10. CASE Rests
  BY <1>10, RestFacts
<1> QED
  BY <1>1, <1>2, <1>3, <1>4, <1>5, <1>6, <1>7, <1>8, <1>9, <1>10
     DEF Next, Callback, Message, Replies, Rests, RequestsOf

\* Each step does with a request what the host expects.
LEMMA RightKept == IInv /\ [Next]_vars => Right'
<1> SUFFICES ASSUME IInv, [Next]_vars PROVE Right'
  OBVIOUS
<1> USE BoundsAssumption DEF samples, wake, IInv, Right, Once, Types, Answered, InHand, Ids, Pcs
<1>1. ASSUME NEW m \in RequestsOf(service), HostAsks(m) PROVE Right'
  <2>1. /\ \A k \in Ids : asked'[k] = asked[k]
        /\ UNCHANGED <<pc, buf, answers>>
    BY <1>1 DEF HostAsks
  <2> QED
    BY <2>1
<1>2. CASE HostReads
  BY <1>2 DEF HostReads
<1>3. ASSUME NEW c \in Contexts, Receive(c) PROVE Right'
  <2>1. PICK id \in Ids :
          /\ buf'[c].id = id /\ buf'[c].type = asked[id].type /\ buf'[c].data = asked[id].data
          /\ \A d \in Contexts : d # c => buf'[d] = buf[d]
          /\ pc[c] = "out" /\ pc' = [pc EXCEPT ![c] = "handle"]
          /\ UNCHANGED <<asked, answers>>
    <3> HIDE DEF IInv, Once, Types, Right, Ids
    <3> QED
      BY <1>3, RequestTaken
  <2> QED
    BY <2>1
<1>4. ASSUME NEW c \in Contexts, Message(c) PROVE Right'
  <2>1. /\ pc[c] = "handle" /\ pc' = [pc EXCEPT ![c] = "send"]
        /\ \A d \in Contexts : buf'[d].id = buf[d].id /\ (d # c => buf'[d] = buf[d])
        /\ buf'[c].type = buf[c].type /\ buf'[c].data = Expected(asked[buf[c].id])
        /\ UNCHANGED <<asked, answers>>
    BY <1>4, MessageHandled
  <2> QED
    BY <2>1
<1>5. ASSUME NEW c \in Contexts, TimeMessage(c) PROVE Right'
  <2>1. pc[c] = "handle" /\ buf[c].type = "timesync" /\ UNCHANGED <<asked, buf, answers>>
    BY <1>5 DEF TimeMessage
  <2>2. pc' = [pc EXCEPT ![c] = pc'[c]] /\ pc'[c] \in {"set", "count", "send"}
    BY <1>5 DEF TimeMessage, Goes
  <2>3. buf[c].type = asked[buf[c].id].type /\ buf[c].data = asked[buf[c].id].data
    BY <2>1
  <2>4. Expected(asked[buf[c].id]) = buf[c].data
    BY <2>1, <2>3 DEF Expected
  <2> QED
    BY <2>1, <2>2, <2>3, <2>4
<1>6. ASSUME NEW c \in Contexts, CountSample(c) PROVE Right'
  BY <1>6 DEF CountSample, Goes
<1>7. ASSUME NEW c \in Contexts, SetClock(c) PROVE Right'
  <2>1. pc[c] = "set" /\ pc' = [pc EXCEPT ![c] = "send"] /\ UNCHANGED <<asked, buf, answers>>
    BY <1>7 DEF SetClock, Goes
  <2>2. Expected(asked[buf[c].id]) = buf[c].data
    BY <2>1 DEF Expected
  <2> QED
    BY <2>1, <2>2
<1>8. ASSUME NEW c \in Contexts, Replies(c) PROVE Right'
  <2>1. /\ pc[c] = "send" /\ pc' = [pc EXCEPT ![c] = IF Halts(buf[c]) THEN "halt" ELSE "out"]
        /\ UNCHANGED <<asked, buf>>
    BY <1>8, AnswerPut
  <2>2. PICK r \in Records : r.packet = buf[c] /\ answers' = answers \cup {r}
    BY <1>8, AnswerPut
  <2> QED
    BY <2>1, <2>2
<1>9. ASSUME NEW c \in Contexts, ShutDown(c) PROVE Right'
  BY <1>9 DEF ShutDown, StartsTimer, Goes
<1>10. CASE Rests
  BY <1>10, RestFacts
<1> QED
  BY <1>1, <1>2, <1>3, <1>4, <1>5, <1>6, <1>7, <1>8, <1>9, <1>10
     DEF Next, Callback, Message, Replies, Rests, RequestsOf

\* Each step halts the machine for a request that was answered only.
LEMMA HaltsAfterKept == IInv /\ [Next]_vars => HaltsAfter'
<1> SUFFICES ASSUME IInv, [Next]_vars PROVE HaltsAfter'
  OBVIOUS
<1> USE BoundsAssumption DEF samples, wake, IInv, HaltsAfter, HaltIsAnswered, Types, Ids, Pcs
<1>1. ASSUME NEW m \in RequestsOf(service), HostAsks(m) PROVE HaltsAfter'
  BY <1>1 DEF HostAsks, HostSignals
<1>2. CASE HostReads
  BY <1>2 DEF HostReads
<1>3. ASSUME NEW c \in Contexts, Receive(c) PROVE HaltsAfter'
  <2>1. pc' = [pc EXCEPT ![c] = "handle"] /\ UNCHANGED <<answers, halted>>
    BY <1>3 DEF Receive, Goes
  <2>2. \A d \in Contexts : d # c => buf'[d] = buf[d]
    BY <1>3 DEF Receive, Store
  <2> QED
    BY <2>1, <2>2
<1>4. ASSUME NEW c \in Contexts, Message(c) PROVE HaltsAfter'
  <2>1. /\ pc[c] = "handle" /\ pc' = [pc EXCEPT ![c] = "send"]
        /\ \A d \in Contexts : buf'[d].id = buf[d].id
        /\ UNCHANGED <<answers, halted>>
    BY <1>4, MessageHandled
  <2> QED
    BY <2>1
<1>5. ASSUME NEW c \in Contexts, TimeMessage(c) PROVE HaltsAfter'
  BY <1>5 DEF TimeMessage, SamplesLeft, Goes
<1>6. ASSUME NEW c \in Contexts, CountSample(c) PROVE HaltsAfter'
  BY <1>6 DEF CountSample, Goes
<1>7. ASSUME NEW c \in Contexts, SetClock(c) PROVE HaltsAfter'
  BY <1>7 DEF SetClock, Goes
<1>8. ASSUME NEW c \in Contexts, Replies(c) PROVE HaltsAfter'
  <2>1. /\ pc[c] = "send" /\ pc' = [pc EXCEPT ![c] = IF Halts(buf[c]) THEN "halt" ELSE "out"]
        /\ UNCHANGED <<buf, halted>>
    BY <1>8, AnswerPut
  <2>2. PICK r \in Records : r.packet = buf[c] /\ answers' = answers \cup {r}
    BY <1>8, AnswerPut
  <2> QED
    BY <2>1, <2>2
<1>9. ASSUME NEW c \in Contexts, ShutDown(c) PROVE HaltsAfter'
  BY <1>9 DEF ShutDown, StartsTimer, Goes
<1>10. CASE Rests
  BY <1>10, RestFacts
<1> QED
  BY <1>1, <1>2, <1>3, <1>4, <1>5, <1>6, <1>7, <1>8, <1>9, <1>10
     DEF Next, Callback, Message, Replies, Rests, RequestsOf

-----------------------------------------------------------------------------
\* The parts of the invariant cover what the run checks.
LEMMA Enough == IInv => ServiceInv
<1> SUFFICES ASSUME IInv PROVE ServiceInv
  OBVIOUS
<1>1. TypeOK
  <2>1. \A k \in Ids : asked[k] \in Messages(service) \cup Negotiations
    BY DEF IInv, Types, Ids, RequestsOf
  <2>2. \A k \in DOMAIN inbound : inbound[k] \in Ids
    BY DEF IInv, Once
  <2>3. Len(outbound) \in 0 .. OutSize
    BY BoundsAssumption DEF IInv, Types
  <2> QED
    BY <2>1, <2>2, <2>3 DEF IInv, Types, Sampled, Bounded, Pcs, TypeOK
<1>2. AnswersBelong
  BY DEF IInv, Once, Right, AnswersBelong
<1>3. SamplesRunOut
  BY DEF IInv, Bounded, Limit, SamplesRunOut
<1> QED
  BY <1>1, <1>2, <1>3 DEF IInv, HaltsAfter, ServiceInv

\* Whatever the bounds and however the software interrupt and the timer overlap in the callbacks,
\* a request has one place and its packet is what was asked or what the host expects.
THEOREM OnePlace == Spec => []IInv
<1>1. IInv /\ [Next]_vars => IInv'
  BY TypesKept, SampledKept, BoundedKept, OnceKept, RightKept, HaltsAfterKept DEF IInv
<1> QED
  BY Start, <1>1, PTL DEF Spec

\* So the callbacks of the integration services answer every request at most once, under its id
\* and with what the host expects, call shutdown_nice only after they have said so, and set the
\* clock a bounded number of times by samples.
THEOREM ServicesAnswer == Spec => []ServiceInv
BY OnePlace, Enough, PTL

\* However a context is held between its test of scnt and its store, adj_guesttime sets the clock
\* by its n samples n * (n + 3) / 2 times at most: for the 50 of the code, 1325 times.
THEOREM SamplesEnd == Spec => []SamplesRunOut
<1>1. ServiceInv => SamplesRunOut
  BY DEF ServiceInv
<1> QED
  BY ServicesAnswer, <1>1, PTL

===============================================================================
