------------------------- MODULE RndisFilterProofs -------------------------
(***************************************************************************)
(* For any number of failures, calls, signals and link changes: the shared *)
(* buffers of a network channel are never reached after they were freed    *)
(* and none is lost unseen, a request of the RNDIS filter is answered by   *)
(* its own response and untouched once it is freed, and the interface is   *)
(* not mistaken about the filter and the link below it.                    *)
(***************************************************************************)
EXTENDS RndisFilter, Functions, TLAPS, SequenceTheorems, FiniteSetTheorems

\* Of a ring: at most one message of S is in it; those of A come before those
\* of B; and one of A has none of L behind it.
Once(q, S) == \A i, j \in DOMAIN q : q[i] \in S /\ q[j] \in S => i = j
Before(q, A, B) == \A i, j \in DOMAIN q : q[i] \in A /\ q[j] \in B => i < j
Final(q, A, L) ==
  \E i \in DOMAIN q : q[i] \in A /\ \A j \in DOMAIN q : j > i => q[j] \notin L

OutMessages ==
  InitMessages \cup BufferMessages \cup [type : {"rndis"}, of : DOMAIN reqs]
InMessages == Completions \cup RndisCompletions \cup RndisMessages

-----------------------------------------------------------------------------
(* The network channel: what its thread asked for is asked, answered or    *)
(* noted in the event, and once; and how far it is with each buffer.       *)

Asks == [type : {"init"}] \cup [type : {"offer"}, b : Buffers]
Replies == [type : NvspAnswers, n : 0 .. 2]

\* m is what the thread waits for the answer of.
Waits(t) ==
  \/ t \in {"init", "initComplete"} /\ step = "initWait"
  \/ t \in {"offer", "offerComplete"} /\ step = "offerWait"

AskedOnce ==
  /\ Once(toHost, Asks) /\ Once(fromHost, Replies)
  /\ \A m \in Range(toHost) \cap Asks :
       /\ Waits(m.type) /\ ~ initEvent /\ Range(fromHost) \cap Replies = {}
       /\ m.type = "offer" => m.b = buf /\ ~ inUse[buf]
  /\ \A r \in Range(fromHost) \cap Replies :
       /\ Waits(r.type) /\ ~ initEvent
       /\ r.type = "offerComplete" /\ inUse[buf] => r.n # 0
  /\ initEvent =>
       /\ Waits(initPacket.type)
       /\ initPacket.type = "offerComplete" /\ inUse[buf] => initPacket.n # 0

Untouched(b) == ~ allocated[b] /\ ~ mapped[b] /\ ~ inUse[b]

SettingUp ==
  /\ step \in {"open", "init", "initWait", "ndis"} =>
       buf = "recv" /\ Untouched("recv") /\ Untouched("send")
  /\ step = "alloc" => Untouched(buf)
  /\ step \in {"gpadl", "offer", "offerWait"} => allocated[buf]
  /\ step \in {"gpadl", "offer"} => ~ inUse[buf]
  /\ step \in {"offer", "offerWait"} => mapped[buf]
  /\ step \in {"alloc", "gpadl", "offer", "offerWait"} /\ buf = "recv" => Untouched("send")

Goals ==
  /\ step \in {"open", "init", "initWait", "ndis", "alloc", "gpadl", "offer", "offerWait",
               "up"} => goal = "add"
  /\ step = "waitSends" => goal = "remove" /\ buf = "recv"
  /\ step \in {"revoke", "teardown", "free"} => goal # "add"
  /\ call \notin {"none", "removed"} => step = "up"

\* A buffer is revoked before it is unmapped, and unmapped before it is freed.
Revoked(b) == inUse[b] => [type |-> "revoke", b |-> b] \in Range(toHost)

TakenBack ==
  /\ \A b \in Buffers : Revoked(b) \/ mapped[b]
  /\ \A b \in Buffers : Revoked(b) \/ sections[b] # 0 \/ (step = "offerWait" /\ buf = b)
  /\ step \in {"teardown", "free"} => Revoked(buf)
  /\ step = "free" => ~ mapped[buf]
  /\ \A b \in Buffers : mapped[b] => allocated[b]

Known(b) == allocated[b] => b \in kept

LeftBehind ==
  /\ step \in {"revoke", "teardown", "free"} =>
       /\ goal = "fail" /\ buf = "recv" => ~ allocated["send"]
       /\ goal = "remove" /\ buf = "send" => Known("recv")
  /\ step \in {"close", "gone"} =>
       \A b \in Buffers : Known(b) \/ (b = "recv" /\ goal = "fail" /\ buf = "send")

BInv == AskedOnce /\ SettingUp /\ Goals /\ TakenBack /\ LeftBehind

-----------------------------------------------------------------------------
(* The requests: each is sent, completed, answered, found and woken once.  *)

Sent(i) == [type |-> "rndis", of |-> i]
Completion(i) == [type |-> "sent", of |-> i]
RepliesTo(i) == [type : {"response"}, of : {i}, id : Nat, answer : Answers]

Unsent(i) == Sent(i) \notin Range(toHost)
NotCompleting(i) == Completion(i) \notin Range(fromHost)
Unanswered(i) == Range(fromHost) \cap RepliesTo(i) = {}
Unfound(i) == \A f \in found : f.of # i

\* Nothing of the request is left, at the host or on its way.
Done(i) == Unsent(i) /\ NotCompleting(i) /\ i \notin pending /\ Unanswered(i) /\ Unfound(i)

OneWay(i) ==
  /\ Once(toHost, {Sent(i)}) /\ Once(fromHost, RepliesTo(i))
  /\ Before(fromHost, {Completion(i)}, RepliesTo(i))
  /\ Unsent(i) \/ (i \notin pending /\ Unanswered(i) /\ Unfound(i))
  /\ i \in pending => Unanswered(i) /\ Unfound(i)
  /\ Unfound(i) \/ (Unanswered(i) /\ NotCompleting(i))
  /\ reqs[i].set => Done(i)
  /\ reqs[i].freed /\ i \notin interrupted /\ reqs[i].call # "halt" => Done(i)

Found ==
  /\ found \subseteq [req : DOMAIN reqs, of : DOMAIN reqs, answer : Answers]
  /\ \A f, g \in found : f = g
  /\ \A f \in found : f.req = f.of

Numbered ==
  /\ \A i, j \in DOMAIN reqs : i < j => reqs[i].id < reqs[j].id
  /\ \A i \in DOMAIN reqs : reqs[i].id <= newRequestId
  /\ \A m \in Range(fromHost) : m.type = "response" => m.id = reqs[m.of].id

\* At these the thread has no request.
Resting == {"none", "attach", "ready", "failed", "remove", "removed"}

InHand ==
  /\ Busy => /\ cur # 0 /\ reqs[cur].call = call /\ reqs[cur].arg = arg
             /\ cur \notin overdue \cup interrupted
  /\ rpc = "send" => Done(cur) /\ ~ reqs[cur].set
  /\ call \in Resting => rpc = "idle"

OneWays == \A i \in DOMAIN reqs : OneWay(i)

RInv == OneWays /\ Found /\ Numbered /\ InHand /\ ListedIsAwaited

-----------------------------------------------------------------------------
(* The interface and the device below it.                                  *)

\* Attach is over, and the device is not being removed.
Attached == call \in {"ready"} \cup FilterCalls

\* The state of the device, and of the interface, through attach and the calls.
StateOfCall ==
  /\ call \in {"init", "mac", "link", "attach"} \/ Attached => extension
  /\ call \in {"none", "init"} => ~ macResult
  /\ call \in {"none", "init", "mac", "link"} => ~ linkDown
  /\ call \in {"none", "init", "mac", "link", "attach"} => ~ running
  /\ call = "init" /\ Busy => rstate = "INITIALIZING"
  /\ call \in {"mac", "link", "attach"} =>
       rstate = "INITIALIZED" \/ (rstate = "UNINITIALIZED" /\ ~ macResult)
  /\ call \in {"mac", "link"} /\ rpc = "wait" /\ (reqs[cur].set \/ ~ Unfound(cur)) =>
       rstate = "INITIALIZED"
  /\ call = "attach" /\ linkDown => rstate = "INITIALIZED"
  /\ Attached => rstate \in {"INITIALIZED", "DATAINITIALIZED"}
  /\ call = "open" => rstate = "INITIALIZED" /\ arg = "promiscuous" /\ ~ running
  /\ call = "close" => rstate = "DATAINITIALIZED" /\ arg = "none" /\ ~ running
  /\ call = "mode" => arg = "directed"

\* As long as no filter request failed, the host has none but the present one,
\* and its filter is what the last one that was answered asked for.
Agreed(a) ==
  \/ reqs[cur].set /\ reqs[cur].answer = a
  \/ \E f \in found : f.of = cur /\ f.answer = a
  \/ \E m \in Range(fromHost) : m \in RepliesTo(cur) /\ m.answer = a

OneFilter ==
  \A i \in DOMAIN reqs :
    reqs[i].call \in FilterCalls /\ (~ Unsent(i) \/ i \in pending) => i = cur /\ rpc = "wait"

FilterSet ==
  /\ call \in FilterCalls /\ rpc = "wait" /\ Agreed("ok") => hostFilter = arg
  /\ call \in {"ready", "mode"} /\ running => rstate = "DATAINITIALIZED"
  /\ call \in {"ready", "mode"} /\ rstate = "DATAINITIALIZED" => hostFilter # "none"

FilterOfCall == ~ lapsed => OneFilter /\ FilterSet

\* Once the interface has an answer about the link, or word of it, it is not
\* mistaken that the link is down unless better news is on its way.
Links == [type : {"link"}, up : BOOLEAN]
Downs == [type : {"link"}, up : {FALSE}]
         \cup [type : {"response"}, of : Nat, id : Nat, answer : {"down"}]

Informed ==
  \/ Attached
  \/ call = "attach" /\ linkDown
  \/ call = "link" /\ rpc = "wait" /\
       (\/ reqs[cur].set /\ reqs[cur].answer = "down"
        \/ \E f \in found : f.of = cur /\ f.answer = "down")

NoNews == Range(fromHost) \cap Links = {}

LinkOfCall ==
  /\ Final(fromHost, Downs, Links) => ~ hostLink
  /\ Informed /\ ~ carrier /\ NoNews => ~ hostLink

IntInv == StateOfCall /\ FilterOfCall /\ LinkOfCall

IInv == TypeOK /\ BInv /\ RInv

-----------------------------------------------------------------------------
(* What the two steps of a ring, Append and Tail, do to these.             *)

\* A ring with one message more is the ring, and the message behind it.
LEMMA AppendShape ==
  ASSUME NEW T, NEW q \in Seq(T), NEW m \in T
  PROVE  /\ Append(q, m) \in Seq(T)
         /\ DOMAIN q = 1 .. Len(q) /\ Len(q) \in Nat
         /\ DOMAIN Append(q, m) = 1 .. Len(q) + 1
         /\ \A i \in 1 .. Len(q) : Append(q, m)[i] = q[i]
         /\ Append(q, m)[Len(q) + 1] = m
BY AppendProperties, LenProperties

\* The tail of a ring is the ring, each message one place further ahead.
LEMMA TailShape ==
  ASSUME NEW T, NEW q \in Seq(T), q # <<>>
  PROVE  /\ Tail(q) \in Seq(T) /\ Head(q) \in T /\ Head(q) = q[1]
         /\ DOMAIN q = 1 .. Len(q) /\ Len(q) \in Nat \ {0}
         /\ DOMAIN Tail(q) = 1 .. Len(q) - 1
         /\ \A i \in 1 .. Len(q) - 1 : Tail(q)[i] = q[i + 1] /\ i + 1 \in DOMAIN q
<1>1. /\ Tail(q) \in Seq(T) /\ Len(Tail(q)) = Len(q) - 1 /\ Head(q) \in T
      /\ \A i \in 1 .. Len(Tail(q)) : Tail(q)[i] = q[i + 1]
  BY HeadTailProperties
<1>2. DOMAIN q = 1 .. Len(q) /\ Len(q) \in Nat \ {0} /\ Head(q) = q[1]
  BY LenProperties
<1>3. DOMAIN Tail(q) = 1 .. Len(q) - 1
  BY <1>1, LenProperties
<1> QED
  BY <1>1, <1>2, <1>3

\* What is in a ring with one message more ...
LEMMA AppendRange ==
  ASSUME NEW T, NEW q \in Seq(T), NEW m \in T
  PROVE  Range(Append(q, m)) = Range(q) \cup {m}
<1>1. \A x \in Range(Append(q, m)) : x \in Range(q) \cup {m}
  BY AppendShape DEF Range
<1>2. \A x \in Range(q) : x \in Range(Append(q, m))
  BY AppendShape DEF Range
<1>3. m \in Range(Append(q, m))
  BY AppendShape DEF Range
<1> QED
  BY <1>1, <1>2, <1>3

\* ... and in one that lost its first.
LEMMA TailRange ==
  ASSUME NEW T, NEW q \in Seq(T), q # <<>>
  PROVE  /\ Range(q) = Range(Tail(q)) \cup {Head(q)}
         /\ Head(q) \in Range(q) /\ Range(Tail(q)) \subseteq Range(q)
<1>1. \A x \in Range(Tail(q)) : x \in Range(q)
  BY TailShape DEF Range
<1>2. Head(q) \in Range(q)
  BY TailShape DEF Range
<1>3. ASSUME NEW i \in DOMAIN q PROVE q[i] \in Range(Tail(q)) \cup {Head(q)}
  <2>1. CASE i = 1
    BY <2>1, TailShape
  <2>2. CASE i # 1
    <3>1. i - 1 \in DOMAIN Tail(q) /\ Tail(q)[i - 1] = q[i]
      BY <1>3, <2>2, TailShape
    <3> QED BY <3>1 DEF Range
  <2> QED BY <2>1, <2>2
<1> QED
  BY <1>1, <1>2, <1>3 DEF Range

\* What is in a ring may be sent on it.
LEMMA RangeTypes ==
  ASSUME NEW T, NEW q \in Seq(T)
  PROVE  Range(q) \subseteq T
BY ElementOfSeq, LenProperties DEF Range

\* A second message of S is not added to one ...
LEMMA OnceAppend ==
  ASSUME NEW T, NEW q \in Seq(T), NEW m \in T, NEW S, Once(q, S),
         m \notin S \/ Range(q) \cap S = {}
  PROVE  Once(Append(q, m), S)
<1>1. \A i \in DOMAIN Append(q, m) :
        \/ i \in DOMAIN q /\ Append(q, m)[i] = q[i]
        \/ i = Len(q) + 1 /\ Append(q, m)[i] = m
  BY AppendShape
<1>2. \A i \in DOMAIN q : q[i] \in Range(q)
  BY DEF Range
<1> QED
  BY <1>1, <1>2 DEF Once

\* ... and when the one of S is taken none is left.
LEMMA OnceTail ==
  ASSUME NEW T, NEW q \in Seq(T), q # <<>>, NEW S, Once(q, S)
  PROVE  /\ Once(Tail(q), S)
         /\ Head(q) \in S => Range(Tail(q)) \cap S = {}
<1>1. \A i \in DOMAIN Tail(q) :
        i \in Int /\ i + 1 \in DOMAIN q /\ Tail(q)[i] = q[i + 1] /\ i + 1 # 1
  BY TailShape
<1>2. Head(q) = q[1] /\ 1 \in DOMAIN q
  BY TailShape
<1>3. Once(Tail(q), S)
  <2> SUFFICES ASSUME NEW i \in DOMAIN Tail(q), NEW j \in DOMAIN Tail(q),
                      Tail(q)[i] \in S, Tail(q)[j] \in S
               PROVE  i = j
    BY DEF Once
  <2>1. i + 1 = j + 1
    BY <1>1 DEF Once
  <2> QED BY <1>1, <2>1
<1>4. Head(q) \in S => \A i \in DOMAIN Tail(q) : Tail(q)[i] \notin S
  BY <1>1, <1>2 DEF Once
<1> QED
  BY <1>3, <1>4 DEF Range

\* The order of the messages of A and of B, when one is added ...
LEMMA BeforeAppend ==
  ASSUME NEW T, NEW q \in Seq(T), NEW m \in T, NEW A, NEW B, Before(q, A, B),
         m \notin A \/ (m \notin B /\ Range(q) \cap B = {})
  PROVE  Before(Append(q, m), A, B)
<1>1. \A i \in DOMAIN Append(q, m) :
        \/ i \in DOMAIN q /\ Append(q, m)[i] = q[i]
        \/ i = Len(q) + 1 /\ Append(q, m)[i] = m
  BY AppendShape
<1>2. \A i \in DOMAIN q : q[i] \in Range(q) /\ i < Len(q) + 1
  BY AppendShape DEF Range
<1> QED
  BY <1>1, <1>2 DEF Before

\* ... and when the first is taken: if that is of B, no more of A is to come.
LEMMA BeforeTail ==
  ASSUME NEW T, NEW q \in Seq(T), q # <<>>, NEW A, NEW B, Before(q, A, B)
  PROVE  /\ Before(Tail(q), A, B)
         /\ Head(q) \in B => Range(q) \cap A = {}
<1>1. \A i \in DOMAIN Tail(q) :
        i \in Int /\ i + 1 \in DOMAIN q /\ Tail(q)[i] = q[i + 1]
  BY TailShape
<1>2. Head(q) = q[1] /\ 1 \in DOMAIN q /\ \A i \in DOMAIN q : i \in Int /\ ~ (i < 1)
  BY TailShape
<1>3. Before(Tail(q), A, B)
  <2> SUFFICES ASSUME NEW i \in DOMAIN Tail(q), NEW j \in DOMAIN Tail(q),
                      Tail(q)[i] \in A, Tail(q)[j] \in B
               PROVE  i < j
    BY DEF Before
  <2>1. i + 1 < j + 1
    BY <1>1 DEF Before
  <2> QED BY <1>1, <2>1
<1>4. Head(q) \in B => \A i \in DOMAIN q : q[i] \notin A
  BY <1>2 DEF Before
<1> QED
  BY <1>3, <1>4 DEF Range

\* The last of A before any of L, when a message is added ...
LEMMA FinalAppend ==
  ASSUME NEW T, NEW q \in Seq(T), NEW m \in T, NEW A, NEW L, Final(Append(q, m), A, L)
  PROVE  m \in A \/ (m \notin L /\ Final(q, A, L))
<1>1. /\ DOMAIN Append(q, m) = 1 .. Len(q) + 1 /\ DOMAIN q = 1 .. Len(q) /\ Len(q) \in Nat
      /\ \A i \in DOMAIN q : Append(q, m)[i] = q[i]
      /\ Append(q, m)[Len(q) + 1] = m
  BY AppendShape
<1>2. PICK i \in DOMAIN Append(q, m) :
        Append(q, m)[i] \in A /\ \A j \in DOMAIN Append(q, m) : j > i => Append(q, m)[j] \notin L
  BY DEF Final
<1>3. CASE i = Len(q) + 1
  BY <1>1, <1>2, <1>3
<1>4. CASE i # Len(q) + 1
  <2>1. i \in DOMAIN q /\ q[i] \in A
    BY <1>1, <1>2, <1>4
  <2>2. m \notin L
    BY <1>1, <1>2, <2>1
  <2>3. \A j \in DOMAIN q : j > i => q[j] \notin L
    BY <1>1, <1>2
  <2> QED BY <2>1, <2>2, <2>3 DEF Final
<1> QED
  BY <1>3, <1>4

\* ... and when the first is taken.
LEMMA FinalTail ==
  ASSUME NEW T, NEW q \in Seq(T), q # <<>>, NEW A, NEW L
  PROVE  /\ Final(Tail(q), A, L) => Final(q, A, L)
         /\ Head(q) \in A /\ Range(Tail(q)) \cap L = {} => Final(q, A, L)
<1>1. /\ \A i \in DOMAIN Tail(q) : i \in Int /\ i + 1 \in DOMAIN q /\ Tail(q)[i] = q[i + 1]
      /\ \A i \in DOMAIN q : i = 1 \/ (i - 1 \in DOMAIN Tail(q) /\ Tail(q)[i - 1] = q[i])
      /\ Head(q) = q[1] /\ 1 \in DOMAIN q /\ DOMAIN q \subseteq Int
  BY TailShape
<1>2. ASSUME NEW i \in DOMAIN Tail(q), Tail(q)[i] \in A,
             \A j \in DOMAIN Tail(q) : j > i => Tail(q)[j] \notin L
      PROVE  Final(q, A, L)
  <2>1. i + 1 \in DOMAIN q /\ q[i + 1] \in A
    BY <1>1, <1>2
  <2>2. ASSUME NEW j \in DOMAIN q, j > i + 1 PROVE q[j] \notin L
    <3>0. i >= 1
      BY TailShape
    <3>1. j # 1 /\ j - 1 > i
      BY <1>1, <2>2, <3>0
    <3> QED BY <1>1, <1>2, <3>1
  <2> QED BY <2>1, <2>2 DEF Final
<1>3. ASSUME Head(q) \in A, Range(Tail(q)) \cap L = {} PROVE Final(q, A, L)
  <2>1. ASSUME NEW j \in DOMAIN q, j > 1 PROVE q[j] \notin L
    <3>1. j - 1 \in DOMAIN Tail(q) /\ Tail(q)[j - 1] = q[j]
      BY <1>1, <2>1
    <3>2. q[j] \in Range(Tail(q))
      BY <3>1 DEF Range
    <3> QED BY <1>3, <3>2
  <2> QED BY <1>1, <1>3, <2>1 DEF Final
<1> QED
  BY <1>2, <1>3 DEF Final

-----------------------------------------------------------------------------
(* What the steps do to the requests.                                      *)

RequestCalls == FilterCalls \cup {"init", "mac", "link", "halt"}

\* The number, the call and the argument of a request do not change.
SameName(i) ==
  reqs'[i].id = reqs[i].id /\ reqs'[i].call = reqs[i].call /\ reqs'[i].arg = reqs[i].arg

SameCount == DOMAIN reqs' = DOMAIN reqs /\ Len(reqs') = Len(reqs)

\* The requests are numbered from 1 to cur.
LEMMA RequestShape ==
  ASSUME reqs \in Seq(Requests)
  PROVE  /\ cur \in Nat /\ DOMAIN reqs = 1 .. cur
         /\ \A i \in DOMAIN reqs : reqs[i] \in Requests
BY LenProperties, ElementOfSeq DEF cur

\* A list with one element replaced.
LEMMA ExceptShape ==
  ASSUME NEW T, NEW q \in Seq(T), NEW i \in DOMAIN q, NEW x \in T
  PROVE  /\ [q EXCEPT ![i] = x] \in Seq(T)
         /\ DOMAIN [q EXCEPT ![i] = x] = DOMAIN q
         /\ Len([q EXCEPT ![i] = x]) = Len(q)
         /\ [q EXCEPT ![i] = x][i] = x
         /\ \A j \in DOMAIN q \ {i} : [q EXCEPT ![i] = x][j] = q[j]
BY ExceptSeq, LenProperties

\* PutRndisRequest takes the request in hand out of the list and frees it.
LEMMA PutEffect ==
  ASSUME reqs \in Seq(Requests), cur # 0, Put
  PROVE  /\ reqs' \in Seq(Requests) /\ SameCount
         /\ \A i \in DOMAIN reqs : SameName(i)
         /\ \A i \in DOMAIN reqs \ {cur} : reqs'[i] = reqs[i]
         /\ ~ reqs'[cur].listed /\ reqs'[cur].freed /\ ~ reqs'[cur].set
<1> DEFINE r == reqs[cur]
           x == [r EXCEPT !.listed = FALSE, !.freed = TRUE, !.set = FALSE, !.answer = "none"]
<1>1. cur \in DOMAIN reqs /\ r \in Requests
  BY RequestShape
<1>2. /\ x \in Requests /\ x.id = r.id /\ x.call = r.call /\ x.arg = r.arg
      /\ x.listed = FALSE /\ x.freed = TRUE /\ x.set = FALSE
  BY <1>1 DEF Requests
<1>3. reqs' = [reqs EXCEPT ![cur] = x]
  BY DEF Put
<1> HIDE DEF x
<1>4. /\ reqs' \in Seq(Requests) /\ DOMAIN reqs' = DOMAIN reqs /\ Len(reqs') = Len(reqs)
      /\ reqs'[cur] = x
      /\ \A j \in DOMAIN reqs \ {cur} : reqs'[j] = reqs[j]
  BY <1>1, <1>2, <1>3, ExceptShape
<1>5. \A i \in DOMAIN reqs : SameName(i)
  BY <1>2, <1>4 DEF SameName
<1>6. ~ reqs'[cur].listed /\ reqs'[cur].freed /\ ~ reqs'[cur].set
  BY <1>2, <1>4
<1> QED
  BY <1>4, <1>5, <1>6 DEF SameCount

\* The callback writes the answer to the request it found, and to no other.
LEMMA WakeEffect ==
  ASSUME reqs \in Seq(Requests), Found, Wake
  PROVE  /\ reqs' \in Seq(Requests) /\ SameCount
         /\ \A i \in DOMAIN reqs : SameName(i)
         /\ \A i \in DOMAIN reqs :
              reqs'[i].listed = reqs[i].listed /\ reqs'[i].freed = reqs[i].freed
         /\ \E f \in found :
              /\ f.of \in DOMAIN reqs /\ reqs'[f.of].set /\ reqs'[f.of].answer = f.answer
              /\ \A i \in DOMAIN reqs \ {f.of} : reqs'[i] = reqs[i]
<1>1. PICK f \in found :
        reqs' = [reqs EXCEPT ![f.req].answer = f.answer, ![f.req].set = TRUE]
  BY DEF Wake
<1>2. f.req \in DOMAIN reqs /\ f.answer \in Answers /\ f.req = f.of
  BY DEF Found
<1> DEFINE k == f.req
           r == reqs[k]
           x == [[r EXCEPT !.answer = f.answer] EXCEPT !.set = TRUE]
<1>3. r \in Requests
  BY <1>2, RequestShape
<1>4. /\ x \in Requests /\ x.id = r.id /\ x.call = r.call /\ x.arg = r.arg
      /\ x.listed = r.listed /\ x.freed = r.freed /\ x.set = TRUE /\ x.answer = f.answer
  BY <1>2, <1>3 DEF Requests
<1>5. reqs' = [reqs EXCEPT ![k] = x]
  <2>1. DOMAIN reqs = 1 .. cur /\ cur \in Nat
    BY RequestShape
  <2> QED BY <1>1, <1>2, <2>1
<1> HIDE DEF x, k, r
<1>6. /\ reqs' \in Seq(Requests) /\ DOMAIN reqs' = DOMAIN reqs /\ Len(reqs') = Len(reqs)
      /\ reqs'[k] = x
      /\ \A j \in DOMAIN reqs \ {k} : reqs'[j] = reqs[j]
  BY <1>2, <1>4, <1>5, ExceptShape DEF k
<1>7. \A i \in DOMAIN reqs : SameName(i)
  BY <1>4, <1>6 DEF SameName, r
<1>8. \A i \in DOMAIN reqs :
        reqs'[i].listed = reqs[i].listed /\ reqs'[i].freed = reqs[i].freed
  BY <1>4, <1>6 DEF r
<1> QED
  BY <1>2, <1>4, <1>6, <1>7, <1>8 DEF SameCount, k

\* GetRndisRequest adds a listed request with a number of its own.
LEMMA GetEffect ==
  ASSUME TypeOK, GetRequest, call \in RequestCalls
  PROVE  /\ reqs' \in Seq(Requests) /\ Len(reqs') = cur + 1 /\ DOMAIN reqs' = 1 .. cur + 1
         /\ \A i \in DOMAIN reqs : reqs'[i] = reqs[i]
         /\ reqs'[cur + 1] = [id |-> RequestId(call), call |-> call, arg |-> arg,
                              listed |-> TRUE, freed |-> FALSE, set |-> FALSE,
                              answer |-> "none"]
         /\ RequestId(call) \in Nat /\ RequestId(call) > newRequestId
<1> DEFINE x == [id |-> RequestId(call), call |-> call, arg |-> arg,
                 listed |-> TRUE, freed |-> FALSE, set |-> FALSE, answer |-> "none"]
<1>1. RequestId(call) \in Nat /\ RequestId(call) > newRequestId
  BY DEF TypeOK, RequestId
<1>2. x \in Requests
  BY <1>1 DEF TypeOK, Requests, RequestCalls
<1>3. reqs \in Seq(Requests) /\ reqs' = Append(reqs, x)
  BY DEF TypeOK, GetRequest
<1> HIDE DEF x
<1>4. /\ Append(reqs, x) \in Seq(Requests) /\ DOMAIN reqs = 1 .. Len(reqs) /\ Len(reqs) \in Nat
      /\ DOMAIN Append(reqs, x) = 1 .. Len(reqs) + 1
      /\ \A i \in 1 .. Len(reqs) : Append(reqs, x)[i] = reqs[i]
      /\ Append(reqs, x)[Len(reqs) + 1] = x
  BY <1>2, <1>3, AppendShape
<1>5. Len(reqs') = Len(reqs) + 1
  BY <1>3, <1>4, LenProperties
<1> QED
  BY <1>1, <1>3, <1>4, <1>5 DEF cur, x

LEMMA Wider ==
  ASSUME NEW A, NEW B, A \subseteq B, NEW q \in Seq(A)
  PROVE  q \in Seq(B)
BY SeqDef, LenProperties, ElementOfSeq

-----------------------------------------------------------------------------
(* Types.                                                                  *)

\* What a step of the inner driver leaves to the filter.
InnerFrame ==
  /\ pending' = IF channelOpen' THEN pending ELSE {}
  /\ UNCHANGED <<thread, device, reqs, interface, found, hostFilter, hostLink, changes,
                 gone, calls>>

RingTypes == toHost \in Seq(OutMessages) /\ fromHost \in Seq(InMessages)

FilterTypes ==
  /\ rstate \in DeviceStates
  /\ {extension, macResult, linkDown, carrier, running, hostLink, lapsed} \subseteq BOOLEAN
  /\ newRequestId \in Nat /\ reqs \in Seq(Requests)
  /\ call \in RequestCalls \cup {"none", "attach", "ready", "failed", "remove", "removed"}
  /\ rpc \in {"idle", "get", "send", "wait"}
  /\ arg \in Filters /\ hostFilter \in Filters
  /\ calls \in 0 .. MaxCalls /\ changes \in 0 .. MaxChanges

IndexTypes ==
  /\ pending \cup overdue \cup interrupted \subseteq DOMAIN reqs
  /\ \A f \in found : {f.req, f.of} \subseteq DOMAIN reqs
  /\ Cardinality(interrupted) <= MaxSignals

\* The types, by component.
LEMMA TypeParts == TypeOK <=> NetVscTypeOK /\ RingTypes /\ FilterTypes /\ IndexTypes
<1>1. FilterCalls \cup {"none", "init", "mac", "link", "attach", "ready",
                        "failed", "halt", "remove", "removed"}
        = RequestCalls \cup {"none", "attach", "ready", "failed", "remove", "removed"}
  BY DEF RequestCalls
<1>2. TypeOK => NetVscTypeOK /\ RingTypes /\ FilterTypes /\ IndexTypes
  BY <1>1 DEF TypeOK, RingTypes, FilterTypes, IndexTypes, OutMessages, InMessages
<1>3. NetVscTypeOK /\ RingTypes /\ FilterTypes /\ IndexTypes => TypeOK
  BY <1>1 DEF TypeOK, RingTypes, FilterTypes, IndexTypes, OutMessages, InMessages
<1> QED
  BY <1>2, <1>3

\* Who may send a message of which type.
LEMMA OutKinds ==
  ASSUME NEW m \in OutMessages
  PROVE  /\ m.type \in {"init", "ndis", "offer", "revoke", "rndis"}
         /\ m.type \in {"offer", "revoke"} => m.b \in Buffers
         /\ m.type = "rndis" => m.of \in DOMAIN reqs /\ m = Sent(m.of)
BY DEF OutMessages, InitMessages, BufferMessages, Sent

\* What a message of each type has in it.
LEMMA InKinds ==
  ASSUME NEW m \in InMessages
  PROVE  /\ m.type \in {"initComplete", "offerComplete", "other"} =>
              m \in Completions /\ m.n \in 0 .. 2
         /\ m.type = "sent" => m.of \in DOMAIN reqs /\ m = Completion(m.of)
         /\ m.type = "response" =>
              m.of \in DOMAIN reqs /\ m.id \in Nat /\ m.answer \in Answers
         /\ m.type = "link" => m.up \in BOOLEAN
         /\ m.type \in {"initComplete", "offerComplete", "other", "sent", "response", "link"}
BY DEF InMessages, Completions, RndisCompletions, RndisMessages, NvspAnswers, Completion

\* The outcome of a call leaves its variables in their types.
LEMMA OutcomeTypes ==
  ASSUME NEW ok \in BOOLEAN, FilterTypes, call \in RequestCalls, Outcome(ok)
  PROVE  /\ rstate' \in DeviceStates /\ macResult' \in BOOLEAN /\ running' \in BOOLEAN
         /\ call' \in RequestCalls \cup {"none", "attach", "ready", "failed", "remove", "removed"}
         /\ rpc' \in {"idle", "get", "send", "wait"}
         /\ UNCHANGED <<extension, newRequestId, arg, carrier>>
<1>1. rstate' \in DeviceStates
  BY DEF Outcome, FilterTypes, DeviceStates
<1>2. macResult' \in BOOLEAN
  BY Zenon DEF Outcome, FilterTypes
<1>3. running' \in BOOLEAN
  BY Zenon DEF Outcome, FilterTypes
<1>4. call' \in RequestCalls \cup {"none", "attach", "ready", "failed", "remove", "removed"}
  BY DEF Outcome, RequestCalls
<1>5. rpc' \in {"idle", "get", "send", "wait"}
  BY DEF Outcome
<1> QED
  BY <1>1, <1>2, <1>3, <1>4, <1>5 DEF Outcome

\* The rings keep their types in each way a step may change them.
LEMMA OutStep ==
  ASSUME RingTypes, NEW m \in OutMessages, OutMessages' = OutMessages,
         \/ toHost' = toHost \/ toHost' = <<>> \/ toHost' = Append(toHost, m)
         \/ toHost # <<>> /\ toHost' = Tail(toHost)
  PROVE  toHost' \in Seq(OutMessages')
<1>1. toHost \in Seq(OutMessages)
  BY DEF RingTypes
<1>2. Append(toHost, m) \in Seq(OutMessages)
  BY <1>1, AppendShape
<1>3. toHost # <<>> => Tail(toHost) \in Seq(OutMessages)
  BY <1>1, TailShape
<1>4. <<>> \in Seq(OutMessages)
  BY EmptySeq
<1>5. toHost' \in Seq(OutMessages)
  BY <1>1, <1>2, <1>3, <1>4, Zenon
<1> QED
  BY <1>5

\* A step that leaves the rings and the number of requests leaves their types.
LEMMA RingsStay ==
  ASSUME RingTypes, DOMAIN reqs' = DOMAIN reqs, toHost' = toHost, fromHost' = fromHost
  PROVE  RingTypes'
<1>1. OutMessages' = OutMessages /\ InMessages' = InMessages
  BY DEF OutMessages, InMessages, RndisCompletions, RndisMessages
<1> QED
  BY <1>1 DEF RingTypes

\* What the host does with an NVSP message.
LEMMA NvspEffect ==
  ASSUME HostTakesNvsp
  PROVE  LET m == Head(toHost)
         IN  \/ /\ m.type = "init" /\ inUse' = inUse
                /\ \E n \in 0 .. 2 : fromHost' = Append(fromHost, [type |-> "initComplete",
                      n |-> n])
                /\ \E a \in Completions : fromHost' = Append(fromHost, a)
             \/ /\ m.type = "ndis" /\ inUse' = inUse
                /\ fromHost' = Append(fromHost, [type |-> "other", n |-> 0])
                /\ \E a \in Completions : fromHost' = Append(fromHost, a)
             \/ /\ m.type = "offer"
                /\ \E n \in 0 .. 2 :
                     /\ fromHost' = Append(fromHost, [type |-> "offerComplete", n |-> n])
                     /\ inUse' = [inUse EXCEPT ![m.b] = n > 0] /\ (n > 0) \in BOOLEAN
                /\ \E a \in Completions : fromHost' = Append(fromHost, a)
             \/ /\ m.type = "revoke" /\ fromHost' = fromHost
                /\ inUse' = [inUse EXCEPT ![m.b] = FALSE]
<1> DEFINE m == Head(toHost)
<1>1. \A n \in 0 .. 2 : [type |-> "initComplete", n |-> n] \in Completions
                         /\ [type |-> "offerComplete", n |-> n] \in Completions
  BY DEF Completions, NvspAnswers
<1>2. [type |-> "other", n |-> 0] \in Completions
  BY DEF Completions
<1>3. CASE m.type = "init" /\ (\E n \in 0 .. 2 : Answer("initComplete", n)) /\ inUse' = inUse
  BY <1>1, <1>3 DEF Answer
<1>4. CASE m.type = "ndis" /\ Answer("other", 0) /\ inUse' = inUse
  BY <1>2, <1>4 DEF Answer
<1>5. CASE /\ m.type = "offer"
           /\ \E n \in IF m.b = "recv" THEN 0 .. 2 ELSE 0 .. 1 :
                Answer("offerComplete", n) /\ inUse' = [inUse EXCEPT ![m.b] = n > 0]
  <2>0. (IF m.b = "recv" THEN 0 .. 2 ELSE 0 .. 1) \subseteq 0 .. 2
    OBVIOUS
  <2> HIDE DEF m
  <2>1. PICK n \in 0 .. 2 :
          Answer("offerComplete", n) /\ inUse' = [inUse EXCEPT ![m.b] = n > 0]
    <3>1. PICK n \in IF m.b = "recv" THEN 0 .. 2 ELSE 0 .. 1 :
            Answer("offerComplete", n) /\ inUse' = [inUse EXCEPT ![m.b] = n > 0]
      BY <1>5
    <3> QED
      BY <2>0, <3>1
  <2> USE DEF m
  <2>2. (n > 0) \in BOOLEAN
    OBVIOUS
  <2> QED
    BY <1>1, <1>5, <2>1, <2>2 DEF Answer
<1>6. CASE m.type = "revoke" /\ inUse' = [inUse EXCEPT ![m.b] = FALSE] /\ fromHost' = fromHost
  BY <1>6
<1> QED
  BY <1>3, <1>4, <1>5, <1>6 DEF HostTakesNvsp

\* Every step keeps the types of the network channel.
LEMMA NetVscTypesKept == NetVscTypeOK /\ RingTypes /\ AskedOnce /\ Next => NetVscTypeOK'
<1> SUFFICES ASSUME NetVscTypeOK, RingTypes, AskedOnce, Next PROVE NetVscTypeOK'
  OBVIOUS
<1>t. /\ NetVscTypeOK /\ RingTypes
      /\ {allocated, handle, mapped, inUse} \subseteq [Buffers -> BOOLEAN]
      /\ sections \in [Buffers -> 0 .. 2] /\ buf \in Buffers
      /\ MaxRefused \in Nat /\ refused \in 0 .. MaxRefused
  BY MaxRefusedAssumption DEF NetVscTypeOK
<1> USE DEF netvscRest, netvscVars, memory, answers, rings, rndisVars, thread, device, interface,
            host, gone, At, Fails, Sends, InnerFrame
<1>1. ASSUME OpenChannel, InnerFrame PROVE NetVscTypeOK'
  BY <1>t, <1>1 DEF OpenChannel, NetVscTypeOK, NetVscSteps, Buffers
<1>2. ASSUME SendInit, InnerFrame PROVE NetVscTypeOK'
  BY <1>t, <1>2 DEF SendInit, NetVscTypeOK, NetVscSteps, Buffers
<1>3. ASSUME InitAnswered, InnerFrame PROVE NetVscTypeOK'
  BY <1>t, <1>3 DEF InitAnswered, NetVscTypeOK, NetVscSteps, Buffers
<1>4. ASSUME SendNdis, InnerFrame PROVE NetVscTypeOK'
  BY <1>t, <1>4 DEF SendNdis, NetVscTypeOK, NetVscSteps, Buffers
<1>5. ASSUME AllocBuffer, InnerFrame PROVE NetVscTypeOK'
  BY <1>t, <1>5 DEF AllocBuffer, NetVscTypeOK, NetVscSteps, Buffers
<1>6. ASSUME EstablishGpadl, InnerFrame PROVE NetVscTypeOK'
  BY <1>t, <1>6 DEF EstablishGpadl, NetVscTypeOK, NetVscSteps, Buffers
<1>7. ASSUME SendOffer, InnerFrame PROVE NetVscTypeOK'
  BY <1>t, <1>7 DEF SendOffer, NetVscTypeOK, NetVscSteps, Buffers
<1>8. ASSUME OfferAnswered, InnerFrame PROVE NetVscTypeOK'
  <2>1. initPacket.n \in 0 .. 2
    BY <1>8 DEF OfferAnswered, AskedOnce, Waits, NetVscTypeOK, Completions
  <2> QED
    BY <1>t, <1>8, <2>1 DEF OfferAnswered, Accepted, NetVscTypeOK, NetVscSteps, Buffers
<1>9. ASSUME Revoke, InnerFrame PROVE NetVscTypeOK'
  BY <1>t, <1>9 DEF Revoke, NetVscTypeOK, NetVscSteps, Buffers
<1>10. ASSUME Teardown, InnerFrame PROVE NetVscTypeOK'
  BY <1>t, <1>10 DEF Teardown, NetVscTypeOK, NetVscSteps, Buffers
<1>11. ASSUME FreeBuffer, InnerFrame PROVE NetVscTypeOK'
  BY <1>t, <1>11 DEF FreeBuffer, Destroyed, NetVscTypeOK, NetVscSteps, Buffers
<1>12. ASSUME CloseChannel, InnerFrame PROVE NetVscTypeOK'
  BY <1>t, <1>12 DEF CloseChannel, NetVscTypeOK, NetVscSteps, Buffers
<1>13. ASSUME OpenFails, InnerFrame PROVE NetVscTypeOK'
  BY <1>t, <1>13 DEF OpenFails, NetVscTypeOK, NetVscSteps, Buffers
<1>14. ASSUME SendInitFails, InnerFrame PROVE NetVscTypeOK'
  BY <1>t, <1>14 DEF SendInitFails, NetVscTypeOK, NetVscSteps, Buffers
<1>15. ASSUME BufferFails, InnerFrame PROVE NetVscTypeOK'
  BY <1>t, <1>15 DEF BufferFails, NetVscTypeOK, NetVscSteps, Buffers
<1>16. ASSUME DestroyFails, InnerFrame PROVE NetVscTypeOK'
  BY <1>t, <1>16 DEF DestroyFails, Destroyed, NetVscTypeOK, NetVscSteps, Buffers
<1>17. ASSUME InnerCallback PROVE NetVscTypeOK'
  <2>1. fromHost # <<>> /\ fromHost \in Seq(InMessages)
    BY <1>17 DEF InnerCallback, OnSendCompletion, RingTypes
  <2>2. Head(fromHost) \in InMessages
    BY <2>1, TailShape
  <2>3. Head(fromHost).type \in NvspAnswers => Head(fromHost) \in Completions
        /\ Head(fromHost).type # "other"
    BY <2>2, InKinds DEF NvspAnswers
  <2>4. initPacket' \in {c \in Completions : c.type # "other"} \cup {[type |-> "none"]}
        /\ initEvent' \in BOOLEAN
    BY <1>t, <1>17, <2>3 DEF InnerCallback, OnSendCompletion, NetVscTypeOK
  <2> QED
    BY <1>t, <1>17, <2>4 DEF InnerCallback, OnSendCompletion, NetVscTypeOK
<1>18. ASSUME InnerHost PROVE NetVscTypeOK'
  <2>1. toHost # <<>> /\ toHost \in Seq(OutMessages)
    BY <1>18 DEF InnerHost, HostTakesNvsp, RingTypes
  <2>2. Head(toHost) \in OutMessages
    BY <2>1, TailShape
  <2>3. inUse' = inUse \/ \E b \in Buffers, v \in BOOLEAN : inUse' = [inUse EXCEPT ![b] = v]
    BY <1>18, <2>2, OutKinds, NvspEffect DEF InnerHost
  <2>4. inUse' \in [Buffers -> BOOLEAN]
    BY <1>t, <2>3
  <2> QED
    BY <1>t, <1>18, <2>4 DEF InnerHost, HostTakesNvsp, NetVscTypeOK
<1>19. ASSUME Remove PROVE NetVscTypeOK'
  BY <1>t, <1>19 DEF Remove, NetVscTypeOK, NetVscSteps, Buffers
<1>20. ASSUME SendsCompleted PROVE NetVscTypeOK'
  BY <1>t, <1>20 DEF SendsCompleted, NetVscTypeOK, NetVscSteps, Buffers
<1>21. ASSUME DeviceAdd PROVE NetVscTypeOK'
  BY <1>t, <1>21 DEF DeviceAdd, NetVscTypeOK, NetVscSteps, Buffers
<1>22. ASSUME GetRequest PROVE NetVscTypeOK'
  BY <1>t, <1>22 DEF GetRequest, NetVscTypeOK, NetVscSteps, Buffers
<1>23. ASSUME SendRequest PROVE NetVscTypeOK'
  BY <1>t, <1>23 DEF SendRequest, NetVscTypeOK, NetVscSteps, Buffers
<1>24. ASSUME SendRequestFails PROVE NetVscTypeOK'
  BY <1>t, <1>24 DEF SendRequestFails, NetVscTypeOK, NetVscSteps, Buffers
<1>25. ASSUME Answered PROVE NetVscTypeOK'
  BY <1>t, <1>25 DEF Answered, NetVscTypeOK, NetVscSteps, Buffers
<1>26. ASSUME TimeOut PROVE NetVscTypeOK'
  BY <1>t, <1>26 DEF TimeOut, NetVscTypeOK, NetVscSteps, Buffers
<1>27. ASSUME Interrupted PROVE NetVscTypeOK'
  BY <1>t, <1>27 DEF Interrupted, NetVscTypeOK, NetVscSteps, Buffers
<1>28. ASSUME Attach PROVE NetVscTypeOK'
  BY <1>t, <1>28 DEF Attach, NetVscTypeOK, NetVscSteps, Buffers
<1>29. ASSUME Up PROVE NetVscTypeOK'
  BY <1>t, <1>29 DEF Up, OpenDevice, Calls, NetVscTypeOK, NetVscSteps, Buffers
<1>30. ASSUME Stop PROVE NetVscTypeOK'
  BY <1>t, <1>30 DEF Stop, CloseDevice, Calls, NetVscTypeOK, NetVscSteps, Buffers
<1>31. ASSUME SetMode PROVE NetVscTypeOK'
  BY <1>t, <1>31 DEF SetMode, Calls, NetVscTypeOK, NetVscSteps, Buffers
<1>32. ASSUME Halt PROVE NetVscTypeOK'
  BY <1>t, <1>32 DEF Halt, NetVscTypeOK, NetVscSteps, Buffers
<1>33. ASSUME OnSendRequestCompletion PROVE NetVscTypeOK'
  BY <1>t, <1>33 DEF OnSendRequestCompletion, Receives, NetVscTypeOK, NetVscSteps, Buffers
<1>34. ASSUME ReceiveResponse PROVE NetVscTypeOK'
  BY <1>t, <1>34 DEF ReceiveResponse, Receives, NetVscTypeOK, NetVscSteps, Buffers
<1>35. ASSUME Wake PROVE NetVscTypeOK'
  BY <1>t, <1>35 DEF Wake, NetVscTypeOK, NetVscSteps, Buffers
<1>36. ASSUME ReceiveIndicateStatus PROVE NetVscTypeOK'
  BY <1>t, <1>36 DEF ReceiveIndicateStatus, Receives, NetVscTypeOK, NetVscSteps, Buffers
<1>37. ASSUME HostTakesRndis PROVE NetVscTypeOK'
  BY <1>t, <1>37 DEF HostTakesRndis, NetVscTypeOK, NetVscSteps, Buffers
<1>38. ASSUME HostAnswers PROVE NetVscTypeOK'
  BY <1>t, <1>38 DEF HostAnswers, NetVscTypeOK, NetVscSteps, Buffers
<1>39. ASSUME HostLinkChanges PROVE NetVscTypeOK'
  BY <1>t, <1>39 DEF HostLinkChanges, NetVscTypeOK, NetVscSteps, Buffers
<1> QED
  BY <1>1, <1>2, <1>3, <1>4, <1>5, <1>6, <1>7, <1>8, <1>9, <1>10, <1>11, <1>12, <1>13,
     <1>14, <1>15, <1>16, <1>17, <1>18, <1>19, <1>20, <1>21, <1>22, <1>23, <1>24, <1>25, <1>26,
     <1>27, <1>28, <1>29, <1>30, <1>31, <1>32, <1>33, <1>34, <1>35, <1>36, <1>37, <1>38, <1>39
  DEF Next, Inner, InnerFrame, NetVscThread, NetVscFails, ConnectToVsp, InitializeBuffer,
      DestroyBuffer, Thread, Callback, Host, Asked, Ioctl

\* Every step keeps the types of the rings.
LEMMA RingTypesKept ==
  NetVscTypeOK /\ RingTypes /\ FilterTypes /\ IndexTypes /\ Found /\ InHand /\ Next
    => RingTypes'
<1> SUFFICES ASSUME NetVscTypeOK, RingTypes, FilterTypes, IndexTypes, Found, InHand, Next
             PROVE  RingTypes'
  OBVIOUS
<1>t. reqs \in Seq(Requests) /\ buf \in Buffers /\ toHost \in Seq(OutMessages)
      /\ fromHost \in Seq(InMessages)
  BY DEF FilterTypes, NetVscTypeOK, RingTypes
<1>k. DOMAIN reqs' = DOMAIN reqs => OutMessages' = OutMessages /\ InMessages' = InMessages
  BY DEF OutMessages, InMessages, RndisCompletions, RndisMessages
<1>c. rpc \in {"send", "wait"} => cur # 0
  BY DEF InHand, Busy
<1>u. cur # 0 => cur \in DOMAIN reqs
  BY <1>t, RequestShape
<1> USE DEF netvscRest, netvscVars, memory, answers, rings, rndisVars, thread, device, interface,
            host, gone, At, Fails, Sends, InnerFrame
<1>1. ASSUME OpenChannel, InnerFrame PROVE RingTypes'
  <2>1. reqs' = reqs /\ toHost' = toHost /\ fromHost' = fromHost
    BY <1>1 DEF OpenChannel
  <2> QED
    BY <2>1, RingsStay
<1>2. ASSUME SendInit, InnerFrame PROVE RingTypes'
  <2> DEFINE m == [type |-> "init"]
  <2>1. m \in OutMessages
    BY <1>t DEF OutMessages, InitMessages, BufferMessages
  <2>2. reqs' = reqs /\ fromHost' = fromHost /\ (toHost' = Append(toHost, m) \/ toHost' = toHost)
    BY <1>2 DEF SendInit
  <2> HIDE DEF m
  <2>3. toHost' \in Seq(OutMessages')
    BY <1>k, <2>1, <2>2, OutStep
  <2>4. fromHost' \in Seq(InMessages')
    BY <1>k, <1>t, <2>2
  <2> QED
    BY <2>3, <2>4 DEF RingTypes
<1>3. ASSUME InitAnswered, InnerFrame PROVE RingTypes'
  <2>1. reqs' = reqs /\ toHost' = toHost /\ fromHost' = fromHost
    BY <1>3 DEF InitAnswered
  <2> QED
    BY <2>1, RingsStay
<1>4. ASSUME SendNdis, InnerFrame PROVE RingTypes'
  <2> DEFINE m == [type |-> "ndis"]
  <2>1. m \in OutMessages
    BY <1>t DEF OutMessages, InitMessages, BufferMessages
  <2>2. reqs' = reqs /\ fromHost' = fromHost /\ (toHost' = Append(toHost, m) \/ toHost' = toHost)
    BY <1>4 DEF SendNdis
  <2> HIDE DEF m
  <2>3. toHost' \in Seq(OutMessages')
    BY <1>k, <2>1, <2>2, OutStep
  <2>4. fromHost' \in Seq(InMessages')
    BY <1>k, <1>t, <2>2
  <2> QED
    BY <2>3, <2>4 DEF RingTypes
<1>5. ASSUME AllocBuffer, InnerFrame PROVE RingTypes'
  <2>1. reqs' = reqs /\ toHost' = toHost /\ fromHost' = fromHost
    BY <1>5 DEF AllocBuffer
  <2> QED
    BY <2>1, RingsStay
<1>6. ASSUME EstablishGpadl, InnerFrame PROVE RingTypes'
  <2>1. reqs' = reqs /\ toHost' = toHost /\ fromHost' = fromHost
    BY <1>6 DEF EstablishGpadl
  <2> QED
    BY <2>1, RingsStay
<1>7. ASSUME SendOffer, InnerFrame PROVE RingTypes'
  <2> DEFINE m == [type |-> "offer", b |-> buf]
  <2>1. m \in OutMessages
    BY <1>t DEF OutMessages, InitMessages, BufferMessages
  <2>2. reqs' = reqs /\ fromHost' = fromHost /\ (toHost' = Append(toHost, m) \/ toHost' = toHost)
    BY <1>7 DEF SendOffer
  <2> HIDE DEF m
  <2>3. toHost' \in Seq(OutMessages')
    BY <1>k, <2>1, <2>2, OutStep
  <2>4. fromHost' \in Seq(InMessages')
    BY <1>k, <1>t, <2>2
  <2> QED
    BY <2>3, <2>4 DEF RingTypes
<1>8. ASSUME OfferAnswered, InnerFrame PROVE RingTypes'
  <2>1. reqs' = reqs /\ toHost' = toHost /\ fromHost' = fromHost
    BY <1>8 DEF OfferAnswered, Accepted
  <2> QED
    BY <2>1, RingsStay
<1>9. ASSUME Revoke, InnerFrame PROVE RingTypes'
  <2> DEFINE m == [type |-> "revoke", b |-> buf]
  <2>1. m \in OutMessages
    BY <1>t DEF OutMessages, InitMessages, BufferMessages
  <2>2. reqs' = reqs /\ fromHost' = fromHost /\ (toHost' = Append(toHost, m) \/ toHost' = toHost)
    BY <1>9 DEF Revoke
  <2> HIDE DEF m
  <2>3. toHost' \in Seq(OutMessages')
    BY <1>k, <2>1, <2>2, OutStep
  <2>4. fromHost' \in Seq(InMessages')
    BY <1>k, <1>t, <2>2
  <2> QED
    BY <2>3, <2>4 DEF RingTypes
<1>10. ASSUME Teardown, InnerFrame PROVE RingTypes'
  <2>1. reqs' = reqs /\ toHost' = toHost /\ fromHost' = fromHost
    BY <1>10 DEF Teardown
  <2> QED
    BY <2>1, RingsStay
<1>11. ASSUME FreeBuffer, InnerFrame PROVE RingTypes'
  <2>1. reqs' = reqs /\ toHost' = toHost /\ fromHost' = fromHost
    BY <1>11 DEF FreeBuffer, Destroyed
  <2> QED
    BY <2>1, RingsStay
<1>12. ASSUME CloseChannel, InnerFrame PROVE RingTypes'
  <2>1. toHost' = <<>> /\ fromHost' = <<>>
    BY <1>12 DEF CloseChannel
  <2> QED
    BY <2>1, EmptySeq DEF RingTypes
<1>13. ASSUME OpenFails, InnerFrame PROVE RingTypes'
  <2>1. reqs' = reqs /\ toHost' = toHost /\ fromHost' = fromHost
    BY <1>13 DEF OpenFails
  <2> QED
    BY <2>1, RingsStay
<1>14. ASSUME SendInitFails, InnerFrame PROVE RingTypes'
  <2>1. reqs' = reqs /\ toHost' = toHost /\ fromHost' = fromHost
    BY <1>14 DEF SendInitFails
  <2> QED
    BY <2>1, RingsStay
<1>15. ASSUME BufferFails, InnerFrame PROVE RingTypes'
  <2>1. reqs' = reqs /\ toHost' = toHost /\ fromHost' = fromHost
    BY <1>15 DEF BufferFails
  <2> QED
    BY <2>1, RingsStay
<1>16. ASSUME DestroyFails, InnerFrame PROVE RingTypes'
  <2>1. reqs' = reqs /\ toHost' = toHost /\ fromHost' = fromHost
    BY <1>16 DEF DestroyFails, Destroyed
  <2> QED
    BY <2>1, RingsStay
<1>17. ASSUME InnerCallback PROVE RingTypes'
  <2>1. reqs' = reqs /\ toHost' = toHost /\ fromHost # <<>> /\ fromHost' = Tail(fromHost)
    BY <1>17 DEF InnerCallback, OnSendCompletion
  <2>2. Tail(fromHost) \in Seq(InMessages)
    BY <1>t, <2>1, TailShape
  <2> QED
    BY <1>k, <1>t, <2>1, <2>2 DEF RingTypes
<1>18. ASSUME InnerHost PROVE RingTypes'
  <2>1. reqs' = reqs /\ toHost # <<>> /\ toHost' = Tail(toHost)
    BY <1>18 DEF InnerHost, HostTakesNvsp
  <2>2. Tail(toHost) \in Seq(OutMessages)
    BY <1>t, <2>1, TailShape
  <2>3. fromHost' = fromHost \/ \E m \in Completions : fromHost' = Append(fromHost, m)
    BY <1>18, NvspEffect DEF InnerHost
  <2>4. \A m \in Completions : m \in InMessages
    BY DEF InMessages
  <2>5. fromHost' \in Seq(InMessages)
    BY <1>t, <2>3, <2>4, AppendShape
  <2> QED
    BY <1>k, <2>1, <2>2, <2>5 DEF RingTypes
<1>19. ASSUME Remove PROVE RingTypes'
  <2>1. reqs' = reqs /\ toHost' = toHost /\ fromHost' = fromHost
    BY <1>19 DEF Remove
  <2> QED
    BY <2>1, RingsStay
<1>20. ASSUME SendsCompleted PROVE RingTypes'
  <2>1. reqs' = reqs /\ toHost' = toHost /\ fromHost' = fromHost
    BY <1>20 DEF SendsCompleted
  <2> QED
    BY <2>1, RingsStay
<1>21. ASSUME DeviceAdd PROVE RingTypes'
  <2>1. reqs' = reqs /\ toHost' = toHost /\ fromHost' = fromHost
    BY <1>21 DEF DeviceAdd
  <2> QED
    BY <2>1, RingsStay
<1>22. ASSUME GetRequest PROVE RingTypes'
  <2>1. DOMAIN reqs \subseteq DOMAIN reqs'
    <3>1. call \in RequestCalls
      BY <1>22 DEF GetRequest, InHand, FilterTypes, Resting
    <3>2. DOMAIN reqs' = 1 .. cur + 1
      BY <1>22, <3>1, TypeParts, GetEffect
    <3>3. DOMAIN reqs = 1 .. cur /\ cur \in Nat
      BY <1>t, RequestShape
    <3> QED BY <3>2, <3>3
  <2>2. OutMessages \subseteq OutMessages'
    BY <2>1 DEF OutMessages
  <2>3. InMessages \subseteq InMessages'
    BY <2>1 DEF InMessages, RndisCompletions, RndisMessages
  <2>4. toHost' = toHost /\ fromHost' = fromHost
    BY <1>22 DEF GetRequest
  <2>5. toHost' \in Seq(OutMessages')
    BY <1>t, <2>2, <2>4, Wider
  <2>6. fromHost' \in Seq(InMessages')
    BY <1>t, <2>3, <2>4, Wider
  <2> QED
    BY <2>5, <2>6 DEF RingTypes
<1>23. ASSUME SendRequest PROVE RingTypes'
  <2> DEFINE m == [type |-> "rndis", of |-> cur]
  <2>1. DOMAIN reqs' = DOMAIN reqs
    BY <1>t, <1>c, <1>23, PutEffect DEF SendRequest, SameCount
  <2>2. m \in OutMessages /\ fromHost' = fromHost /\ toHost' = Append(toHost, m)
    BY <1>c, <1>u, <1>23 DEF SendRequest, OutMessages
  <2> HIDE DEF m
  <2>3. toHost' \in Seq(OutMessages')
    BY <1>k, <2>1, <2>2, OutStep
  <2>4. fromHost' \in Seq(InMessages')
    BY <1>k, <1>t, <2>1, <2>2
  <2> QED
    BY <2>3, <2>4 DEF RingTypes
<1>24. ASSUME SendRequestFails PROVE RingTypes'
  <2>1. DOMAIN reqs' = DOMAIN reqs
    BY <1>t, <1>c, <1>24, PutEffect DEF SendRequestFails, SameCount
  <2>2. toHost' = toHost /\ fromHost' = fromHost
    BY <1>24 DEF SendRequestFails
  <2> QED
    BY <2>1, <2>2, RingsStay
<1>25. ASSUME Answered PROVE RingTypes'
  <2>1. DOMAIN reqs' = DOMAIN reqs
    BY <1>t, <1>c, <1>25, PutEffect DEF Answered, SameCount
  <2>2. toHost' = toHost /\ fromHost' = fromHost
    BY <1>25 DEF Answered
  <2> QED
    BY <2>1, <2>2, RingsStay
<1>26. ASSUME TimeOut PROVE RingTypes'
  <2>1. reqs' = reqs /\ toHost' = toHost /\ fromHost' = fromHost
    BY <1>26 DEF TimeOut
  <2> QED
    BY <2>1, RingsStay
<1>27. ASSUME Interrupted PROVE RingTypes'
  <2>1. DOMAIN reqs' = DOMAIN reqs
    BY <1>t, <1>c, <1>27, PutEffect DEF Interrupted, SameCount
  <2>2. toHost' = toHost /\ fromHost' = fromHost
    BY <1>27 DEF Interrupted
  <2> QED
    BY <2>1, <2>2, RingsStay
<1>28. ASSUME Attach PROVE RingTypes'
  <2>1. reqs' = reqs /\ toHost' = toHost /\ fromHost' = fromHost
    BY <1>28 DEF Attach
  <2> QED
    BY <2>1, RingsStay
<1>29. ASSUME Up PROVE RingTypes'
  <2>1. reqs' = reqs /\ toHost' = toHost /\ fromHost' = fromHost
    BY <1>29 DEF Up, OpenDevice, Calls
  <2> QED
    BY <2>1, RingsStay
<1>30. ASSUME Stop PROVE RingTypes'
  <2>1. reqs' = reqs /\ toHost' = toHost /\ fromHost' = fromHost
    BY <1>30 DEF Stop, CloseDevice, Calls
  <2> QED
    BY <2>1, RingsStay
<1>31. ASSUME SetMode PROVE RingTypes'
  <2>1. reqs' = reqs /\ toHost' = toHost /\ fromHost' = fromHost
    BY <1>31 DEF SetMode, Calls
  <2> QED
    BY <2>1, RingsStay
<1>32. ASSUME Halt PROVE RingTypes'
  <2>1. reqs' = reqs /\ toHost' = toHost /\ fromHost' = fromHost
    BY <1>32 DEF Halt
  <2> QED
    BY <2>1, RingsStay
<1>33. ASSUME OnSendRequestCompletion PROVE RingTypes'
  <2>1. reqs' = reqs /\ toHost' = toHost /\ fromHost # <<>> /\ fromHost' = Tail(fromHost)
    BY <1>33 DEF OnSendRequestCompletion, Receives
  <2>2. Tail(fromHost) \in Seq(InMessages)
    BY <1>t, <2>1, TailShape
  <2> QED
    BY <1>k, <1>t, <2>1, <2>2 DEF RingTypes
<1>34. ASSUME ReceiveResponse PROVE RingTypes'
  <2>1. reqs' = reqs /\ toHost' = toHost /\ fromHost # <<>> /\ fromHost' = Tail(fromHost)
    BY <1>34 DEF ReceiveResponse, Receives
  <2>2. Tail(fromHost) \in Seq(InMessages)
    BY <1>t, <2>1, TailShape
  <2> QED
    BY <1>k, <1>t, <2>1, <2>2 DEF RingTypes
<1>35. ASSUME Wake PROVE RingTypes'
  <2>1. DOMAIN reqs' = DOMAIN reqs
    BY <1>t, <1>35, WakeEffect DEF SameCount
  <2>2. toHost' = toHost /\ fromHost' = fromHost
    BY <1>35 DEF Wake
  <2> QED
    BY <2>1, <2>2, RingsStay
<1>36. ASSUME ReceiveIndicateStatus PROVE RingTypes'
  <2>1. reqs' = reqs /\ toHost' = toHost /\ fromHost # <<>> /\ fromHost' = Tail(fromHost)
    BY <1>36 DEF ReceiveIndicateStatus, Receives
  <2>2. Tail(fromHost) \in Seq(InMessages)
    BY <1>t, <2>1, TailShape
  <2> QED
    BY <1>k, <1>t, <2>1, <2>2 DEF RingTypes
<1>37. ASSUME HostTakesRndis PROVE RingTypes'
  <2> DEFINE m == [type |-> "sent", of |-> Head(toHost).of]
  <2>1. /\ reqs' = reqs /\ toHost # <<>> /\ toHost' = Tail(toHost)
        /\ Head(toHost).type = "rndis" /\ fromHost' = Append(fromHost, m)
    BY <1>37 DEF HostTakesRndis
  <2>2. Tail(toHost) \in Seq(OutMessages) /\ Head(toHost) \in OutMessages
    BY <1>t, <2>1, TailShape
  <2>3. m \in InMessages
    BY <2>1, <2>2, OutKinds DEF InMessages, RndisCompletions
  <2> HIDE DEF m
  <2>4. fromHost' \in Seq(InMessages)
    BY <1>t, <2>1, <2>3, AppendShape
  <2> QED
    BY <1>k, <2>1, <2>2, <2>4 DEF RingTypes
<1>38. ASSUME HostAnswers PROVE RingTypes'
  <2>0. PICK i \in pending : \E w \in AnswersTo(reqs[i].call) :
          fromHost' = Append(fromHost, [type |-> "response", of |-> i, id |-> reqs[i].id,
                answer |-> w])
    BY <1>38 DEF HostAnswers
  <2>1. PICK w \in AnswersTo(reqs[i].call) :
          fromHost' = Append(fromHost, [type |-> "response", of |-> i, id |-> reqs[i].id,
                answer |-> w])
    BY <2>0
  <2>2. reqs' = reqs /\ toHost' = toHost
    BY <1>38 DEF HostAnswers
  <2> DEFINE m == [type |-> "response", of |-> i, id |-> reqs[i].id, answer |-> w]
  <2>3. i \in DOMAIN reqs /\ reqs[i].id \in Nat
    BY <1>t, RequestShape DEF IndexTypes, Requests
  <2>4. w \in Answers
    BY DEF AnswersTo, Answers
  <2>5. m \in InMessages
    BY <2>3, <2>4 DEF InMessages, RndisMessages
  <2>6. fromHost' = Append(fromHost, m)
    BY <2>1
  <2> HIDE DEF m
  <2>7. fromHost' \in Seq(InMessages)
    BY <1>t, <2>5, <2>6, AppendShape
  <2> QED
    BY <1>k, <1>t, <2>2, <2>7 DEF RingTypes
<1>39. ASSUME HostLinkChanges PROVE RingTypes'
  <2> DEFINE m == [type |-> "link", up |-> ~ hostLink]
  <2>1. reqs' = reqs /\ toHost' = toHost /\ fromHost' = Append(fromHost, m)
    BY <1>39 DEF HostLinkChanges
  <2>2. m \in InMessages
    BY DEF InMessages, RndisMessages
  <2> HIDE DEF m
  <2>3. fromHost' \in Seq(InMessages)
    BY <1>t, <2>1, <2>2, AppendShape
  <2> QED
    BY <1>k, <1>t, <2>1, <2>3 DEF RingTypes
<1> QED
  BY <1>1, <1>2, <1>3, <1>4, <1>5, <1>6, <1>7, <1>8, <1>9, <1>10, <1>11, <1>12, <1>13,
     <1>14, <1>15, <1>16, <1>17, <1>18, <1>19, <1>20, <1>21, <1>22, <1>23, <1>24, <1>25, <1>26,
     <1>27, <1>28, <1>29, <1>30, <1>31, <1>32, <1>33, <1>34, <1>35, <1>36, <1>37, <1>38, <1>39
  DEF Next, Inner, InnerFrame, NetVscThread, NetVscFails, ConnectToVsp, InitializeBuffer,
      DestroyBuffer, Thread, Callback, Host, Asked, Ioctl

\* Every step keeps the types of the filter, the interface and the host.
LEMMA FilterTypesKept ==
  FilterTypes /\ IndexTypes /\ RingTypes /\ NetVscTypeOK /\ Found /\ InHand /\ Next
    => FilterTypes'
<1> SUFFICES ASSUME FilterTypes, IndexTypes, RingTypes, NetVscTypeOK, Found, InHand, Next
             PROVE  FilterTypes'
  OBVIOUS
<1>t. /\ rstate \in DeviceStates
      /\ {extension, macResult, linkDown, carrier, running, hostLink, lapsed} \subseteq BOOLEAN
      /\ newRequestId \in Nat /\ reqs \in Seq(Requests)
      /\ call \in RequestCalls \cup {"none", "attach", "ready", "failed", "remove", "removed"}
      /\ rpc \in {"idle", "get", "send", "wait"} /\ arg \in Filters /\ hostFilter \in Filters
      /\ calls \in 0 .. MaxCalls /\ changes \in 0 .. MaxChanges
      /\ MaxCalls \in Nat /\ MaxChanges \in Nat
  BY BoundsAssumption DEF FilterTypes
<1>c. rpc \in {"send", "wait"} => cur # 0
  BY DEF InHand, Busy
<1>r. rpc # "idle" => call \in RequestCalls
  BY <1>t DEF InHand, Resting
<1> USE DEF netvscRest, netvscVars, memory, answers, rings, rndisVars, thread, device, interface,
            host, gone, At, Fails, Sends, InnerFrame
<1>1. ASSUME OpenChannel, InnerFrame PROVE FilterTypes'
  BY <1>t, <1>1 DEF FilterTypes
<1>2. ASSUME SendInit, InnerFrame PROVE FilterTypes'
  BY <1>t, <1>2 DEF FilterTypes
<1>3. ASSUME InitAnswered, InnerFrame PROVE FilterTypes'
  BY <1>t, <1>3 DEF FilterTypes
<1>4. ASSUME SendNdis, InnerFrame PROVE FilterTypes'
  BY <1>t, <1>4 DEF FilterTypes
<1>5. ASSUME AllocBuffer, InnerFrame PROVE FilterTypes'
  BY <1>t, <1>5 DEF FilterTypes
<1>6. ASSUME EstablishGpadl, InnerFrame PROVE FilterTypes'
  BY <1>t, <1>6 DEF FilterTypes
<1>7. ASSUME SendOffer, InnerFrame PROVE FilterTypes'
  BY <1>t, <1>7 DEF FilterTypes
<1>8. ASSUME OfferAnswered, InnerFrame PROVE FilterTypes'
  BY <1>t, <1>8 DEF FilterTypes
<1>9. ASSUME Revoke, InnerFrame PROVE FilterTypes'
  BY <1>t, <1>9 DEF FilterTypes
<1>10. ASSUME Teardown, InnerFrame PROVE FilterTypes'
  BY <1>t, <1>10 DEF FilterTypes
<1>11. ASSUME FreeBuffer, InnerFrame PROVE FilterTypes'
  BY <1>t, <1>11 DEF FilterTypes
<1>12. ASSUME CloseChannel, InnerFrame PROVE FilterTypes'
  BY <1>t, <1>12 DEF FilterTypes
<1>13. ASSUME OpenFails, InnerFrame PROVE FilterTypes'
  BY <1>t, <1>13 DEF FilterTypes
<1>14. ASSUME SendInitFails, InnerFrame PROVE FilterTypes'
  BY <1>t, <1>14 DEF FilterTypes
<1>15. ASSUME BufferFails, InnerFrame PROVE FilterTypes'
  BY <1>t, <1>15 DEF FilterTypes
<1>16. ASSUME DestroyFails, InnerFrame PROVE FilterTypes'
  BY <1>t, <1>16 DEF FilterTypes
<1>17. ASSUME InnerCallback PROVE FilterTypes'
  BY <1>t, <1>17 DEF InnerCallback, OnSendCompletion, FilterTypes, RequestCalls, FilterCalls,
     Filters
<1>18. ASSUME InnerHost PROVE FilterTypes'
  BY <1>t, <1>18 DEF InnerHost, HostTakesNvsp, Answer, FilterTypes, RequestCalls, FilterCalls,
     Filters
<1>19. ASSUME Remove PROVE FilterTypes'
  BY <1>t, <1>19 DEF Remove, FilterTypes, RequestCalls, FilterCalls, Filters
<1>20. ASSUME SendsCompleted PROVE FilterTypes'
  BY <1>t, <1>20 DEF SendsCompleted, FilterTypes, RequestCalls, FilterCalls, Filters
<1>21. ASSUME DeviceAdd PROVE FilterTypes'
  BY <1>t, <1>21 DEF DeviceAdd, FilterTypes, RequestCalls, FilterCalls, Filters
<1>22. ASSUME GetRequest PROVE FilterTypes'
  <2>1. reqs' \in Seq(Requests) /\ newRequestId' \in Nat
    BY <1>r, <1>22, TypeParts, GetEffect DEF GetRequest
  <2> QED
    BY <1>t, <1>22, <2>1 DEF GetRequest, FilterTypes, DeviceStates
<1>23. ASSUME SendRequest PROVE FilterTypes'
  <2>1. CASE call = "halt"
    <3>1. reqs' \in Seq(Requests)
      BY <1>t, <1>c, <1>23, <2>1, PutEffect DEF SendRequest
    <3>2. Outcome(TRUE)
      BY <1>23, <2>1 DEF SendRequest
    <3>3. /\ rstate' \in DeviceStates /\ macResult' \in BOOLEAN /\ running' \in BOOLEAN
          /\ call' \in RequestCalls
                \cup {"none", "attach", "ready", "failed", "remove", "removed"}
          /\ rpc' \in {"idle", "get", "send", "wait"}
          /\ UNCHANGED <<extension, newRequestId, arg, carrier>>
      BY <1>r, <1>23, <3>2, OutcomeTypes DEF SendRequest
    <3> QED
      BY <1>t, <1>23, <3>1, <3>3 DEF SendRequest, FilterTypes
  <2>2. CASE call # "halt"
    BY <1>t, <1>23, <2>2 DEF SendRequest, FilterTypes
  <2> QED BY <2>1, <2>2
<1>24. ASSUME SendRequestFails PROVE FilterTypes'
  <2>1. reqs' \in Seq(Requests)
    BY <1>t, <1>c, <1>24, PutEffect DEF SendRequestFails
  <2>2. PICK ok \in BOOLEAN : Outcome(ok)
    BY <1>t, <1>r, <1>24 DEF SendRequestFails
  <2>3. /\ rstate' \in DeviceStates /\ macResult' \in BOOLEAN /\ running' \in BOOLEAN
        /\ call' \in RequestCalls \cup {"none", "attach", "ready", "failed", "remove", "removed"}
        /\ rpc' \in {"idle", "get", "send", "wait"}
        /\ UNCHANGED <<extension, newRequestId, arg, carrier>>
    BY <1>r, <1>24, <2>2, OutcomeTypes DEF SendRequestFails
  <2>4. linkDown' \in BOOLEAN /\ lapsed' \in BOOLEAN
    BY <1>t, <1>24, Zenon DEF SendRequestFails
  <2>5. UNCHANGED <<hostLink, hostFilter, calls, changes>>
    BY <1>24 DEF SendRequestFails
  <2> QED
    BY <1>t, <2>1, <2>3, <2>4, <2>5 DEF FilterTypes
<1>25. ASSUME Answered PROVE FilterTypes'
  <2>1. reqs' \in Seq(Requests)
    BY <1>t, <1>c, <1>25, PutEffect DEF Answered
  <2>2. PICK ok \in BOOLEAN : Outcome(ok)
    BY <1>t, <1>r, <1>25 DEF Answered
  <2>3. /\ rstate' \in DeviceStates /\ macResult' \in BOOLEAN /\ running' \in BOOLEAN
        /\ call' \in RequestCalls \cup {"none", "attach", "ready", "failed", "remove", "removed"}
        /\ rpc' \in {"idle", "get", "send", "wait"}
        /\ UNCHANGED <<extension, newRequestId, arg, carrier>>
    BY <1>r, <1>25, <2>2, OutcomeTypes DEF Answered
  <2>4. linkDown' \in BOOLEAN /\ lapsed' \in BOOLEAN
    BY <1>t, <1>25, Zenon DEF Answered
  <2>5. UNCHANGED <<hostLink, hostFilter, calls, changes>>
    BY <1>25 DEF Answered
  <2> QED
    BY <1>t, <2>1, <2>3, <2>4, <2>5 DEF FilterTypes
<1>26. ASSUME TimeOut PROVE FilterTypes'
  <2>1. reqs' \in Seq(Requests)
    BY <1>t, <1>26 DEF TimeOut
  <2>2. PICK ok \in BOOLEAN : Outcome(ok)
    BY <1>t, <1>r, <1>26 DEF TimeOut
  <2>3. /\ rstate' \in DeviceStates /\ macResult' \in BOOLEAN /\ running' \in BOOLEAN
        /\ call' \in RequestCalls \cup {"none", "attach", "ready", "failed", "remove", "removed"}
        /\ rpc' \in {"idle", "get", "send", "wait"}
        /\ UNCHANGED <<extension, newRequestId, arg, carrier>>
    BY <1>r, <1>26, <2>2, OutcomeTypes DEF TimeOut
  <2>4. linkDown' \in BOOLEAN /\ lapsed' \in BOOLEAN
    BY <1>t, <1>26, Zenon DEF TimeOut
  <2>5. UNCHANGED <<hostLink, hostFilter, calls, changes>>
    BY <1>26 DEF TimeOut
  <2> QED
    BY <1>t, <2>1, <2>3, <2>4, <2>5 DEF FilterTypes
<1>27. ASSUME Interrupted PROVE FilterTypes'
  <2>1. reqs' \in Seq(Requests)
    BY <1>t, <1>c, <1>27, PutEffect DEF Interrupted
  <2>2. PICK ok \in BOOLEAN : Outcome(ok)
    BY <1>t, <1>r, <1>27 DEF Interrupted
  <2>3. /\ rstate' \in DeviceStates /\ macResult' \in BOOLEAN /\ running' \in BOOLEAN
        /\ call' \in RequestCalls \cup {"none", "attach", "ready", "failed", "remove", "removed"}
        /\ rpc' \in {"idle", "get", "send", "wait"}
        /\ UNCHANGED <<extension, newRequestId, arg, carrier>>
    BY <1>r, <1>27, <2>2, OutcomeTypes DEF Interrupted
  <2>4. linkDown' \in BOOLEAN /\ lapsed' \in BOOLEAN
    BY <1>t, <1>27, Zenon DEF Interrupted
  <2>5. UNCHANGED <<hostLink, hostFilter, calls, changes>>
    BY <1>27 DEF Interrupted
  <2> QED
    BY <1>t, <2>1, <2>3, <2>4, <2>5 DEF FilterTypes
<1>28. ASSUME Attach PROVE FilterTypes'
  <2>1. carrier' \in BOOLEAN
    BY <1>t, <1>28, Zenon DEF Attach
  <2> QED
    BY <1>t, <1>28, <2>1 DEF Attach, FilterTypes
<1>29. ASSUME Up PROVE FilterTypes'
  <2>1. calls' \in 0 .. MaxCalls
    BY <1>t, <1>29 DEF Up, OpenDevice, Calls
  <2>2. call' = call \/ call' \in FilterCalls
    BY <1>29 DEF Up, OpenDevice, Calls, FilterCalls
  <2>3. rpc' = rpc \/ rpc' = "get"
    BY <1>29 DEF Up, OpenDevice, Calls
  <2>4. arg' \in Filters
    BY <1>t, <1>29 DEF Up, OpenDevice, Calls, Filters
  <2>5. running' = running \/ running' = TRUE \/ running' = FALSE
    BY <1>29 DEF Up, OpenDevice, Calls
  <2>6. UNCHANGED <<device, reqs, macResult, linkDown, carrier, host, lapsed>>
    BY <1>29 DEF Up
  <2>7. call' \in RequestCalls \cup {"none", "attach", "ready", "failed", "remove", "removed"}
    BY <1>t, <2>2 DEF RequestCalls
  <2> QED
    BY <1>t, <2>1, <2>3, <2>4, <2>5, <2>6, <2>7 DEF FilterTypes
<1>30. ASSUME Stop PROVE FilterTypes'
  <2>1. calls' \in 0 .. MaxCalls
    BY <1>t, <1>30 DEF Stop, CloseDevice, Calls
  <2>2. call' = call \/ call' \in FilterCalls
    BY <1>30 DEF Stop, CloseDevice, Calls, FilterCalls
  <2>3. rpc' = rpc \/ rpc' = "get"
    BY <1>30 DEF Stop, CloseDevice, Calls
  <2>4. arg' \in Filters
    BY <1>t, <1>30 DEF Stop, CloseDevice, Calls, Filters
  <2>5. running' = running \/ running' = TRUE \/ running' = FALSE
    BY <1>30 DEF Stop, CloseDevice, Calls
  <2>6. UNCHANGED <<device, reqs, macResult, linkDown, carrier, host, lapsed>>
    BY <1>30 DEF Stop
  <2>7. call' \in RequestCalls \cup {"none", "attach", "ready", "failed", "remove", "removed"}
    BY <1>t, <2>2 DEF RequestCalls
  <2> QED
    BY <1>t, <2>1, <2>3, <2>4, <2>5, <2>6, <2>7 DEF FilterTypes
<1>31. ASSUME SetMode PROVE FilterTypes'
  BY <1>t, <1>31 DEF SetMode, Calls, FilterTypes, RequestCalls, FilterCalls, Filters
<1>32. ASSUME Halt PROVE FilterTypes'
  BY <1>t, <1>32 DEF Halt, FilterTypes, RequestCalls, FilterCalls, Filters
<1>33. ASSUME OnSendRequestCompletion PROVE FilterTypes'
  BY <1>t, <1>33 DEF OnSendRequestCompletion, Receives, FilterTypes, RequestCalls,
     FilterCalls, Filters
<1>34. ASSUME ReceiveResponse PROVE FilterTypes'
  BY <1>t, <1>34 DEF ReceiveResponse, Receives, FilterTypes, RequestCalls, FilterCalls, Filters
<1>35. ASSUME Wake PROVE FilterTypes'
  <2>1. reqs' \in Seq(Requests)
    BY <1>t, <1>35, WakeEffect
  <2> QED
    BY <1>t, <1>35, <2>1 DEF Wake, FilterTypes
<1>36. ASSUME ReceiveIndicateStatus PROVE FilterTypes'
  <2>1. carrier' \in BOOLEAN
    <3>1. fromHost # <<>> /\ Head(fromHost).type = "link"
      BY <1>36 DEF ReceiveIndicateStatus, Receives
    <3>2. Head(fromHost) \in InMessages
      BY <3>1, TailShape DEF RingTypes
    <3>3. Head(fromHost).up \in BOOLEAN
      BY <3>1, <3>2, InKinds
    <3> QED BY <1>t, <1>36, <3>3 DEF ReceiveIndicateStatus
  <2> QED
    BY <1>t, <1>36, <2>1 DEF ReceiveIndicateStatus, Receives, FilterTypes
<1>37. ASSUME HostTakesRndis PROVE FilterTypes'
  BY <1>t, <1>37 DEF HostTakesRndis, FilterTypes, RequestCalls, FilterCalls, Filters
<1>38. ASSUME HostAnswers PROVE FilterTypes'
  <2>1. hostFilter' \in Filters
    <3>1. \A i \in pending : reqs[i].arg \in Filters
      BY <1>t, RequestShape DEF IndexTypes, Requests
    <3> QED BY <1>t, <1>38, <3>1 DEF HostAnswers
  <2>2. UNCHANGED <<thread, device, reqs, interface, hostLink, changes, gone, calls>>
    BY <1>38 DEF HostAnswers
  <2> QED
    BY <1>t, <2>1, <2>2 DEF FilterTypes
<1>39. ASSUME HostLinkChanges PROVE FilterTypes'
  BY <1>t, <1>39 DEF HostLinkChanges, FilterTypes, RequestCalls, FilterCalls, Filters
<1> QED
  BY <1>1, <1>2, <1>3, <1>4, <1>5, <1>6, <1>7, <1>8, <1>9, <1>10, <1>11, <1>12, <1>13,
     <1>14, <1>15, <1>16, <1>17, <1>18, <1>19, <1>20, <1>21, <1>22, <1>23, <1>24, <1>25, <1>26,
     <1>27, <1>28, <1>29, <1>30, <1>31, <1>32, <1>33, <1>34, <1>35, <1>36, <1>37, <1>38, <1>39
  DEF Next, Inner, InnerFrame, NetVscThread, NetVscFails, ConnectToVsp, InitializeBuffer,
      DestroyBuffer, Thread, Callback, Host, Asked, Ioctl

-----------------------------------------------------------------------------
(* What a step takes from a ring or adds to it, seen by some messages.     *)

\* r is what is left of q, or q with one more that is not in S.
Less(q, r, T, S) ==
  \/ r = q
  \/ r = <<>>
  \/ q # <<>> /\ r = Tail(q)
  \/ \E m \in T \ S : r = Append(q, m)

\* What there is of S gets no more, and stays in order.
LEMMA LessShape ==
  ASSUME NEW T, NEW q \in Seq(T), NEW r, NEW S, Less(q, r, T, S)
  PROVE  /\ Range(r) \cap S \subseteq Range(q)
         /\ Once(q, S) => Once(r, S)
         /\ \A A, B \in SUBSET S : Before(q, A, B) => Before(r, A, B)
<1> DEFINE Goal == /\ Range(r) \cap S \subseteq Range(q)
                   /\ Once(q, S) => Once(r, S)
                   /\ \A A, B \in SUBSET S : Before(q, A, B) => Before(r, A, B)
<1>1. CASE r = q
  BY <1>1
<1>2. CASE r = <<>>
  <2>1. DOMAIN r = {}
    BY <1>2
  <2>2. Range(r) = {}
    BY <2>1 DEF Range
  <2> QED
    BY <2>1, <2>2 DEF Once, Before
<1>3. CASE q # <<>> /\ r = Tail(q)
  <2>1. Range(r) \cap S \subseteq Range(q)
    BY <1>3, TailRange
  <2>2. Once(q, S) => Once(r, S)
    BY <1>3, OnceTail
  <2>3. \A A, B \in SUBSET S : Before(q, A, B) => Before(r, A, B)
    BY <1>3, BeforeTail
  <2> QED
    BY <2>1, <2>2, <2>3
<1>4. CASE \E m \in T \ S : r = Append(q, m)
  <2>1. PICK m \in T \ S : r = Append(q, m)
    BY <1>4
  <2>2. Range(r) \cap S \subseteq Range(q)
    BY <2>1, AppendRange
  <2>3. Once(q, S) => Once(r, S)
    BY <2>1, OnceAppend
  <2>4. ASSUME NEW A \in SUBSET S, NEW B \in SUBSET S, Before(q, A, B)
        PROVE  Before(r, A, B)
    <3>1. m \in T /\ m \notin A
      BY <2>1
    <3> QED
      BY <2>1, <2>4, <3>1, BeforeAppend
  <2> QED
    BY <2>2, <2>3, <2>4
<1> QED
  BY <1>1, <1>2, <1>3, <1>4 DEF Less

-----------------------------------------------------------------------------
(* The requests.                                                           *)

\* What of a request can be in the inbound ring.
Coming(i) == {Completion(i)} \cup RepliesTo(i)

\* What there is of request i gets less, at most.
Calm(i) ==
  /\ Less(toHost, toHost', OutMessages, {Sent(i)})
  /\ Less(fromHost, fromHost', InMessages, Coming(i))
  /\ i \in pending' => i \in pending
  /\ Unfound(i) => Unfound(i)'

\* What was gone of a request stays gone.
LEMMA CalmTokens ==
  ASSUME RingTypes, NEW i, Calm(i)
  PROVE  /\ Unsent(i) => Unsent(i)'
         /\ NotCompleting(i) => NotCompleting(i)'
         /\ Unanswered(i) => Unanswered(i)'
         /\ Done(i) => Done(i)'
         /\ Once(toHost, {Sent(i)}) => Once(toHost', {Sent(i)})
         /\ Once(fromHost, RepliesTo(i)) => Once(fromHost', RepliesTo(i))
         /\ Before(fromHost, {Completion(i)}, RepliesTo(i)) =>
              Before(fromHost', {Completion(i)}, RepliesTo(i))
<1>1. /\ Range(toHost') \cap {Sent(i)} \subseteq Range(toHost)
      /\ Once(toHost, {Sent(i)}) => Once(toHost', {Sent(i)})
  BY LessShape DEF Calm, RingTypes
<1>2. /\ Range(fromHost') \cap Coming(i) \subseteq Range(fromHost)
      /\ \A A, B \in SUBSET Coming(i) : Before(fromHost, A, B) => Before(fromHost', A, B)
  BY LessShape DEF Calm, RingTypes
<1>3. Less(fromHost, fromHost', InMessages, RepliesTo(i))
  BY DEF Calm, Less, Coming
<1>4. Once(fromHost, RepliesTo(i)) => Once(fromHost', RepliesTo(i))
  BY <1>3, LessShape DEF RingTypes
<1>5. Unsent(i) => Unsent(i)'
  BY <1>1 DEF Unsent, Sent
<1>6. NotCompleting(i) => NotCompleting(i)'
  BY <1>2 DEF NotCompleting, Coming, Completion
<1>7. Unanswered(i) => Unanswered(i)'
  <2>1. RepliesTo(i)' = RepliesTo(i)
    BY DEF RepliesTo
  <2> QED
    BY <1>2, <2>1 DEF Unanswered, Coming
<1>8. Done(i) => Done(i)'
  BY <1>5, <1>6, <1>7 DEF Done, Calm
<1>9. {Completion(i)} \in SUBSET Coming(i) /\ RepliesTo(i) \in SUBSET Coming(i)
  BY DEF Coming
<1> QED
  BY <1>1, <1>2, <1>4, <1>5, <1>6, <1>7, <1>8, <1>9

\* A request of which there gets less goes on its way, unless it is freed too early.
LEMMA OneWayKept ==
  ASSUME RingTypes, NEW i, OneWay(i), Calm(i), reqs'[i].set => Done(i),
         reqs'[i].freed /\ i \notin interrupted' /\ reqs'[i].call # "halt" => Done(i)
  PROVE  OneWay(i)'
<1>1. /\ Sent(i)' = Sent(i) /\ Completion(i)' = Completion(i) /\ RepliesTo(i)' = RepliesTo(i)
  BY DEF Sent, Completion, RepliesTo
<1>2. /\ Once(toHost', {Sent(i)}) /\ Once(fromHost', RepliesTo(i))
      /\ Before(fromHost', {Completion(i)}, RepliesTo(i))
  BY CalmTokens DEF OneWay
<1>3. Unsent(i)' \/ (i \notin pending' /\ Unanswered(i)' /\ Unfound(i)')
  BY CalmTokens DEF OneWay, Calm
<1>4. i \in pending' => Unanswered(i)' /\ Unfound(i)'
  BY CalmTokens DEF OneWay, Calm
<1>5. Unfound(i)' \/ (Unanswered(i)' /\ NotCompleting(i)')
  BY CalmTokens DEF OneWay, Calm
<1>6. Done(i) => Done(i)'
  BY CalmTokens
<1> QED
  BY <1>1, <1>2, <1>3, <1>4, <1>5, <1>6 DEF OneWay

\* A request that is as it was.
LEMMA OneWaySame ==
  ASSUME RingTypes, NEW i, OneWay(i), Calm(i), reqs'[i] = reqs[i],
         interrupted \subseteq interrupted'
  PROVE  OneWay(i)'
BY OneWayKept DEF OneWay

\* The response at the head of the ring is given to the request it answers.
LEMMA ResponseFinds ==
  ASSUME RingTypes, reqs \in Seq(Requests), Numbered, ReceiveResponse
  PROVE  LET m == Head(fromHost)
         IN  /\ m \in InMessages /\ m.of \in DOMAIN reqs /\ m \in RepliesTo(m.of)
             /\ m \in Range(fromHost)
             /\ found' \subseteq {[req |-> m.of, of |-> m.of, answer |-> m.answer]}
<1> DEFINE m == Head(fromHost)
           k == m.of
<1>1. fromHost \in Seq(InMessages) /\ fromHost # <<>> /\ m.type = "response"
  BY DEF RingTypes, ReceiveResponse, Receives
<1>2. m \in InMessages /\ m \in Range(fromHost)
  BY <1>1, TailShape, TailRange
<1>3. k \in DOMAIN reqs /\ m.id \in Nat /\ m.answer \in Answers
  BY <1>1, <1>2, InKinds
<1>4. m \in RepliesTo(k)
  BY <1>1, <1>2 DEF InMessages, Completions, NvspAnswers, RndisCompletions, RndisMessages,
     RepliesTo
<1>5. m.id = reqs[k].id
  BY <1>1, <1>2 DEF Numbered
<1>6. cur \in Nat /\ DOMAIN reqs = 1 .. cur /\ \A i \in DOMAIN reqs : reqs[i].id \in Nat
  BY RequestShape DEF Requests
<1>7. \A i \in Listed(m.id) : i = k
  <2> SUFFICES ASSUME NEW i \in DOMAIN reqs, reqs[i].id = m.id PROVE i = k
    BY DEF Listed
  <2>1. ~ (i < k) /\ ~ (k < i)
    <3>1. i < k => reqs[i].id < reqs[k].id
      BY <1>3 DEF Numbered
    <3>2. k < i => reqs[k].id < reqs[i].id
      BY <1>3 DEF Numbered
    <3> QED
      BY <1>3, <1>5, <1>6, <3>1, <3>2
  <2> QED
    BY <1>3, <1>6, <2>1
<1>8. ASSUME Listed(m.id) # {} PROVE FirstOf(Listed(m.id)) = k
  <2>1. Listed(m.id) = {k}
    BY <1>7, <1>8
  <2>2. k \in {k} /\ \A j \in {k} : k <= j
    BY <1>3, <1>6
  <2>3. FirstOf({k}) \in {k}
    BY <2>2 DEF FirstOf
  <2> QED
    BY <2>1, <2>3
<1>9. found' \subseteq {[req |-> k, of |-> k, answer |-> m.answer]}
  BY <1>8 DEF ReceiveResponse
<1> QED
  BY <1>2, <1>3, <1>4, <1>9

-----------------------------------------------------------------------------
(* All but ten steps leave the requests alone.                             *)

Quiet ==
  /\ Less(toHost, toHost', OutMessages, [type : {"rndis"}, of : Nat])
  /\ Less(fromHost, fromHost', InMessages,
          [type : {"sent"}, of : Nat]
            \cup [type : {"response"}, of : Nat, id : Nat, answer : Answers])
  /\ pending' \subseteq pending
  /\ UNCHANGED <<found, reqs, newRequestId, overdue, interrupted>>
  /\ \/ UNCHANGED thread
     \/ ~ Busy /\ ~ Busy' /\ (call' \in Resting => rpc' = "idle")

\* The steps that are not quiet.
Loud == GetRequest \/ SendRequest \/ SendRequestFails \/ Answered \/ TimeOut \/ Interrupted
        \/ ReceiveResponse \/ Wake \/ HostTakesRndis \/ HostAnswers

\* There are no others.
LEMMA QuietSteps == NetVscTypeOK /\ RingTypes /\ FilterTypes /\ InHand /\ Next => Quiet \/ Loud
<1> SUFFICES ASSUME NetVscTypeOK, RingTypes, FilterTypes, InHand, Next PROVE Quiet \/ Loud
  OBVIOUS
<1>t. /\ NetVscTypeOK /\ RingTypes /\ buf \in Buffers /\ toHost \in Seq(OutMessages)
      /\ fromHost \in Seq(InMessages) /\ hostLink \in BOOLEAN
  BY DEF FilterTypes, NetVscTypeOK, RingTypes
<1>h. /\ call \in Resting => rpc = "idle"
      /\ Resting = {"none", "attach", "ready", "failed", "remove", "removed"}
  BY DEF InHand, Resting
<1> USE DEF netvscRest, netvscVars, memory, answers, rings, rndisVars, thread, device, interface,
            host, gone, At, Fails, Sends, InnerFrame, Busy, Less
<1>1. ASSUME OpenChannel, InnerFrame PROVE Quiet
  BY <1>h, <1>1 DEF Quiet, OpenChannel
<1>2. ASSUME SendInit, InnerFrame PROVE Quiet
  <2> DEFINE m == [type |-> "init"]
  <2>1. m \in OutMessages \ [type : {"rndis"}, of : Nat]
    BY <1>t DEF OutMessages, InitMessages, BufferMessages
  <2>2. fromHost' = fromHost /\ (toHost' = Append(toHost, m) \/ toHost' = toHost)
    BY <1>2 DEF SendInit
  <2>3. UNCHANGED thread /\ pending' \subseteq pending
        /\ UNCHANGED <<found, reqs, newRequestId, overdue, interrupted>>
    BY <1>2 DEF SendInit
  <2> HIDE DEF m
  <2> QED
    BY <2>1, <2>2, <2>3 DEF Quiet
<1>3. ASSUME InitAnswered, InnerFrame PROVE Quiet
  BY <1>h, <1>3 DEF Quiet, InitAnswered
<1>4. ASSUME SendNdis, InnerFrame PROVE Quiet
  <2> DEFINE m == [type |-> "ndis"]
  <2>1. m \in OutMessages \ [type : {"rndis"}, of : Nat]
    BY <1>t DEF OutMessages, InitMessages, BufferMessages
  <2>2. fromHost' = fromHost /\ (toHost' = Append(toHost, m) \/ toHost' = toHost)
    BY <1>4 DEF SendNdis
  <2>3. UNCHANGED thread /\ pending' \subseteq pending
        /\ UNCHANGED <<found, reqs, newRequestId, overdue, interrupted>>
    BY <1>4 DEF SendNdis
  <2> HIDE DEF m
  <2> QED
    BY <2>1, <2>2, <2>3 DEF Quiet
<1>5. ASSUME AllocBuffer, InnerFrame PROVE Quiet
  BY <1>h, <1>5 DEF Quiet, AllocBuffer
<1>6. ASSUME EstablishGpadl, InnerFrame PROVE Quiet
  BY <1>h, <1>6 DEF Quiet, EstablishGpadl
<1>7. ASSUME SendOffer, InnerFrame PROVE Quiet
  <2> DEFINE m == [type |-> "offer", b |-> buf]
  <2>1. m \in OutMessages \ [type : {"rndis"}, of : Nat]
    BY <1>t DEF OutMessages, InitMessages, BufferMessages
  <2>2. fromHost' = fromHost /\ (toHost' = Append(toHost, m) \/ toHost' = toHost)
    BY <1>7 DEF SendOffer
  <2>3. UNCHANGED thread /\ pending' \subseteq pending
        /\ UNCHANGED <<found, reqs, newRequestId, overdue, interrupted>>
    BY <1>7 DEF SendOffer
  <2> HIDE DEF m
  <2> QED
    BY <2>1, <2>2, <2>3 DEF Quiet
<1>8. ASSUME OfferAnswered, InnerFrame PROVE Quiet
  BY <1>h, <1>8 DEF Quiet, OfferAnswered, Accepted
<1>9. ASSUME Revoke, InnerFrame PROVE Quiet
  <2> DEFINE m == [type |-> "revoke", b |-> buf]
  <2>1. m \in OutMessages \ [type : {"rndis"}, of : Nat]
    BY <1>t DEF OutMessages, InitMessages, BufferMessages
  <2>2. fromHost' = fromHost /\ (toHost' = Append(toHost, m) \/ toHost' = toHost)
    BY <1>9 DEF Revoke
  <2>3. UNCHANGED thread /\ pending' \subseteq pending
        /\ UNCHANGED <<found, reqs, newRequestId, overdue, interrupted>>
    BY <1>9 DEF Revoke
  <2> HIDE DEF m
  <2> QED
    BY <2>1, <2>2, <2>3 DEF Quiet
<1>10. ASSUME Teardown, InnerFrame PROVE Quiet
  BY <1>h, <1>10 DEF Quiet, Teardown
<1>11. ASSUME FreeBuffer, InnerFrame PROVE Quiet
  BY <1>h, <1>11 DEF Quiet, FreeBuffer, Destroyed
<1>12. ASSUME CloseChannel, InnerFrame PROVE Quiet
  BY <1>h, <1>12 DEF Quiet, CloseChannel
<1>13. ASSUME OpenFails, InnerFrame PROVE Quiet
  BY <1>h, <1>13 DEF Quiet, OpenFails
<1>14. ASSUME SendInitFails, InnerFrame PROVE Quiet
  BY <1>h, <1>14 DEF Quiet, SendInitFails
<1>15. ASSUME BufferFails, InnerFrame PROVE Quiet
  BY <1>h, <1>15 DEF Quiet, BufferFails
<1>16. ASSUME DestroyFails, InnerFrame PROVE Quiet
  BY <1>h, <1>16 DEF Quiet, DestroyFails, Destroyed
<1>17. ASSUME InnerCallback PROVE Quiet
  BY <1>h, <1>17 DEF Quiet, InnerCallback, OnSendCompletion
<1>18. ASSUME InnerHost PROVE Quiet
  <2>1. toHost # <<>> /\ toHost' = Tail(toHost)
    BY <1>18 DEF InnerHost, HostTakesNvsp
  <2>2. fromHost' = fromHost \/ \E m \in Completions : fromHost' = Append(fromHost, m)
    BY <1>18, NvspEffect DEF InnerHost
  <2>3. \A m \in Completions :
          m \in InMessages \ ([type : {"sent"}, of : Nat]
                 \cup [type : {"response"}, of : Nat, id : Nat, answer : Answers])
    BY DEF InMessages, Completions, NvspAnswers
  <2>4. UNCHANGED thread /\ pending' = pending
        /\ UNCHANGED <<found, reqs, newRequestId, overdue, interrupted>>
    BY <1>18 DEF InnerHost
  <2> QED
    BY <2>1, <2>2, <2>3, <2>4 DEF Quiet
<1>19. ASSUME Remove PROVE Quiet
  BY <1>h, <1>19 DEF Quiet, Remove
<1>20. ASSUME SendsCompleted PROVE Quiet
  BY <1>h, <1>20 DEF Quiet, SendsCompleted
<1>21. ASSUME DeviceAdd PROVE Quiet
  BY <1>h, <1>21 DEF Quiet, DeviceAdd
<1>22. ASSUME Attach PROVE Quiet
  BY <1>h, <1>22 DEF Quiet, Attach
<1>23. ASSUME Up PROVE Quiet
  BY <1>h, <1>23 DEF Quiet, Up, OpenDevice, Calls
<1>24. ASSUME Stop PROVE Quiet
  BY <1>h, <1>24 DEF Quiet, Stop, CloseDevice, Calls
<1>25. ASSUME SetMode PROVE Quiet
  BY <1>h, <1>25 DEF Quiet, SetMode, Calls
<1>26. ASSUME Halt PROVE Quiet
  BY <1>h, <1>26 DEF Quiet, Halt
<1>27. ASSUME OnSendRequestCompletion PROVE Quiet
  BY <1>h, <1>27 DEF Quiet, OnSendRequestCompletion, Receives
<1>28. ASSUME ReceiveIndicateStatus PROVE Quiet
  BY <1>h, <1>28 DEF Quiet, ReceiveIndicateStatus, Receives
<1>29. ASSUME HostLinkChanges PROVE Quiet
  <2> DEFINE m == [type |-> "link", up |-> ~ hostLink]
  <2>1. fromHost' = Append(fromHost, m)
    BY <1>29 DEF HostLinkChanges
  <2>2. m \in InMessages \ ([type : {"sent"}, of : Nat]
                 \cup [type : {"response"}, of : Nat, id : Nat, answer : Answers])
    BY DEF InMessages, RndisMessages
  <2> HIDE DEF m
  <2> QED
    BY <1>29, <2>1, <2>2 DEF Quiet, HostLinkChanges
<1> QED
  BY <1>1, <1>2, <1>3, <1>4, <1>5, <1>6, <1>7, <1>8, <1>9, <1>10, <1>11, <1>12, <1>13,
     <1>14, <1>15, <1>16, <1>17, <1>18, <1>19, <1>20, <1>21, <1>22, <1>23, <1>24, <1>25, <1>26,
     <1>27, <1>28, <1>29
  DEF Loud, Next, Inner, InnerFrame, NetVscThread, NetVscFails, ConnectToVsp, InitializeBuffer,
      DestroyBuffer, Thread, Callback, Host, Asked, Ioctl

\* Every step names requests there are.
LEMMA IndexTypesKept ==
  NetVscTypeOK /\ RingTypes /\ FilterTypes /\ IndexTypes /\ Found /\ InHand /\ Numbered
    /\ (Quiet \/ Loud)
    => IndexTypes'
<1> SUFFICES ASSUME NetVscTypeOK, RingTypes, FilterTypes, IndexTypes, Found, InHand, Numbered,
                    Quiet \/ Loud
             PROVE  IndexTypes'
  OBVIOUS
<1>t. reqs \in Seq(Requests) /\ MaxSignals \in Nat
  BY BoundsAssumption DEF FilterTypes
<1>c. rpc \in {"send", "wait"} => cur # 0
  BY DEF InHand, Busy
<1>u. /\ cur # 0 => cur \in DOMAIN reqs
      /\ DOMAIN reqs = 1 .. cur /\ cur \in Nat
  BY <1>t, RequestShape
<1> USE DEF netvscRest, netvscVars, memory, answers, rings, rndisVars, thread, device, interface,
            host, gone, At, Fails, Sends, InnerFrame
<1>1. ASSUME Quiet PROVE IndexTypes'
  BY <1>1 DEF Quiet, IndexTypes
<1>2. ASSUME GetRequest PROVE IndexTypes'
  <2>1. call \in RequestCalls
    BY <1>2 DEF GetRequest, InHand, FilterTypes, Resting
  <2>2. DOMAIN reqs' = 1 .. cur + 1
    BY <1>2, <2>1, TypeParts, GetEffect
  <2>3. DOMAIN reqs \subseteq DOMAIN reqs'
    BY <1>u, <2>2
  <2> QED
    BY <1>2, <2>3 DEF GetRequest, IndexTypes
<1>3. ASSUME SendRequest PROVE IndexTypes'
  <2>1. DOMAIN reqs' = DOMAIN reqs
    BY <1>t, <1>c, <1>3, PutEffect DEF SendRequest, SameCount
  <2>2. UNCHANGED <<pending, overdue, interrupted, found>>
    BY <1>3 DEF SendRequest
  <2> QED
    BY <2>1, <2>2 DEF IndexTypes
<1>4. ASSUME SendRequestFails PROVE IndexTypes'
  <2>1. DOMAIN reqs' = DOMAIN reqs
    BY <1>t, <1>c, <1>4, PutEffect DEF SendRequestFails, SameCount
  <2>2. UNCHANGED <<pending, overdue, interrupted, found>>
    BY <1>4 DEF SendRequestFails
  <2> QED
    BY <2>1, <2>2 DEF IndexTypes
<1>5. ASSUME Answered PROVE IndexTypes'
  <2>1. DOMAIN reqs' = DOMAIN reqs
    BY <1>t, <1>c, <1>5, PutEffect DEF Answered, SameCount
  <2>2. UNCHANGED <<pending, overdue, interrupted, found>>
    BY <1>5 DEF Answered
  <2> QED
    BY <2>1, <2>2 DEF IndexTypes
<1>6. ASSUME TimeOut PROVE IndexTypes'
  <2>1. reqs' = reqs /\ overdue' = overdue \cup {cur} /\ cur \in DOMAIN reqs
        /\ UNCHANGED <<pending, interrupted, found>>
    BY <1>c, <1>u, <1>6 DEF TimeOut
  <2> QED
    BY <2>1 DEF IndexTypes
<1>7. ASSUME Interrupted PROVE IndexTypes'
  <2>1. /\ interrupted' = interrupted \cup {cur} /\ cur \in DOMAIN reqs
        /\ Cardinality(interrupted) < MaxSignals
        /\ UNCHANGED <<pending, overdue, found>>
    BY <1>c, <1>u, <1>7 DEF Interrupted
  <2>2. DOMAIN reqs' = DOMAIN reqs
    BY <1>t, <1>c, <1>7, PutEffect DEF Interrupted, SameCount
  <2>3. IsFiniteSet(interrupted)
    BY <1>u, FS_Interval, FS_Subset DEF IndexTypes
  <2>4. Cardinality(interrupted') <= MaxSignals
    <3>1. Cardinality(interrupted) \in Nat
      BY <2>3, FS_CardinalityType
    <3>2. CASE cur \in interrupted
      <4>1. interrupted' = interrupted
        BY <2>1, <3>2
      <4>2. Cardinality(interrupted') = Cardinality(interrupted)
        BY <4>1
      <4> QED
        BY <1>t, <2>1, <3>1, <4>2
    <3>3. CASE cur \notin interrupted
      <4>1. Cardinality(interrupted \cup {cur}) = Cardinality(interrupted) + 1
        BY <2>3, <3>3, FS_AddElement
      <4> QED
        BY <1>t, <2>1, <3>1, <4>1
    <3> QED
      BY <3>2, <3>3
  <2> QED
    BY <2>1, <2>2, <2>4 DEF IndexTypes
<1>8. ASSUME ReceiveResponse PROVE IndexTypes'
  <2> DEFINE k == Head(fromHost).of
             f == [req |-> k, of |-> k, answer |-> Head(fromHost).answer]
  <2>1. k \in DOMAIN reqs /\ found' \subseteq {f}
    BY <1>t, <1>8, ResponseFinds
  <2>2. f.req = k /\ f.of = k
    OBVIOUS
  <2> HIDE DEF k, f
  <2>3. UNCHANGED <<pending, overdue, interrupted, reqs>>
    BY <1>8 DEF ReceiveResponse
  <2> QED
    BY <2>1, <2>2, <2>3 DEF IndexTypes
<1>9. ASSUME Wake PROVE IndexTypes'
  <2>1. DOMAIN reqs' = DOMAIN reqs
    BY <1>t, <1>9, WakeEffect DEF SameCount
  <2>2. UNCHANGED <<pending, overdue, interrupted>> /\ found' = {}
    BY <1>9 DEF Wake
  <2> QED
    BY <2>1, <2>2 DEF IndexTypes
<1>10. ASSUME HostTakesRndis PROVE IndexTypes'
  <2>1. toHost # <<>> /\ Head(toHost).type = "rndis" /\ toHost \in Seq(OutMessages)
    BY <1>10 DEF HostTakesRndis, RingTypes
  <2>2. Head(toHost).of \in DOMAIN reqs
    BY <2>1, TailShape, OutKinds
  <2> QED
    BY <1>10, <2>2 DEF HostTakesRndis, IndexTypes
<1>11. ASSUME HostAnswers PROVE IndexTypes'
  BY <1>11 DEF HostAnswers, IndexTypes
<1> QED
  BY <1>1, <1>2, <1>3, <1>4, <1>5, <1>6, <1>7, <1>8, <1>9, <1>10, <1>11 DEF Loud

\* Each step but GetRequest keeps the requests there are, and their names.
SameNames == SameCount /\ \A i \in DOMAIN reqs : SameName(i)

\* The new request, and the ones there are.
LEMMA NewRequest ==
  ASSUME NetVscTypeOK, RingTypes, FilterTypes, IndexTypes, InHand, GetRequest
  PROVE  /\ cur' = cur + 1 /\ DOMAIN reqs' = DOMAIN reqs \cup {cur + 1}
         /\ cur + 1 \notin DOMAIN reqs
         /\ \A i \in DOMAIN reqs : reqs'[i] = reqs[i]
         /\ LET r == reqs'[cur + 1]
            IN  /\ r.id = newRequestId' /\ r.call = call /\ r.arg = arg
                /\ r.listed /\ ~ r.freed /\ ~ r.set
         /\ newRequestId' \in Nat /\ newRequestId' > newRequestId
<1>1. call \in RequestCalls
  BY DEF GetRequest, InHand, FilterTypes, Resting
<1>2. TypeOK
  BY TypeParts
<1>3. cur \in Nat /\ DOMAIN reqs = 1 .. cur
  BY RequestShape DEF FilterTypes
<1>4. /\ reqs' \in Seq(Requests) /\ Len(reqs') = cur + 1 /\ DOMAIN reqs' = 1 .. cur + 1
      /\ \A i \in DOMAIN reqs : reqs'[i] = reqs[i]
      /\ reqs'[cur + 1] = [id |-> RequestId(call), call |-> call, arg |-> arg,
                           listed |-> TRUE, freed |-> FALSE, set |-> FALSE,
                           answer |-> "none"]
      /\ RequestId(call) \in Nat /\ RequestId(call) > newRequestId
  BY <1>1, <1>2, GetEffect
<1>5. newRequestId' = RequestId(call)
  BY DEF GetRequest
<1>6. cur' = cur + 1
  BY <1>4 DEF cur
<1>7. DOMAIN reqs' = DOMAIN reqs \cup {cur + 1} /\ cur + 1 \notin DOMAIN reqs
  BY <1>3, <1>4
<1> HIDE DEF cur
<1> QED
  BY <1>4, <1>5, <1>6, <1>7

\* Nothing of a request that does not exist is anywhere.
LEMMA NothingOfNew ==
  ASSUME RingTypes, FilterTypes, IndexTypes, NEW i, i \notin DOMAIN reqs
  PROVE  /\ Done(i) /\ i \notin overdue \cup interrupted
         /\ Range(toHost) \cap {Sent(i)} = {} /\ Range(fromHost) \cap Coming(i) = {}
<1>1. /\ \A m \in Range(toHost) : m \in OutMessages
      /\ \A m \in Range(fromHost) : m \in InMessages
  BY RangeTypes DEF RingTypes
<1>2. Sent(i) \notin OutMessages
  BY DEF OutMessages, InitMessages, BufferMessages, Sent
<1>3. Completion(i) \notin InMessages
  BY DEF InMessages, Completions, NvspAnswers, RndisCompletions, RndisMessages, Completion
<1>4. InMessages \cap RepliesTo(i) = {}
  BY DEF InMessages, Completions, NvspAnswers, RndisCompletions, RndisMessages, RepliesTo
<1>5. Unsent(i) /\ NotCompleting(i) /\ Unanswered(i)
  BY <1>1, <1>2, <1>3, <1>4 DEF Unsent, NotCompleting, Unanswered
<1>6. i \notin pending /\ Unfound(i) /\ i \notin overdue \cup interrupted
  BY DEF IndexTypes, Unfound
<1> QED
  BY <1>5, <1>6 DEF Done, Coming, Unsent, NotCompleting, Unanswered

\* A quiet step adds nothing of any request.
LEMMA QuietIsCalm ==
  ASSUME Quiet, NEW i \in Nat
  PROVE  Calm(i)
<1>1. Sent(i) \in [type : {"rndis"}, of : Nat]
  BY DEF Sent
<1>2. Coming(i) \subseteq [type : {"sent"}, of : Nat]
                  \cup [type : {"response"}, of : Nat, id : Nat, answer : Answers]
  BY DEF Coming, Completion, RepliesTo
<1>3. Less(toHost, toHost', OutMessages, {Sent(i)})
  BY <1>1 DEF Quiet, Less
<1>4. Less(fromHost, fromHost', InMessages, Coming(i))
  BY <1>2 DEF Quiet, Less
<1> QED
  BY <1>3, <1>4 DEF Quiet, Calm, Unfound

\* A request that is freed after all that was on its way has come, or at a signal.
LEMMA PutKeepsOneWays ==
  ASSUME RingTypes, FilterTypes, OneWays, cur # 0, Put,
         UNCHANGED <<toHost, fromHost, pending, found>>, interrupted \subseteq interrupted',
         Done(cur) \/ cur \in interrupted'
  PROVE  OneWays'
<1>1. /\ cur \in DOMAIN reqs /\ DOMAIN reqs' = DOMAIN reqs
      /\ \A i \in DOMAIN reqs \ {cur} : reqs'[i] = reqs[i]
      /\ ~ reqs'[cur].set
  BY RequestShape, PutEffect DEF FilterTypes, SameCount
<1>2. ASSUME NEW i \in DOMAIN reqs PROVE Calm(i) /\ OneWay(i)
  BY DEF Calm, Less, Unfound, OneWays
<1>3. ASSUME NEW i \in DOMAIN reqs, i # cur PROVE OneWay(i)'
  BY <1>1, <1>2, <1>3, OneWaySame
<1>4. ASSUME NEW i \in DOMAIN reqs, i = cur PROVE OneWay(i)'
  <2>1. reqs'[i].freed /\ i \notin interrupted' /\ reqs'[i].call # "halt" => Done(i)
    BY <1>4
  <2>2. reqs'[i].set => Done(i)
    BY <1>1, <1>4
  <2> QED
    BY <1>2, <2>1, <2>2, OneWayKept
<1> QED
  BY <1>1, <1>3, <1>4 DEF OneWays

\* Every request goes its way.
LEMMA OneWaysKept ==
  NetVscTypeOK /\ RingTypes /\ FilterTypes /\ IndexTypes /\ RInv /\ (Quiet \/ Loud) => OneWays'
<1> SUFFICES ASSUME NetVscTypeOK, RingTypes, FilterTypes, IndexTypes, RInv, Quiet \/ Loud
             PROVE  OneWays'
  OBVIOUS
<1>t. /\ reqs \in Seq(Requests) /\ toHost \in Seq(OutMessages) /\ fromHost \in Seq(InMessages)
      /\ newRequestId \in Nat
  BY DEF FilterTypes, RingTypes
<1>v. OneWays /\ Found /\ Numbered /\ InHand /\ ListedIsAwaited
  BY DEF RInv
<1>c. rpc \in {"send", "wait"} => cur # 0
  BY <1>v DEF InHand, Busy
<1>u. /\ cur # 0 => cur \in DOMAIN reqs
      /\ DOMAIN reqs = 1 .. cur /\ cur \in Nat
      /\ \A i \in DOMAIN reqs : reqs[i] \in Requests /\ reqs[i].id \in Nat
  BY <1>t, RequestShape DEF Requests
<1> USE DEF netvscRest, netvscVars, memory, answers, rings, rndisVars, thread, device, interface,
            host, gone, At, Fails, Sends, InnerFrame
<1>1. ASSUME Quiet PROVE OneWays'
  <2> SUFFICES ASSUME NEW i \in DOMAIN reqs PROVE OneWay(i)'
    BY <1>1 DEF OneWays, Quiet
  <2>1. Calm(i)
    BY <1>u, <1>1, QuietIsCalm
  <2> QED
    BY <1>v, <1>1, <2>1, OneWaySame DEF OneWays, Quiet
<1>2. ASSUME GetRequest PROVE OneWays'
  <2>1. /\ DOMAIN reqs' = DOMAIN reqs \cup {cur + 1} /\ cur + 1 \notin DOMAIN reqs
        /\ \A i \in DOMAIN reqs : reqs'[i] = reqs[i]
        /\ ~ reqs'[cur + 1].set /\ ~ reqs'[cur + 1].freed
    BY <1>v, <1>2, NewRequest
  <2>2. UNCHANGED <<toHost, fromHost, pending, found, interrupted>>
    BY <1>2 DEF GetRequest
  <2>3. ASSUME NEW i \in DOMAIN reqs PROVE OneWay(i)'
    <3>1. Calm(i)
      BY <2>2 DEF Calm, Less, Unfound
    <3> QED
      BY <1>v, <2>1, <2>2, <3>1, OneWaySame DEF OneWays
  <2>4. ASSUME NEW i, i = cur + 1 PROVE OneWay(i)'
    <3>1. Done(i) /\ Range(toHost) \cap {Sent(i)} = {} /\ Range(fromHost) \cap Coming(i) = {}
      BY <2>1, <2>4, NothingOfNew
    <3>2. /\ Once(toHost, {Sent(i)}) /\ Once(fromHost, RepliesTo(i))
          /\ Before(fromHost, {Completion(i)}, RepliesTo(i))
      BY <3>1 DEF Once, Before, Range, Coming
    <3>3. Done(i)'
      BY <2>2, <3>1 DEF Done, Unsent, NotCompleting, Unanswered, Unfound, Sent, Completion,
         RepliesTo
    <3>4. Sent(i)' = Sent(i) /\ Completion(i)' = Completion(i) /\ RepliesTo(i)' = RepliesTo(i)
      BY DEF Sent, Completion, RepliesTo
    <3> QED
      BY <2>1, <2>2, <2>4, <3>2, <3>3, <3>4 DEF OneWay, Done
  <2> QED
    BY <2>1, <2>3, <2>4 DEF OneWays
<1>3. ASSUME SendRequest PROVE OneWays'
  <2>1. /\ rpc = "send" /\ cur \in DOMAIN reqs /\ toHost' = Append(toHost, Sent(cur))
        /\ UNCHANGED <<fromHost, pending, found, interrupted>>
    BY <1>c, <1>u, <1>3 DEF SendRequest, Sent
  <2>2. /\ DOMAIN reqs' = DOMAIN reqs /\ \A i \in DOMAIN reqs \ {cur} : reqs'[i] = reqs[i]
        /\ ~ reqs'[cur].set /\ (reqs'[cur].freed => reqs'[cur].call = "halt")
    <3>1. CASE call = "halt"
      BY <1>t, <1>c, <1>v, <1>3, <2>1, <3>1, PutEffect
      DEF SendRequest, SameCount, SameName, InHand, Busy
    <3>2. CASE call # "halt"
      BY <1>v, <1>3, <2>1, <3>2 DEF SendRequest, InHand, Busy, ListedIsAwaited
    <3> QED
      BY <3>1, <3>2
  <2>3. Sent(cur) \in OutMessages /\ \A i \in DOMAIN reqs : i # cur => Sent(cur) # Sent(i)
    BY <2>1 DEF OutMessages, Sent
  <2>4. ASSUME NEW i \in DOMAIN reqs, i # cur PROVE OneWay(i)'
    <3>1. Less(toHost, toHost', OutMessages, {Sent(i)})
      BY <2>1, <2>3, <2>4 DEF Less
    <3>2. Calm(i)
      BY <2>1, <3>1 DEF Calm, Less, Unfound
    <3> QED
      BY <1>v, <2>1, <2>2, <2>4, <3>2, OneWaySame DEF OneWays
  <2>5. ASSUME NEW i \in DOMAIN reqs, i = cur PROVE OneWay(i)'
    <3>1. Done(i)
      BY <1>v, <2>1, <2>5 DEF InHand
    <3>2. Range(toHost) \cap {Sent(i)} = {} /\ Once(toHost, {Sent(i)})
      BY <3>1, <1>v DEF Done, Unsent, OneWays, OneWay
    <3>3. Once(toHost', {Sent(i)})
      BY <1>t, <2>1, <2>3, <2>5, <3>2, OnceAppend
    <3>4. /\ NotCompleting(i)' /\ i \notin pending' /\ Unanswered(i)' /\ Unfound(i)'
      BY <2>1, <3>1 DEF Done, NotCompleting, Unanswered, Unfound, Completion, RepliesTo
    <3>5. Sent(i)' = Sent(i) /\ Completion(i)' = Completion(i) /\ RepliesTo(i)' = RepliesTo(i)
      BY DEF Sent, Completion, RepliesTo
    <3>6. Once(fromHost, RepliesTo(i)) /\ Before(fromHost, {Completion(i)}, RepliesTo(i))
      BY <1>v DEF OneWays, OneWay
    <3>7. ~ reqs'[i].set /\ (reqs'[i].freed => reqs'[i].call = "halt")
      BY <2>2, <2>5
    <3>8. Once(fromHost', RepliesTo(i)) /\ Before(fromHost', {Completion(i)}, RepliesTo(i))
      BY <2>1, <3>6
    <3> QED
      BY <3>3, <3>4, <3>5, <3>7, <3>8 DEF OneWay
  <2> QED
    BY <2>2, <2>4, <2>5 DEF OneWays
<1>4. ASSUME SendRequestFails PROVE OneWays'
  <2>1. /\ rpc \in {"send", "wait"} /\ Put
        /\ UNCHANGED <<toHost, fromHost, pending, found>> /\ interrupted \subseteq interrupted'
    BY <1>4 DEF SendRequestFails
  <2>2. Done(cur) \/ cur \in interrupted'
    BY <1>v, <1>4 DEF SendRequestFails, InHand
  <2> QED
    BY <1>c, <1>t, <1>v, <2>1, <2>2, PutKeepsOneWays
<1>5. ASSUME Answered PROVE OneWays'
  <2>1. /\ rpc \in {"send", "wait"} /\ Put
        /\ UNCHANGED <<toHost, fromHost, pending, found>> /\ interrupted \subseteq interrupted'
    BY <1>5 DEF Answered
  <2>2. Done(cur) \/ cur \in interrupted'
    BY <1>c, <1>u, <1>v, <1>5 DEF Answered, OneWays, OneWay
  <2> QED
    BY <1>c, <1>t, <1>v, <2>1, <2>2, PutKeepsOneWays
<1>6. ASSUME TimeOut PROVE OneWays'
  <2> SUFFICES ASSUME NEW i \in DOMAIN reqs PROVE OneWay(i)'
    BY <1>6 DEF OneWays, TimeOut
  <2>1. Calm(i) /\ reqs'[i] = reqs[i] /\ interrupted' = interrupted
    BY <1>6 DEF TimeOut, Calm, Less, Unfound
  <2> QED
    BY <1>v, <2>1, OneWaySame DEF OneWays
<1>7. ASSUME Interrupted PROVE OneWays'
  <2>1. /\ rpc \in {"send", "wait"} /\ Put
        /\ UNCHANGED <<toHost, fromHost, pending, found>> /\ interrupted \subseteq interrupted'
    BY <1>7 DEF Interrupted
  <2>2. Done(cur) \/ cur \in interrupted'
    BY <1>7 DEF Interrupted
  <2> QED
    BY <1>c, <1>t, <1>v, <2>1, <2>2, PutKeepsOneWays
<1>8. ASSUME ReceiveResponse PROVE OneWays'
  <2> DEFINE m == Head(fromHost)
             k == m.of
             f == [req |-> k, of |-> k, answer |-> m.answer]
  <2>1. /\ m \in InMessages /\ k \in DOMAIN reqs /\ m \in RepliesTo(k) /\ m \in Range(fromHost)
        /\ found' \subseteq {f}
    BY <1>t, <1>v, <1>8, ResponseFinds
  <2>2. /\ fromHost # <<>> /\ fromHost' = Tail(fromHost)
        /\ UNCHANGED <<toHost, pending, reqs, interrupted>> /\ found = {}
    BY <1>8 DEF ReceiveResponse, Receives
  <2>3. f.of = k
    OBVIOUS
  <2>4. ~ Unanswered(k)
    BY <2>1 DEF Unanswered
  <2> HIDE DEF f, k
  <2>5. ASSUME NEW i \in DOMAIN reqs, i # k PROVE OneWay(i)'
    <3>1. Calm(i)
      BY <2>1, <2>2, <2>3, <2>5 DEF Calm, Less, Unfound
    <3> QED
      BY <1>v, <2>2, <3>1, OneWaySame DEF OneWays
  <2>6. ASSUME NEW i \in DOMAIN reqs, i = k PROVE OneWay(i)'
    <3>1. OneWay(i) /\ ~ Done(i)
      BY <1>v, <2>4, <2>6 DEF OneWays, Done
    <3>2. Unsent(i) /\ i \notin pending
      BY <2>4, <2>6, <3>1 DEF OneWay
    <3>3. m \in RepliesTo(i)
      BY <2>1, <2>6
    <3>4. Range(fromHost') \cap RepliesTo(i) = {} /\ Once(fromHost', RepliesTo(i))
      BY <1>t, <2>2, <3>1, <3>3, OnceTail DEF OneWay
    <3>5. Range(fromHost) \cap {Completion(i)} = {}
          /\ Before(fromHost', {Completion(i)}, RepliesTo(i))
      BY <1>t, <2>2, <3>1, <3>3, BeforeTail DEF OneWay
    <3>6. Range(fromHost') \subseteq Range(fromHost)
      BY <1>t, <2>2, TailRange
    <3>7. Sent(i)' = Sent(i) /\ Completion(i)' = Completion(i) /\ RepliesTo(i)' = RepliesTo(i)
      BY DEF Sent, Completion, RepliesTo
    <3>8. Unanswered(i)' /\ NotCompleting(i)'
      BY <3>4, <3>5, <3>6, <3>7 DEF Unanswered, NotCompleting
    <3>9. Unsent(i)' /\ Once(toHost', {Sent(i)}) /\ i \notin pending'
      BY <2>2, <3>1, <3>2, <3>7 DEF Unsent, OneWay
    <3> QED
      BY <2>2, <3>1, <3>4, <3>5, <3>7, <3>8, <3>9 DEF OneWay
  <2> QED
    BY <2>2, <2>5, <2>6 DEF OneWays
<1>9. ASSUME Wake PROVE OneWays'
  <2>1. PICK f \in found : /\ f.of \in DOMAIN reqs
        /\ \A i \in DOMAIN reqs \ {f.of} : reqs'[i] = reqs[i]
    BY <1>t, <1>v, <1>9, WakeEffect
  <2>2. /\ DOMAIN reqs' = DOMAIN reqs /\ \A i \in DOMAIN reqs : SameName(i)
        /\ \A i \in DOMAIN reqs : reqs'[i].freed = reqs[i].freed
    BY <1>t, <1>v, <1>9, WakeEffect DEF SameCount
  <2>3. UNCHANGED <<toHost, fromHost, pending, interrupted>> /\ found' = {}
    BY <1>9 DEF Wake
  <2>4. ASSUME NEW i \in DOMAIN reqs PROVE Calm(i) /\ OneWay(i)
    BY <1>v, <2>3 DEF Calm, Less, Unfound, OneWays
  <2>5. ASSUME NEW i \in DOMAIN reqs, i # f.of PROVE OneWay(i)'
    BY <2>1, <2>3, <2>4, <2>5, OneWaySame
  <2>6. ASSUME NEW i \in DOMAIN reqs, i = f.of PROVE OneWay(i)'
    <3>1. ~ Unfound(i)
      BY <2>6 DEF Unfound
    <3>2. Unanswered(i) /\ NotCompleting(i) /\ Unsent(i) /\ i \notin pending
      BY <2>4, <3>1 DEF OneWay
    <3>3. Unanswered(i)' /\ NotCompleting(i)' /\ Unsent(i)' /\ i \notin pending'
      BY <2>4, <3>2, CalmTokens DEF Calm
    <3>4. Done(i)'
      BY <2>3, <3>3 DEF Done, Unfound
    <3>5. /\ Once(toHost, {Sent(i)}) /\ Once(fromHost, RepliesTo(i))
          /\ Before(fromHost, {Completion(i)}, RepliesTo(i))
      BY <2>4 DEF OneWay
    <3>6. Sent(i)' = Sent(i) /\ Completion(i)' = Completion(i) /\ RepliesTo(i)' = RepliesTo(i)
      BY DEF Sent, Completion, RepliesTo
    <3> QED
      BY <2>3, <3>4, <3>5, <3>6 DEF OneWay, Done
  <2> QED
    BY <2>2, <2>5, <2>6 DEF OneWays
<1>10. ASSUME HostTakesRndis PROVE OneWays'
  <2> DEFINE k == Head(toHost).of
  <2>1. /\ toHost # <<>> /\ toHost' = Tail(toHost) /\ Head(toHost).type = "rndis"
        /\ fromHost' = Append(fromHost, Completion(k))
        /\ pending' \subseteq pending \cup {k}
        /\ UNCHANGED <<reqs, found, interrupted>>
    BY <1>10 DEF HostTakesRndis, Completion
  <2>2. Head(toHost) \in OutMessages /\ Head(toHost) \in Range(toHost)
    BY <1>t, <2>1, TailShape, TailRange
  <2>3. k \in DOMAIN reqs /\ Head(toHost) = Sent(k)
    BY <2>1, <2>2, OutKinds
  <2> HIDE DEF k
  <2>4. ~ Unsent(k)
    BY <2>2, <2>3 DEF Unsent
  <2>5. Completion(k) \in InMessages
    BY <2>3 DEF InMessages, RndisCompletions, Completion
  <2>6. ASSUME NEW i \in DOMAIN reqs, i # k PROVE OneWay(i)'
    <3>1. Completion(k) \notin Coming(i)
      BY <2>6 DEF Coming, Completion, RepliesTo
    <3>2. Less(fromHost, fromHost', InMessages, Coming(i))
      BY <2>1, <2>5, <3>1 DEF Less
    <3>3. Calm(i)
      BY <2>1, <2>6, <3>2 DEF Calm, Less, Unfound
    <3> QED
      BY <1>v, <2>1, <3>3, OneWaySame DEF OneWays
  <2>7. ASSUME NEW i \in DOMAIN reqs, i = k PROVE OneWay(i)'
    <3>1. OneWay(i) /\ ~ Done(i)
      BY <1>v, <2>4, <2>7 DEF OneWays, Done
    <3>2. i \notin pending /\ Unanswered(i) /\ Unfound(i)
      BY <2>4, <2>7, <3>1 DEF OneWay
    <3>3. Head(toHost) \in {Sent(i)}
      BY <2>3, <2>7
    <3>4. Range(toHost') \cap {Sent(i)} = {} /\ Once(toHost', {Sent(i)})
      BY <1>t, <2>1, <3>1, <3>3, OnceTail DEF OneWay
    <3>5. Completion(k) \notin RepliesTo(i) /\ Range(fromHost) \cap RepliesTo(i) = {}
      BY <3>2 DEF Unanswered, Completion, RepliesTo
    <3>6. Once(fromHost', RepliesTo(i))
      BY <1>t, <2>1, <2>5, <3>1, <3>5, OnceAppend DEF OneWay
    <3>7. Before(fromHost', {Completion(i)}, RepliesTo(i))
      BY <1>t, <2>1, <2>5, <3>1, <3>5, BeforeAppend DEF OneWay
    <3>8. Range(fromHost') = Range(fromHost) \cup {Completion(k)}
      BY <1>t, <2>1, <2>5, AppendRange
    <3>9. Sent(i)' = Sent(i) /\ Completion(i)' = Completion(i) /\ RepliesTo(i)' = RepliesTo(i)
      BY DEF Sent, Completion, RepliesTo
    <3>10. Unsent(i)' /\ Unanswered(i)' /\ Unfound(i)'
      BY <2>1, <3>2, <3>4, <3>5, <3>8, <3>9 DEF Unsent, Unanswered, Unfound
    <3> QED
      BY <2>1, <3>1, <3>4, <3>6, <3>7, <3>9, <3>10 DEF OneWay
  <2> QED
    BY <2>1, <2>6, <2>7 DEF OneWays
<1>11. ASSUME HostAnswers PROVE OneWays'
  <2>1. PICK k \in pending, x \in Answers : 
          /\ pending' = pending \ {k}
          /\ fromHost' = Append(fromHost, [type |-> "response", of |-> k, id |-> reqs[k].id,
                                           answer |-> x])
    BY <1>11 DEF HostAnswers, AnswersTo, Answers
  <2>2. UNCHANGED <<toHost, reqs, found, interrupted>>
    BY <1>11 DEF HostAnswers
  <2> DEFINE m == [type |-> "response", of |-> k, id |-> reqs[k].id, answer |-> x]
  <2>3. k \in DOMAIN reqs
    BY DEF IndexTypes
  <2>4. m \in InMessages /\ m \in RepliesTo(k) /\ m.of = k /\ fromHost' = Append(fromHost, m)
    BY <1>u, <2>1, <2>3 DEF InMessages, RndisMessages, RepliesTo
  <2>5. \A i \in DOMAIN reqs : i # k => m \notin Coming(i)
    BY DEF Coming, Completion, RepliesTo
  <2>6. \A i : m # Completion(i)
    BY DEF Completion
  <2> HIDE DEF m
  <2>7. ASSUME NEW i \in DOMAIN reqs, i # k PROVE OneWay(i)'
    <3>1. Less(fromHost, fromHost', InMessages, Coming(i))
      BY <2>4, <2>5, <2>7 DEF Less
    <3>2. Calm(i)
      BY <2>1, <2>2, <3>1 DEF Calm, Less, Unfound
    <3> QED
      BY <1>v, <2>2, <3>2, OneWaySame DEF OneWays
  <2>8. ASSUME NEW i \in DOMAIN reqs, i = k PROVE OneWay(i)'
    <3>1. OneWay(i) /\ ~ Done(i)
      BY <1>v, <2>8 DEF OneWays, Done
    <3>2. Unsent(i) /\ Unanswered(i) /\ Unfound(i)
      BY <2>8, <3>1 DEF OneWay
    <3>3. Range(fromHost) \cap RepliesTo(i) = {}
      BY <3>2 DEF Unanswered
    <3>4. Once(fromHost', RepliesTo(i))
      BY <1>t, <2>4, <3>1, <3>3, OnceAppend DEF OneWay
    <3>5. m \notin {Completion(i)}
      BY <2>6
    <3>6. Before(fromHost', {Completion(i)}, RepliesTo(i))
      BY <1>t, <2>4, <3>1, <3>5, BeforeAppend DEF OneWay
    <3>7. Sent(i)' = Sent(i) /\ Completion(i)' = Completion(i) /\ RepliesTo(i)' = RepliesTo(i)
      BY DEF Sent, Completion, RepliesTo
    <3>8. Unsent(i)' /\ Unfound(i)' /\ i \notin pending' /\ Once(toHost', {Sent(i)})
      BY <2>1, <2>2, <2>8, <3>1, <3>2, <3>7 DEF Unsent, Unfound, OneWay
    <3> QED
      BY <2>2, <3>1, <3>4, <3>6, <3>7, <3>8 DEF OneWay
  <2> QED
    BY <2>2, <2>7, <2>8 DEF OneWays
<1> QED
  BY <1>1, <1>2, <1>3, <1>4, <1>5, <1>6, <1>7, <1>8, <1>9, <1>10, <1>11 DEF Loud

\* What the callback found is the request the response is for.
LEMMA FoundKept ==
  NetVscTypeOK /\ RingTypes /\ FilterTypes /\ IndexTypes /\ RInv /\ (Quiet \/ Loud) => Found'
<1> SUFFICES ASSUME NetVscTypeOK, RingTypes, FilterTypes, IndexTypes, RInv, Quiet \/ Loud
             PROVE  Found'
  OBVIOUS
<1>t. /\ reqs \in Seq(Requests) /\ toHost \in Seq(OutMessages) /\ fromHost \in Seq(InMessages)
      /\ newRequestId \in Nat
  BY DEF FilterTypes, RingTypes
<1>v. OneWays /\ Found /\ Numbered /\ InHand /\ ListedIsAwaited
  BY DEF RInv
<1>c. rpc \in {"send", "wait"} => cur # 0
  BY <1>v DEF InHand, Busy
<1>u. /\ cur # 0 => cur \in DOMAIN reqs
      /\ DOMAIN reqs = 1 .. cur /\ cur \in Nat
      /\ \A i \in DOMAIN reqs : reqs[i] \in Requests /\ reqs[i].id \in Nat
  BY <1>t, RequestShape DEF Requests
<1> USE DEF netvscRest, netvscVars, memory, answers, rings, rndisVars, thread, device, interface,
            host, gone, At, Fails, Sends, InnerFrame
<1>1. ASSUME Quiet PROVE Found'
  BY <1>v, <1>1 DEF Found, Quiet
<1>2. ASSUME GetRequest PROVE Found'
  <2>1. found' = found
    BY <1>2 DEF GetRequest
  <2>2. DOMAIN reqs \subseteq DOMAIN reqs'
    BY <1>v, <1>2, NewRequest
  <2> QED
    BY <1>v, <2>1, <2>2 DEF Found
<1>3. ASSUME SendRequest PROVE Found'
  <2>1. found' = found /\ DOMAIN reqs' = DOMAIN reqs
    BY <1>t, <1>c, <1>3, PutEffect DEF SendRequest, SameCount
  <2> QED
    BY <1>v, <2>1 DEF Found
<1>4. ASSUME SendRequestFails PROVE Found'
  <2>1. found' = found /\ DOMAIN reqs' = DOMAIN reqs
    BY <1>t, <1>c, <1>4, PutEffect DEF SendRequestFails, SameCount
  <2> QED
    BY <1>v, <2>1 DEF Found
<1>5. ASSUME Answered PROVE Found'
  <2>1. found' = found /\ DOMAIN reqs' = DOMAIN reqs
    BY <1>t, <1>c, <1>5, PutEffect DEF Answered, SameCount
  <2> QED
    BY <1>v, <2>1 DEF Found
<1>6. ASSUME TimeOut PROVE Found'
  <2>1. found' = found /\ DOMAIN reqs' = DOMAIN reqs
    BY <1>t, <1>c, <1>6, PutEffect DEF TimeOut, SameCount
  <2> QED
    BY <1>v, <2>1 DEF Found
<1>7. ASSUME Interrupted PROVE Found'
  <2>1. found' = found /\ DOMAIN reqs' = DOMAIN reqs
    BY <1>t, <1>c, <1>7, PutEffect DEF Interrupted, SameCount
  <2> QED
    BY <1>v, <2>1 DEF Found
<1>8. ASSUME ReceiveResponse PROVE Found'
  <2> DEFINE m == Head(fromHost)
             f == [req |-> m.of, of |-> m.of, answer |-> m.answer]
  <2>1. m.of \in DOMAIN reqs /\ m.answer \in Answers /\ found' \subseteq {f} /\ reqs' = reqs
    BY <1>t, <1>v, <1>8, ResponseFinds DEF RepliesTo, ReceiveResponse
  <2>2. f \in [req : DOMAIN reqs, of : DOMAIN reqs, answer : Answers] /\ f.req = f.of
    BY <2>1
  <2> HIDE DEF f
  <2> QED
    BY <2>1, <2>2 DEF Found
<1>9. ASSUME Wake PROVE Found'
  <2>1. found' = {}
    BY <1>9 DEF Wake
  <2> QED
    BY <2>1 DEF Found
<1>10. ASSUME HostTakesRndis PROVE Found'
  <2>1. found' = found /\ DOMAIN reqs' = DOMAIN reqs
    BY <1>t, <1>c, <1>10, PutEffect DEF HostTakesRndis, SameCount
  <2> QED
    BY <1>v, <2>1 DEF Found
<1>11. ASSUME HostAnswers PROVE Found'
  <2>1. found' = found /\ DOMAIN reqs' = DOMAIN reqs
    BY <1>t, <1>c, <1>11, PutEffect DEF HostAnswers, SameCount
  <2> QED
    BY <1>v, <2>1 DEF Found
<1> QED
  BY <1>1, <1>2, <1>3, <1>4, <1>5, <1>6, <1>7, <1>8, <1>9, <1>10, <1>11 DEF Loud

\* Every response in the ring was in it before.
LEMMA LessResponses ==
  ASSUME NEW T, NEW q \in Seq(T), NEW r, NEW S, Less(q, r, T, S),
         \A m \in T : m.type = "response" => m \in S
  PROVE  \A m \in Range(r) : m.type = "response" => m \in Range(q)
<1>1. r \in Seq(T)
  <2>1. q # <<>> => Tail(q) \in Seq(T)
    BY TailShape
  <2>2. \A m \in T : Append(q, m) \in Seq(T)
    BY AppendShape
  <2>3. <<>> \in Seq(T)
    BY EmptySeq
  <2>4. CASE r = <<>>
    BY <2>3, <2>4
  <2>5. CASE r # <<>>
    BY <2>1, <2>2, <2>5 DEF Less
  <2> QED BY <2>4, <2>5
<1>2. Range(r) \subseteq T
  BY <1>1, RangeTypes
<1> QED
  BY <1>2, LessShape

\* Requests keep their numbers.
LEMMA NumbersStay ==
  ASSUME RingTypes, FilterTypes, Numbered, SameNames, newRequestId' = newRequestId,
         \A m \in Range(fromHost') : m.type = "response" => m \in Range(fromHost)
  PROVE  Numbered'
<1>1. \A m \in Range(fromHost) : m.type = "response" => m.of \in DOMAIN reqs
  BY RangeTypes, InKinds DEF RingTypes
<1> QED
  BY <1>1 DEF Numbered, SameNames, SameCount, SameName

\* The requests are numbered upwards, and each response has the number of its request.
LEMMA NumbersKept ==
  NetVscTypeOK /\ RingTypes /\ FilterTypes /\ IndexTypes /\ RInv /\ (Quiet \/ Loud) => Numbered'
<1> SUFFICES ASSUME NetVscTypeOK, RingTypes, FilterTypes, IndexTypes, RInv, Quiet \/ Loud
             PROVE  Numbered'
  OBVIOUS
<1>t. /\ reqs \in Seq(Requests) /\ toHost \in Seq(OutMessages) /\ fromHost \in Seq(InMessages)
      /\ newRequestId \in Nat
  BY DEF FilterTypes, RingTypes
<1>v. OneWays /\ Found /\ Numbered /\ InHand /\ ListedIsAwaited
  BY DEF RInv
<1>c. rpc \in {"send", "wait"} => cur # 0
  BY <1>v DEF InHand, Busy
<1>u. /\ cur # 0 => cur \in DOMAIN reqs
      /\ DOMAIN reqs = 1 .. cur /\ cur \in Nat
      /\ \A i \in DOMAIN reqs : reqs[i] \in Requests /\ reqs[i].id \in Nat
  BY <1>t, RequestShape DEF Requests
<1> USE DEF netvscRest, netvscVars, memory, answers, rings, rndisVars, thread, device, interface,
            host, gone, At, Fails, Sends, InnerFrame
<1>1. ASSUME Quiet PROVE Numbered'
  <2>1. \A m \in Range(fromHost') : m.type = "response" => m \in Range(fromHost)
    <3> DEFINE S == [type : {"sent"}, of : Nat]
                  \cup [type : {"response"}, of : Nat, id : Nat, answer : Answers]
    <3>1. Less(fromHost, fromHost', InMessages, S)
      BY <1>1 DEF Quiet
    <3>2. \A m \in InMessages : m.type = "response" => m \in S
      BY <1>u DEF InMessages, Completions, NvspAnswers, RndisCompletions, RndisMessages
    <3> HIDE DEF S
    <3> QED
      BY <1>t, <3>1, <3>2, LessResponses
  <2>2. SameNames /\ newRequestId' = newRequestId
    BY <1>1 DEF Quiet, SameNames, SameCount, SameName
  <2> QED
    BY <1>t, <1>v, <2>1, <2>2, NumbersStay
<1>2. ASSUME GetRequest PROVE Numbered'
  <2>1. /\ DOMAIN reqs' = DOMAIN reqs \cup {cur + 1} /\ \A i \in DOMAIN reqs : reqs'[i] = reqs[i]
        /\ reqs'[cur + 1].id = newRequestId'
        /\ newRequestId' \in Nat /\ newRequestId' > newRequestId /\ fromHost' = fromHost
    BY <1>v, <1>2, NewRequest DEF GetRequest
  <2>2. \A m \in Range(fromHost) : m.type = "response" => m.of \in DOMAIN reqs
    BY <1>t, RangeTypes, InKinds
  <2>3. \A i \in DOMAIN reqs : i < cur + 1 /\ ~ (cur + 1 < i) /\ reqs[i].id <= newRequestId
        /\ reqs[i].id \in Nat
    BY <1>u, <1>v DEF Numbered
  <2>4. \A i, j \in DOMAIN reqs' : i < j => reqs'[i].id < reqs'[j].id
    <3> SUFFICES ASSUME NEW i \in DOMAIN reqs', NEW j \in DOMAIN reqs', i < j
                 PROVE  reqs'[i].id < reqs'[j].id
      OBVIOUS
    <3>1. i \in DOMAIN reqs
      BY <1>u, <2>1, <2>3
    <3>2. CASE j \in DOMAIN reqs
      BY <1>v, <2>1, <3>1, <3>2 DEF Numbered
    <3>3. CASE j = cur + 1
      BY <1>t, <2>1, <2>3, <3>1, <3>3
    <3> QED
      BY <2>1, <3>2, <3>3
  <2>5. \A i \in DOMAIN reqs' : reqs'[i].id <= newRequestId'
    <3> SUFFICES ASSUME NEW i \in DOMAIN reqs' PROVE reqs'[i].id <= newRequestId'
      OBVIOUS
    <3>1. CASE i \in DOMAIN reqs
      BY <1>t, <2>1, <2>3, <3>1
    <3>2. CASE i = cur + 1
      BY <2>1, <3>2
    <3> QED
      BY <2>1, <3>1, <3>2
  <2>6. \A m \in Range(fromHost') : m.type = "response" => m.id = reqs'[m.of].id
    BY <1>v, <2>1, <2>2 DEF Numbered
  <2> QED
    BY <2>4, <2>5, <2>6 DEF Numbered
<1>3. ASSUME SendRequest PROVE Numbered'
  <2>1. \A m \in Range(fromHost') : m.type = "response" => m \in Range(fromHost)
    BY <1>3 DEF SendRequest
  <2>2. SameNames /\ newRequestId' = newRequestId
    <3>1. /\ newRequestId' = newRequestId /\ cur # 0
          /\ Put \/ reqs' = reqs
      BY <1>c, <1>3 DEF SendRequest, Outcome
    <3>2. CASE Put
      BY <1>t, <3>1, <3>2, PutEffect DEF SameNames
    <3>3. CASE reqs' = reqs
      BY <3>1, <3>3 DEF SameNames, SameCount, SameName
    <3> QED
      BY <3>1, <3>2, <3>3
  <2> QED
    BY <1>t, <1>v, <2>1, <2>2, NumbersStay
<1>4. ASSUME SendRequestFails PROVE Numbered'
  <2>1. \A m \in Range(fromHost') : m.type = "response" => m \in Range(fromHost)
    BY <1>4 DEF SendRequestFails
  <2>2. SameNames /\ newRequestId' = newRequestId
    <3>1. /\ newRequestId' = newRequestId /\ cur # 0
          /\ Put \/ reqs' = reqs
      BY <1>c, <1>4 DEF SendRequestFails, Outcome
    <3>2. CASE Put
      BY <1>t, <3>1, <3>2, PutEffect DEF SameNames
    <3>3. CASE reqs' = reqs
      BY <3>1, <3>3 DEF SameNames, SameCount, SameName
    <3> QED
      BY <3>1, <3>2, <3>3
  <2> QED
    BY <1>t, <1>v, <2>1, <2>2, NumbersStay
<1>5. ASSUME Answered PROVE Numbered'
  <2>1. \A m \in Range(fromHost') : m.type = "response" => m \in Range(fromHost)
    BY <1>5 DEF Answered
  <2>2. SameNames /\ newRequestId' = newRequestId
    <3>1. /\ newRequestId' = newRequestId /\ cur # 0
          /\ Put \/ reqs' = reqs
      BY <1>c, <1>5 DEF Answered, Outcome
    <3>2. CASE Put
      BY <1>t, <3>1, <3>2, PutEffect DEF SameNames
    <3>3. CASE reqs' = reqs
      BY <3>1, <3>3 DEF SameNames, SameCount, SameName
    <3> QED
      BY <3>1, <3>2, <3>3
  <2> QED
    BY <1>t, <1>v, <2>1, <2>2, NumbersStay
<1>6. ASSUME TimeOut PROVE Numbered'
  <2>1. \A m \in Range(fromHost') : m.type = "response" => m \in Range(fromHost)
    BY <1>6 DEF TimeOut
  <2>2. SameNames /\ newRequestId' = newRequestId
    BY <1>6 DEF TimeOut, Outcome, SameNames, SameCount, SameName
  <2> QED
    BY <1>t, <1>v, <2>1, <2>2, NumbersStay
<1>7. ASSUME Interrupted PROVE Numbered'
  <2>1. \A m \in Range(fromHost') : m.type = "response" => m \in Range(fromHost)
    BY <1>7 DEF Interrupted
  <2>2. SameNames /\ newRequestId' = newRequestId
    <3>1. /\ newRequestId' = newRequestId /\ cur # 0
          /\ Put \/ reqs' = reqs
      BY <1>c, <1>7 DEF Interrupted, Outcome
    <3>2. CASE Put
      BY <1>t, <3>1, <3>2, PutEffect DEF SameNames
    <3>3. CASE reqs' = reqs
      BY <3>1, <3>3 DEF SameNames, SameCount, SameName
    <3> QED
      BY <3>1, <3>2, <3>3
  <2> QED
    BY <1>t, <1>v, <2>1, <2>2, NumbersStay
<1>8. ASSUME ReceiveResponse PROVE Numbered'
  <2>1. \A m \in Range(fromHost') : m.type = "response" => m \in Range(fromHost)
    <3>1. fromHost # <<>> /\ fromHost' = Tail(fromHost)
      BY <1>8 DEF ReceiveResponse, Receives
    <3> QED
      BY <1>t, <3>1, TailRange
  <2>2. SameNames /\ newRequestId' = newRequestId
    BY <1>8 DEF ReceiveResponse, SameNames, SameCount, SameName
  <2> QED
    BY <1>t, <1>v, <2>1, <2>2, NumbersStay
<1>9. ASSUME Wake PROVE Numbered'
  <2>1. \A m \in Range(fromHost') : m.type = "response" => m \in Range(fromHost)
    BY <1>9 DEF Wake
  <2>2. SameNames /\ newRequestId' = newRequestId
    BY <1>t, <1>v, <1>9, WakeEffect DEF Wake, SameNames
  <2> QED
    BY <1>t, <1>v, <2>1, <2>2, NumbersStay
<1>10. ASSUME HostTakesRndis PROVE Numbered'
  <2>1. \A m \in Range(fromHost') : m.type = "response" => m \in Range(fromHost)
    <3> DEFINE m == Completion(Head(toHost).of)
    <3>1. fromHost' = Append(fromHost, m) /\ m.type = "sent"
      BY <1>10 DEF HostTakesRndis, Completion
    <3>2. toHost # <<>> /\ Head(toHost).type = "rndis"
      BY <1>10 DEF HostTakesRndis
    <3>3. Head(toHost).of \in DOMAIN reqs
      BY <1>t, <3>2, TailShape, OutKinds
    <3>4. m \in InMessages
      BY <3>3 DEF InMessages, RndisCompletions, Completion
    <3> HIDE DEF m
    <3> QED
      BY <1>t, <3>1, <3>4, AppendRange
  <2>2. SameNames /\ newRequestId' = newRequestId
    BY <1>10 DEF HostTakesRndis, SameNames, SameCount, SameName
  <2> QED
    BY <1>t, <1>v, <2>1, <2>2, NumbersStay
<1>11. ASSUME HostAnswers PROVE Numbered'
  <2>1. PICK k \in pending, x \in Answers :
          fromHost' = Append(fromHost, [type |-> "response", of |-> k, id |-> reqs[k].id,
                                        answer |-> x])
    BY <1>11 DEF HostAnswers, AnswersTo, Answers
  <2>2. UNCHANGED <<reqs, newRequestId>>
    BY <1>11 DEF HostAnswers
  <2> DEFINE m == [type |-> "response", of |-> k, id |-> reqs[k].id, answer |-> x]
  <2>3. k \in DOMAIN reqs
    BY DEF IndexTypes
  <2>4. m \in InMessages /\ m.of = k /\ m.id = reqs[k].id /\ fromHost' = Append(fromHost, m)
    BY <1>u, <2>1, <2>3 DEF InMessages, RndisMessages
  <2> HIDE DEF m
  <2>5. Range(fromHost') = Range(fromHost) \cup {m}
    BY <1>t, <2>4, AppendRange
  <2> QED
    BY <1>v, <2>2, <2>4, <2>5 DEF Numbered
<1> QED
  BY <1>1, <1>2, <1>3, <1>4, <1>5, <1>6, <1>7, <1>8, <1>9, <1>10, <1>11 DEF Loud

\* What there is of a request, when it is the last one.
LEMMA DoneNow ==
  ASSUME NEW k, cur' = k, Done(k)'
  PROVE  Done(cur)'
<1> HIDE DEF cur
<1> QED
  BY DEF Done, Unsent, NotCompleting, Unanswered, Unfound, Sent, Completion, RepliesTo

\* The request in hand stays in hand.
LEMMA HandStays ==
  ASSUME RingTypes, InHand, NEW k, k = cur, UNCHANGED <<thread, overdue, interrupted>>,
         cur' = cur, cur # 0 => SameName(k) /\ (rpc = "send" => Calm(k) /\ ~ reqs'[k].set)
  PROVE  InHand'
<1>1. UNCHANGED <<call, rpc, arg>>
  BY DEF thread
<1>2. Busy' = Busy
  BY <1>1 DEF Busy
<1>3. Busy => cur # 0 /\ reqs'[k].call = call /\ reqs'[k].arg = arg
      /\ k \notin overdue \cup interrupted
  BY DEF InHand, SameName
<1>4. rpc = "send" => Done(cur)' /\ ~ reqs'[k].set
  <2> SUFFICES ASSUME rpc = "send" PROVE Done(cur)' /\ ~ reqs'[k].set
    OBVIOUS
  <2>1. cur # 0 /\ Done(k)
    BY DEF InHand, Busy
  <2>2. Done(k)'
    BY <2>1, CalmTokens
  <2> QED
    BY <2>1, <2>2, DoneNow
<1> HIDE DEF cur
<1> QED
  BY <1>1, <1>2, <1>3, <1>4 DEF InHand, Resting

\* After its outcome no request is in hand.
LEMMA OutcomeRests ==
  ASSUME NEW ok, Outcome(ok)
  PROVE  ~ Busy' /\ rpc' # "send" /\ (call' \in Resting => rpc' = "idle")
BY DEF Outcome, Busy, Resting

\* The thread has the last request in hand, nobody else has it yet while it is to be sent.
LEMMA InHandKept ==
  NetVscTypeOK /\ RingTypes /\ FilterTypes /\ IndexTypes /\ RInv /\ (Quiet \/ Loud) => InHand'
<1> SUFFICES ASSUME NetVscTypeOK, RingTypes, FilterTypes, IndexTypes, RInv, Quiet \/ Loud
             PROVE  InHand'
  OBVIOUS
<1>t. /\ reqs \in Seq(Requests) /\ toHost \in Seq(OutMessages) /\ fromHost \in Seq(InMessages)
      /\ newRequestId \in Nat
  BY DEF FilterTypes, RingTypes
<1>v. OneWays /\ Found /\ Numbered /\ InHand /\ ListedIsAwaited
  BY DEF RInv
<1>c. rpc \in {"send", "wait"} => cur # 0
  BY <1>v DEF InHand, Busy
<1>u. /\ cur # 0 => cur \in DOMAIN reqs
      /\ DOMAIN reqs = 1 .. cur /\ cur \in Nat
      /\ \A i \in DOMAIN reqs : reqs[i] \in Requests /\ reqs[i].id \in Nat
  BY <1>t, RequestShape DEF Requests
<1> USE DEF netvscRest, netvscVars, memory, answers, rings, rndisVars, thread, device, interface,
            host, gone, At, Fails, Sends, InnerFrame
<1>1. ASSUME Quiet PROVE InHand'
  <2>1. CASE UNCHANGED thread
    <3> PICK c : c = cur
      OBVIOUS
    <3>1. Calm(c) /\ UNCHANGED <<reqs, overdue, interrupted>>
      BY <1>u, <1>1, QuietIsCalm DEF Quiet
    <3>2. cur' = cur /\ SameName(c)
      BY <3>1 DEF cur, SameName
    <3>3. rpc = "send" => ~ reqs'[c].set
      BY <1>v, <3>1 DEF InHand
    <3> HIDE DEF cur
    <3> QED
      BY <1>v, <2>1, <3>1, <3>2, <3>3, HandStays
  <2>2. CASE ~ Busy /\ ~ Busy' /\ (call' \in Resting => rpc' = "idle")
    BY <2>2 DEF InHand, Busy, Resting
  <2> QED
    BY <1>1, <2>1, <2>2 DEF Quiet
<1>2. ASSUME GetRequest PROVE InHand'
  <2>1. /\ cur' = cur + 1 /\ cur + 1 \notin DOMAIN reqs
        /\ LET r == reqs'[cur + 1] IN r.call = call /\ r.arg = arg /\ ~ r.set
    BY <1>v, <1>2, NewRequest
  <2>2. /\ rpc' = "send" /\ call' = call /\ arg' = arg /\ cur + 1 # 0 /\ call \notin Resting
        /\ UNCHANGED <<toHost, fromHost, pending, found, overdue, interrupted>>
    BY <1>u, <1>v, <1>2 DEF GetRequest, InHand
  <2> PICK k : k = cur + 1
    OBVIOUS
  <2>3. k \notin DOMAIN reqs /\ cur' = k /\ k # 0 /\ reqs'[k].call = call /\ reqs'[k].arg = arg
        /\ ~ reqs'[k].set
    BY <2>1, <2>2
  <2>4. Done(k) /\ k \notin overdue \cup interrupted
    BY <2>3, NothingOfNew
  <2>5. Done(k)'
    BY <2>2, <2>4 DEF Done, Unsent, NotCompleting, Unanswered, Unfound, Sent, Completion,
       RepliesTo
  <2>6. Done(cur)'
    BY <2>3, <2>5, DoneNow
  <2> HIDE DEF cur
  <2> QED
    BY <2>2, <2>3, <2>4, <2>6 DEF InHand, Busy, Resting
<1>3. ASSUME SendRequest PROVE InHand'
  <2>1. CASE call = "halt"
    <3>1. Outcome(TRUE)
      BY <1>3, <2>1 DEF SendRequest
    <3> QED
      BY <3>1, OutcomeRests DEF InHand, Busy
  <2>2. CASE call # "halt"
    <3>1. /\ rpc' = "wait" /\ UNCHANGED <<call, arg, reqs, overdue, interrupted>> /\ Busy
      BY <1>3, <2>2 DEF SendRequest, Busy
    <3>2. cur' = cur
      BY <3>1 DEF cur
    <3>3. cur # 0 /\ reqs[cur].call = call /\ reqs[cur].arg = arg
          /\ cur \notin overdue \cup interrupted
          /\ call \notin Resting
      BY <1>v, <3>1 DEF InHand, Busy
    <3> HIDE DEF cur
    <3> QED
      BY <3>1, <3>2, <3>3 DEF InHand, Resting
  <2> QED
    BY <2>1, <2>2
<1>4. ASSUME SendRequestFails PROVE InHand'
  <2>1. \E ok : Outcome(ok)
    BY <1>4 DEF SendRequestFails
  <2> QED
    BY <2>1, OutcomeRests DEF InHand, Busy
<1>5. ASSUME Answered PROVE InHand'
  <2>1. \E ok : Outcome(ok)
    BY <1>5 DEF Answered
  <2> QED
    BY <2>1, OutcomeRests DEF InHand, Busy
<1>6. ASSUME TimeOut PROVE InHand'
  <2>1. \E ok : Outcome(ok)
    BY <1>6 DEF TimeOut
  <2> QED
    BY <2>1, OutcomeRests DEF InHand, Busy
<1>7. ASSUME Interrupted PROVE InHand'
  <2>1. \E ok : Outcome(ok)
    BY <1>7 DEF Interrupted
  <2> QED
    BY <2>1, OutcomeRests DEF InHand, Busy
<1>8. ASSUME ReceiveResponse PROVE InHand'
  <2>1. cur' = cur /\ UNCHANGED <<thread, overdue, interrupted>>
    BY <1>8 DEF ReceiveResponse, cur
  <2> PICK c : c = cur
    OBVIOUS
  <2>2. cur # 0 => SameName(c)
    BY <1>8 DEF ReceiveResponse, SameName
  <2>3. ASSUME rpc = "send" PROVE Calm(c) /\ ~ reqs'[c].set
    <3>1. Done(c) /\ ~ reqs[c].set /\ c \in DOMAIN reqs
      BY <1>c, <1>u, <1>v, <2>3 DEF InHand
    <3> DEFINE k == Head(fromHost).of
               f == [req |-> k, of |-> k, answer |-> Head(fromHost).answer]
    <3>2. Head(fromHost) \in RepliesTo(k) /\ Head(fromHost) \in Range(fromHost)
          /\ found' \subseteq {f}
          /\ f.of = k
      BY <1>t, <1>v, <1>8, ResponseFinds
    <3> HIDE DEF k, f
    <3>3. k # c
      BY <3>1, <3>2 DEF Done, Unanswered
    <3>4. /\ fromHost # <<>> /\ fromHost' = Tail(fromHost)
          /\ UNCHANGED <<toHost, pending, reqs>>
      BY <1>8 DEF ReceiveResponse, Receives
    <3> QED
      BY <3>1, <3>2, <3>3, <3>4 DEF Calm, Less, Unfound
  <2> HIDE DEF cur
  <2> QED
    BY <1>v, <2>1, <2>2, <2>3, HandStays
<1>9. ASSUME Wake PROVE InHand'
  <2>1. cur' = cur /\ UNCHANGED <<thread, overdue, interrupted, toHost, fromHost, pending>>
        /\ found' = {}
    BY <1>t, <1>v, <1>9, WakeEffect DEF Wake, SameCount, cur
  <2> PICK c : c = cur
    OBVIOUS
  <2>2. cur # 0 => SameName(c)
    BY <1>t, <1>u, <1>v, <1>9, WakeEffect
  <2>3. ASSUME rpc = "send" PROVE Calm(c) /\ ~ reqs'[c].set
    <3>1. Done(c) /\ ~ reqs[c].set /\ c \in DOMAIN reqs
      BY <1>c, <1>u, <1>v, <2>3 DEF InHand
    <3>2. \A f \in found : f.of # c
      BY <3>1 DEF Done, Unfound
    <3>3. reqs'[c] = reqs[c]
      BY <1>t, <1>v, <1>9, <3>1, <3>2, WakeEffect
    <3> QED
      BY <2>1, <3>1, <3>3 DEF Calm, Less, Unfound
  <2> HIDE DEF cur
  <2> QED
    BY <1>v, <2>1, <2>2, <2>3, HandStays
<1>10. ASSUME HostTakesRndis PROVE InHand'
  <2>1. cur' = cur /\ UNCHANGED <<thread, overdue, interrupted>>
    BY <1>10 DEF HostTakesRndis, cur
  <2> PICK c : c = cur
    OBVIOUS
  <2>2. cur # 0 => SameName(c)
    BY <1>10 DEF HostTakesRndis, SameName
  <2>3. ASSUME rpc = "send" PROVE Calm(c) /\ ~ reqs'[c].set
    <3>1. Done(c) /\ ~ reqs[c].set /\ c \in DOMAIN reqs
      BY <1>c, <1>u, <1>v, <2>3 DEF InHand
    <3> DEFINE k == Head(toHost).of
    <3>2. /\ toHost # <<>> /\ toHost' = Tail(toHost) /\ Head(toHost).type = "rndis"
          /\ fromHost' = Append(fromHost, Completion(k))
          /\ pending' \subseteq pending \cup {k}
          /\ UNCHANGED <<reqs, found>>
      BY <1>10 DEF HostTakesRndis, Completion
    <3>3. k \in DOMAIN reqs /\ Sent(k) \in Range(toHost)
      BY <1>t, <3>2, TailShape, TailRange, OutKinds
    <3> HIDE DEF k
    <3>4. k # c
      BY <3>1, <3>3 DEF Done, Unsent
    <3>5. Completion(k) \in InMessages /\ Completion(k) \notin Coming(c)
      BY <3>3, <3>4 DEF InMessages, RndisCompletions, Completion, Coming, RepliesTo
    <3>6. Less(fromHost, fromHost', InMessages, Coming(c))
      BY <3>2, <3>5 DEF Less
    <3> QED
      BY <3>1, <3>2, <3>4, <3>6 DEF Calm, Less, Unfound
  <2> HIDE DEF cur
  <2> QED
    BY <1>v, <2>1, <2>2, <2>3, HandStays
<1>11. ASSUME HostAnswers PROVE InHand'
  <2>1. cur' = cur /\ UNCHANGED <<thread, overdue, interrupted>>
    BY <1>11 DEF HostAnswers, cur
  <2> PICK c : c = cur
    OBVIOUS
  <2>2. cur # 0 => SameName(c)
    BY <1>11 DEF HostAnswers, SameName
  <2>3. ASSUME rpc = "send" PROVE Calm(c) /\ ~ reqs'[c].set
    <3>1. Done(c) /\ ~ reqs[c].set /\ c \in DOMAIN reqs
      BY <1>c, <1>u, <1>v, <2>3 DEF InHand
    <3>2. PICK k \in pending, x \in Answers :
            /\ pending' = pending \ {k}
            /\ fromHost' = Append(fromHost, [type |-> "response", of |-> k, id |-> reqs[k].id,
                                             answer |-> x])
      BY <1>11 DEF HostAnswers, AnswersTo, Answers
    <3>3. UNCHANGED <<toHost, reqs, found>>
      BY <1>11 DEF HostAnswers
    <3> DEFINE m == [type |-> "response", of |-> k, id |-> reqs[k].id, answer |-> x]
    <3>4. k \in DOMAIN reqs /\ k # c
      BY <3>1 DEF IndexTypes, Done
    <3>5. m \in InMessages /\ fromHost' = Append(fromHost, m)
      BY <1>u, <3>2, <3>4 DEF InMessages, RndisMessages
    <3>6. m \notin Coming(c)
      <4> QED
        BY <3>4 DEF Coming, Completion, RepliesTo
    <3> HIDE DEF m
    <3>7. Less(fromHost, fromHost', InMessages, Coming(c))
      BY <3>5, <3>6 DEF Less
    <3> QED
      BY <3>1, <3>2, <3>3, <3>7 DEF Calm, Less, Unfound
  <2> HIDE DEF cur
  <2> QED
    BY <1>v, <2>1, <2>2, <2>3, HandStays
<1> QED
  BY <1>1, <1>2, <1>3, <1>4, <1>5, <1>6, <1>7, <1>8, <1>9, <1>10, <1>11 DEF Loud

\* A request that is freed leaves the list.
LEMMA PutUnlists ==
  ASSUME FilterTypes, InHand, ListedIsAwaited, Put, cur # 0, Busy, overdue' = overdue,
         \E ok : Outcome(ok)
  PROVE  ListedIsAwaited'
<1>1. /\ cur' = cur /\ cur \in DOMAIN reqs /\ DOMAIN reqs' = DOMAIN reqs
      /\ \A i \in DOMAIN reqs \ {cur} : reqs'[i] = reqs[i]
      /\ ~ reqs'[cur].listed
  BY RequestShape, PutEffect DEF FilterTypes, SameCount, cur
<1>2. ~ Busy' /\ cur \notin overdue
  BY OutcomeRests DEF InHand
<1> HIDE DEF cur
<1> QED
  BY <1>1, <1>2 DEF ListedIsAwaited

\* RequestList holds what is awaited and what timed out.
LEMMA ListedKept ==
  NetVscTypeOK /\ RingTypes /\ FilterTypes /\ IndexTypes /\ RInv /\ (Quiet \/ Loud)
        => ListedIsAwaited'
<1> SUFFICES ASSUME NetVscTypeOK, RingTypes, FilterTypes, IndexTypes, RInv, Quiet \/ Loud
             PROVE  ListedIsAwaited'
  OBVIOUS
<1>t. /\ reqs \in Seq(Requests) /\ toHost \in Seq(OutMessages) /\ fromHost \in Seq(InMessages)
      /\ newRequestId \in Nat
  BY DEF FilterTypes, RingTypes
<1>v. OneWays /\ Found /\ Numbered /\ InHand /\ ListedIsAwaited
  BY DEF RInv
<1>c. rpc \in {"send", "wait"} => cur # 0
  BY <1>v DEF InHand, Busy
<1>u. /\ cur # 0 => cur \in DOMAIN reqs
      /\ DOMAIN reqs = 1 .. cur /\ cur \in Nat
      /\ \A i \in DOMAIN reqs : reqs[i] \in Requests /\ reqs[i].id \in Nat
  BY <1>t, RequestShape DEF Requests
<1> USE DEF netvscRest, netvscVars, memory, answers, rings, rndisVars, thread, device, interface,
            host, gone, At, Fails, Sends, InnerFrame
<1>1. ASSUME Quiet PROVE ListedIsAwaited'
  <2>1. cur' = cur /\ UNCHANGED <<reqs, overdue>> /\ (Busy' <=> Busy)
    BY <1>1 DEF Quiet, cur, Busy
  <2> HIDE DEF cur
  <2> QED
    BY <1>v, <2>1 DEF ListedIsAwaited
<1>2. ASSUME GetRequest PROVE ListedIsAwaited'
  <2>1. /\ cur' = cur + 1 /\ DOMAIN reqs' = DOMAIN reqs \cup {cur + 1}
        /\ cur + 1 \notin DOMAIN reqs
        /\ \A i \in DOMAIN reqs : reqs'[i] = reqs[i]
        /\ reqs'[cur + 1].listed /\ ~ reqs'[cur + 1].freed
    BY <1>v, <1>2, NewRequest
  <2>2. ~ Busy /\ Busy' /\ overdue' = overdue
    BY <1>2 DEF GetRequest, Busy
  <2> HIDE DEF cur
  <2> QED
    BY <1>v, <2>1, <2>2 DEF ListedIsAwaited
<1>3. ASSUME SendRequest PROVE ListedIsAwaited'
  <2>1. CASE call = "halt"
    <3>1. Put /\ cur # 0 /\ overdue' = overdue /\ Busy /\ Outcome(TRUE)
      BY <1>c, <1>3, <2>1 DEF SendRequest, Busy
    <3> QED
      BY <1>v, <3>1, PutUnlists
  <2>2. CASE call # "halt"
    <3>1. cur' = cur /\ UNCHANGED <<reqs, overdue>> /\ Busy /\ Busy'
      BY <1>3, <2>2 DEF SendRequest, Busy, cur
    <3> HIDE DEF cur
    <3> QED
      BY <1>v, <3>1 DEF ListedIsAwaited
  <2> QED
    BY <2>1, <2>2
<1>4. ASSUME SendRequestFails PROVE ListedIsAwaited'
  <2>1. Put /\ cur # 0 /\ overdue' = overdue /\ Busy
    BY <1>c, <1>4 DEF SendRequestFails, Busy
  <2>2. \E ok : Outcome(ok)
    BY <1>4 DEF SendRequestFails
  <2> QED
    BY <1>v, <2>1, <2>2, PutUnlists
<1>5. ASSUME Answered PROVE ListedIsAwaited'
  <2>1. Put /\ cur # 0 /\ overdue' = overdue /\ Busy
    BY <1>c, <1>5 DEF Answered, Busy
  <2>2. \E ok : Outcome(ok)
    BY <1>5 DEF Answered
  <2> QED
    BY <1>v, <2>1, <2>2, PutUnlists
<1>6. ASSUME TimeOut PROVE ListedIsAwaited'
  <2>1. cur' = cur /\ reqs' = reqs /\ overdue' = overdue \cup {cur} /\ Busy /\ Outcome(FALSE)
    BY <1>6 DEF TimeOut, cur, Busy
  <2>2. ~ Busy'
    BY <2>1, OutcomeRests
  <2> HIDE DEF cur
  <2> QED
    BY <1>v, <2>1, <2>2 DEF ListedIsAwaited
<1>7. ASSUME Interrupted PROVE ListedIsAwaited'
  <2>1. Put /\ cur # 0 /\ overdue' = overdue /\ Busy
    BY <1>c, <1>7 DEF Interrupted, Busy
  <2>2. \E ok : Outcome(ok)
    BY <1>7 DEF Interrupted
  <2> QED
    BY <1>v, <2>1, <2>2, PutUnlists
<1>8. ASSUME ReceiveResponse PROVE ListedIsAwaited'
  <2>1. cur' = cur /\ UNCHANGED <<rpc, overdue>> /\ DOMAIN reqs' = DOMAIN reqs
        /\ \A i \in DOMAIN reqs : reqs'[i].listed = reqs[i].listed
              /\ reqs'[i].freed = reqs[i].freed
    BY <1>t, <1>v, <1>8, WakeEffect DEF ReceiveResponse, cur, SameCount
  <2> HIDE DEF cur
  <2> QED
    BY <1>v, <2>1 DEF ListedIsAwaited, Busy
<1>9. ASSUME Wake PROVE ListedIsAwaited'
  <2>1. cur' = cur /\ UNCHANGED <<rpc, overdue>> /\ DOMAIN reqs' = DOMAIN reqs
        /\ \A i \in DOMAIN reqs : reqs'[i].listed = reqs[i].listed
              /\ reqs'[i].freed = reqs[i].freed
    BY <1>t, <1>v, <1>9, WakeEffect DEF Wake, cur, SameCount
  <2> HIDE DEF cur
  <2> QED
    BY <1>v, <2>1 DEF ListedIsAwaited, Busy
<1>10. ASSUME HostTakesRndis PROVE ListedIsAwaited'
  <2>1. cur' = cur /\ UNCHANGED <<rpc, overdue>> /\ DOMAIN reqs' = DOMAIN reqs
        /\ \A i \in DOMAIN reqs : reqs'[i].listed = reqs[i].listed
              /\ reqs'[i].freed = reqs[i].freed
    BY <1>t, <1>v, <1>10, WakeEffect DEF HostTakesRndis, cur, SameCount
  <2> HIDE DEF cur
  <2> QED
    BY <1>v, <2>1 DEF ListedIsAwaited, Busy
<1>11. ASSUME HostAnswers PROVE ListedIsAwaited'
  <2>1. cur' = cur /\ UNCHANGED <<rpc, overdue>> /\ DOMAIN reqs' = DOMAIN reqs
        /\ \A i \in DOMAIN reqs : reqs'[i].listed = reqs[i].listed
              /\ reqs'[i].freed = reqs[i].freed
    BY <1>t, <1>v, <1>11, WakeEffect DEF HostAnswers, cur, SameCount
  <2> HIDE DEF cur
  <2> QED
    BY <1>v, <2>1 DEF ListedIsAwaited, Busy
<1> QED
  BY <1>1, <1>2, <1>3, <1>4, <1>5, <1>6, <1>7, <1>8, <1>9, <1>10, <1>11 DEF Loud

\* Every step keeps the conjuncts about the requests.
LEMMA RequestsKept ==
  NetVscTypeOK /\ RingTypes /\ FilterTypes /\ IndexTypes /\ RInv /\ Next => RInv'
<1> SUFFICES ASSUME NetVscTypeOK, RingTypes, FilterTypes, IndexTypes, RInv, Next PROVE RInv'
  OBVIOUS
<1>1. Quiet \/ Loud
  BY QuietSteps DEF RInv
<1> QED
  BY <1>1, OneWaysKept, FoundKept, NumbersKept, InHandKept, ListedKept DEF RInv

-----------------------------------------------------------------------------
(* The network channel.                                                    *)

Revokes == [type : {"revoke"}, b : Buffers]
Nvsp == Asks \cup Revokes

\* What q has of S is what r has of it.
Elsewhere(q, r, T, S) ==
  \/ r = q
  \/ q # <<>> /\ Head(q) \notin S /\ r = Tail(q)
  \/ \E m \in T \ S : r = Append(q, m)

\* So it has as many of S.
LEMMA ElsewhereShape ==
  ASSUME NEW T, NEW q \in Seq(T), NEW r, NEW S, Elsewhere(q, r, T, S)
  PROVE  /\ Range(r) \cap S = Range(q) \cap S
         /\ \A A \in SUBSET S : Once(q, A) => Once(r, A)
<1>1. CASE r = q
  BY <1>1
<1>2. CASE q # <<>> /\ Head(q) \notin S /\ r = Tail(q)
  <2>1. Range(r) \cap S = Range(q) \cap S
    BY <1>2, TailRange
  <2>2. \A A \in SUBSET S : Once(q, A) => Once(r, A)
    BY <1>2, OnceTail
  <2> QED
    BY <2>1, <2>2
<1>3. CASE \E m \in T \ S : r = Append(q, m)
  <2>1. PICK m \in T \ S : r = Append(q, m)
    BY <1>3
  <2>2. Range(r) \cap S = Range(q) \cap S
    BY <2>1, AppendRange
  <2>3. ASSUME NEW A \in SUBSET S, Once(q, A) PROVE Once(r, A)
    <3>1. m \in T /\ m \notin A
      BY <2>1
    <3> QED
      BY <2>1, <2>3, <3>1, OnceAppend
  <2> QED
    BY <2>2, <2>3
<1> QED
  BY <1>1, <1>2, <1>3 DEF Elsewhere

\* What the filter does leaves the network channel alone.
NvspQuiet ==
  /\ Elsewhere(toHost, toHost', OutMessages, Nvsp)
  /\ Elsewhere(fromHost, fromHost', InMessages, Replies)
  /\ UNCHANGED <<step, buf, goal, allocated, handle, sections, mapped, kept, initPacket,
                 initEvent, inUse>>
  /\ call' \notin {"none", "removed"} => step = "up"

NvspLoud ==
  ((NetVscThread \/ NetVscFails) /\ InnerFrame) \/ InnerCallback \/ InnerHost \/ Remove
  \/ SendsCompleted

\* The steps of the filter leave the network channel alone.
LEMMA NvspSteps ==
  ASSUME RingTypes, FilterTypes, IndexTypes, InHand, Goals, Next
  PROVE  NvspQuiet \/ NvspLoud
<1>t. /\ toHost \in Seq(OutMessages) /\ fromHost \in Seq(InMessages) /\ hostLink \in BOOLEAN
  BY DEF FilterTypes, RingTypes
<1>g. call \notin {"none", "removed"} => step = "up"
  BY DEF Goals
<1>h. /\ rpc # "idle" => call \notin {"none", "removed"}
      /\ cur # 0 => cur \in DOMAIN reqs
      /\ rpc \in {"send", "wait"} => cur # 0
  BY RequestShape DEF InHand, Resting, FilterTypes, Busy
<1> USE DEF netvscRest, netvscVars, memory, answers, rings, rndisVars, thread, device, interface,
            host, gone, At, Fails, Sends, InnerFrame, Elsewhere
<1>1. ASSUME DeviceAdd PROVE NvspQuiet
  BY <1>g, <1>h, <1>1 DEF NvspQuiet, DeviceAdd
<1>2. ASSUME GetRequest PROVE NvspQuiet
  BY <1>g, <1>h, <1>2 DEF NvspQuiet, GetRequest
<1>3. ASSUME SendRequest PROVE NvspQuiet
  <2>1. UNCHANGED <<fromHost, step, buf, goal, allocated, handle, sections, mapped, kept,
                  initPacket, initEvent, inUse>>
    BY <1>3 DEF SendRequest
  <2>2. step = "up"
    BY <1>g, <1>h, <1>3 DEF SendRequest
  <2>3. toHost' = Append(toHost, Sent(cur)) /\ Sent(cur) \in OutMessages /\ Sent(cur) \notin Nvsp
    BY <1>h, <1>3 DEF SendRequest, Sent, OutMessages, Nvsp, Asks, Revokes
  <2> QED
    BY <2>1, <2>2, <2>3 DEF NvspQuiet
<1>4. ASSUME SendRequestFails PROVE NvspQuiet
  <2>1. UNCHANGED <<toHost, fromHost, step, buf, goal, allocated, handle, sections, mapped, kept,
                  initPacket, initEvent, inUse>>
    BY <1>4 DEF SendRequestFails
  <2>2. step = "up"
    BY <1>g, <1>h, <1>4 DEF SendRequestFails
  <2> QED
    BY <2>1, <2>2 DEF NvspQuiet
<1>5. ASSUME Answered PROVE NvspQuiet
  <2>1. UNCHANGED <<toHost, fromHost, step, buf, goal, allocated, handle, sections, mapped, kept,
                  initPacket, initEvent, inUse>>
    BY <1>5 DEF Answered
  <2>2. step = "up"
    BY <1>g, <1>h, <1>5 DEF Answered
  <2> QED
    BY <2>1, <2>2 DEF NvspQuiet
<1>6. ASSUME TimeOut PROVE NvspQuiet
  <2>1. UNCHANGED <<toHost, fromHost, step, buf, goal, allocated, handle, sections, mapped, kept,
                  initPacket, initEvent, inUse>>
    BY <1>6 DEF TimeOut
  <2>2. step = "up"
    BY <1>g, <1>h, <1>6 DEF TimeOut
  <2> QED
    BY <2>1, <2>2 DEF NvspQuiet
<1>7. ASSUME Interrupted PROVE NvspQuiet
  <2>1. UNCHANGED <<toHost, fromHost, step, buf, goal, allocated, handle, sections, mapped, kept,
                  initPacket, initEvent, inUse>>
    BY <1>7 DEF Interrupted
  <2>2. step = "up"
    BY <1>g, <1>h, <1>7 DEF Interrupted
  <2> QED
    BY <2>1, <2>2 DEF NvspQuiet
<1>8. ASSUME Attach PROVE NvspQuiet
  BY <1>g, <1>h, <1>8 DEF NvspQuiet, Attach
<1>9. ASSUME Up PROVE NvspQuiet
  BY <1>g, <1>h, <1>9 DEF NvspQuiet, Up, OpenDevice, Calls
<1>10. ASSUME Stop PROVE NvspQuiet
  BY <1>g, <1>h, <1>10 DEF NvspQuiet, Stop, CloseDevice, Calls
<1>11. ASSUME SetMode PROVE NvspQuiet
  BY <1>g, <1>h, <1>11 DEF NvspQuiet, SetMode, Calls
<1>12. ASSUME Halt PROVE NvspQuiet
  BY <1>g, <1>h, <1>12 DEF NvspQuiet, Halt
<1>13. ASSUME OnSendRequestCompletion PROVE NvspQuiet
  <2>1. fromHost # <<>> /\ Head(fromHost).type = "sent" /\ fromHost' = Tail(fromHost)
        /\ toHost' = toHost
    BY <1>13 DEF OnSendRequestCompletion, Receives
  <2>2. Head(fromHost) \notin Replies
    BY <2>1 DEF Replies, NvspAnswers
  <2> QED
    BY <1>g, <1>13, <2>1, <2>2 DEF NvspQuiet, OnSendRequestCompletion
<1>14. ASSUME ReceiveResponse PROVE NvspQuiet
  <2>1. fromHost # <<>> /\ Head(fromHost).type = "response" /\ fromHost' = Tail(fromHost)
        /\ toHost' = toHost
    BY <1>14 DEF ReceiveResponse, Receives
  <2>2. Head(fromHost) \notin Replies
    BY <2>1 DEF Replies, NvspAnswers
  <2> QED
    BY <1>g, <1>14, <2>1, <2>2 DEF NvspQuiet, ReceiveResponse
<1>15. ASSUME Wake PROVE NvspQuiet
  BY <1>g, <1>h, <1>15 DEF NvspQuiet, Wake
<1>16. ASSUME ReceiveIndicateStatus PROVE NvspQuiet
  <2>1. fromHost # <<>> /\ Head(fromHost).type = "link" /\ fromHost' = Tail(fromHost)
        /\ toHost' = toHost
    BY <1>16 DEF ReceiveIndicateStatus, Receives
  <2>2. Head(fromHost) \notin Replies
    BY <2>1 DEF Replies, NvspAnswers
  <2> QED
    BY <1>g, <1>16, <2>1, <2>2 DEF NvspQuiet, ReceiveIndicateStatus
<1>17. ASSUME HostTakesRndis PROVE NvspQuiet
  <2>1. /\ toHost # <<>> /\ Head(toHost).type = "rndis" /\ toHost' = Tail(toHost)
        /\ fromHost' = Append(fromHost, Completion(Head(toHost).of))
        /\ UNCHANGED <<step, buf, goal, allocated, handle, sections, mapped, kept,
                      initPacket, initEvent, inUse, call>>
    BY <1>17 DEF HostTakesRndis, Completion
  <2>2. Head(toHost).of \in DOMAIN reqs
    BY <1>t, <2>1, TailShape, OutKinds
  <2> DEFINE m == Completion(Head(toHost).of)
  <2>3. m \in InMessages /\ m \notin Replies
    BY <2>2 DEF InMessages, RndisCompletions, Completion, Replies, NvspAnswers
  <2>4. Head(toHost) \notin Nvsp
    BY <2>1 DEF Nvsp, Asks, Revokes
  <2>5. fromHost' = Append(fromHost, m)
    BY <2>1
  <2> HIDE DEF m
  <2> QED
    BY <1>g, <2>1, <2>3, <2>4, <2>5 DEF NvspQuiet
<1>18. ASSUME HostAnswers PROVE NvspQuiet
  <2>1. PICK k \in pending, x \in Answers :
          fromHost' = Append(fromHost, [type |-> "response", of |-> k, id |-> reqs[k].id,
                                        answer |-> x])
    BY <1>18 DEF HostAnswers, AnswersTo, Answers
  <2>2. UNCHANGED <<toHost, step, buf, goal, allocated, handle, sections, mapped, kept,
                  initPacket, initEvent, inUse, call>>
    BY <1>18 DEF HostAnswers
  <2> DEFINE m == [type |-> "response", of |-> k, id |-> reqs[k].id, answer |-> x]
  <2>3. k \in DOMAIN reqs /\ reqs[k].id \in Nat
    BY RequestShape DEF IndexTypes, FilterTypes, Requests
  <2>4. m \in InMessages /\ m \notin Replies /\ fromHost' = Append(fromHost, m)
    BY <2>1, <2>3 DEF InMessages, RndisMessages, Replies, NvspAnswers
  <2> HIDE DEF m
  <2> QED
    BY <1>g, <2>2, <2>4 DEF NvspQuiet
<1>19. ASSUME HostLinkChanges PROVE NvspQuiet
  <2> DEFINE m == [type |-> "link", up |-> ~ hostLink]
  <2>1. fromHost' = Append(fromHost, m)
    BY <1>19 DEF HostLinkChanges
  <2>2. m \in InMessages /\ m \notin Replies
    BY DEF InMessages, RndisMessages, Replies, NvspAnswers
  <2> HIDE DEF m
  <2> QED
    BY <1>g, <1>19, <2>1, <2>2 DEF NvspQuiet, HostLinkChanges
<1> QED
  BY <1>1, <1>2, <1>3, <1>4, <1>5, <1>6, <1>7, <1>8, <1>9, <1>10, <1>11, <1>12, <1>13,
     <1>14, <1>15, <1>16, <1>17, <1>18, <1>19
  DEF NvspLoud, Next, Inner, InnerFrame, NetVscThread, NetVscFails, ConnectToVsp,
        InitializeBuffer,
      DestroyBuffer, Thread, Callback, Host, Asked, Ioctl

\* Between two questions nothing is asked, answered or noted.
LEMMA Silent ==
  ASSUME AskedOnce, step \notin {"initWait", "offerWait"}
  PROVE  Range(toHost) \cap Asks = {} /\ Range(fromHost) \cap Replies = {} /\ ~ initEvent
<1>1. \A t : ~ Waits(t)
  BY DEF Waits
<1> QED
  BY <1>1 DEF AskedOnce

\* When nothing is asked, answered or noted there is nothing to keep.
LEMMA NothingAsked ==
  ASSUME Range(toHost') \cap Asks = {}, Range(fromHost') \cap Replies = {}, ~ initEvent'
  PROVE  AskedOnce'
<1>1. Asks' = Asks /\ Replies' = Replies
  BY DEF Asks, Replies
<1>2. Once(toHost', Asks) /\ Once(fromHost', Replies)
  BY DEF Once, Range
<1> QED
  BY <1>1, <1>2 DEF AskedOnce

\* What was asked of the host is asked, answered or noted, once.
LEMMA AskedKept ==
  ASSUME NetVscTypeOK, RingTypes, BInv, NvspQuiet \/ NvspLoud
  PROVE  AskedOnce'
<1>t. /\ {allocated, handle, mapped, inUse} \subseteq [Buffers -> BOOLEAN]
      /\ sections \in [Buffers -> 0 .. 2] /\ buf \in Buffers /\ Buffers = {"recv", "send"}
      /\ initEvent \in BOOLEAN
  BY DEF NetVscTypeOK, Buffers
<1>v. AskedOnce /\ SettingUp /\ Goals /\ TakenBack /\ LeftBehind
  BY DEF BInv
<1> USE DEF netvscRest, netvscVars, memory, answers, rings, rndisVars, thread, device, interface,
            host, gone, At, Fails, Sends, InnerFrame
<1>1. ASSUME NvspQuiet PROVE AskedOnce'
  <2>1. /\ Range(toHost') \cap Nvsp = Range(toHost) \cap Nvsp
        /\ \A A \in SUBSET Nvsp : Once(toHost, A) => Once(toHost', A)
    BY <1>1, ElsewhereShape DEF NvspQuiet, RingTypes
  <2>2. /\ Range(fromHost') \cap Replies = Range(fromHost) \cap Replies
        /\ \A A \in SUBSET Replies : Once(fromHost, A) => Once(fromHost', A)
    BY <1>1, ElsewhereShape DEF NvspQuiet, RingTypes
  <2>3. /\ Range(toHost') \cap Asks = Range(toHost) \cap Asks
        /\ Once(toHost, Asks) => Once(toHost', Asks)
    BY <2>1 DEF Nvsp
  <2>4. Once(fromHost, Replies) => Once(fromHost', Replies)
    BY <2>2
  <2>5. UNCHANGED <<step, buf, inUse, initEvent, initPacket>>
    BY <1>1 DEF NvspQuiet
  <2>6. Asks' = Asks /\ Replies' = Replies
    BY DEF Asks, Replies
  <2> QED
    BY <1>v, <2>2, <2>3, <2>4, <2>5, <2>6 DEF AskedOnce, Waits
<1>2. ASSUME OpenChannel, InnerFrame PROVE AskedOnce'
  <2>1. step \notin {"initWait", "offerWait"}
    BY <1>v, <1>2 DEF OpenChannel, Goals
  <2>2. UNCHANGED <<toHost, fromHost, initEvent>>
    BY <1>2 DEF OpenChannel
  <2> QED
    BY <1>v, <2>1, <2>2, Silent, NothingAsked
<1>3. ASSUME SendInit, InnerFrame PROVE AskedOnce'
  <2> DEFINE m == [type |-> "init"]
  <2>1. Range(toHost) \cap Asks = {} /\ Range(fromHost) \cap Replies = {} /\ ~ initEvent
    BY <1>v, <1>3, Silent DEF SendInit
  <2>2. m \in OutMessages /\ m \in Asks /\ m.type = "init"
    BY <1>t DEF OutMessages, InitMessages, BufferMessages, Asks
  <2>3. UNCHANGED <<fromHost, initEvent, buf, inUse>> /\ toHost' = Append(toHost, m)
        /\ step' = "initWait"
    BY <1>3 DEF SendInit
  <2>4. m.type = "offer" => m.b = buf /\ ~ inUse[buf]
    BY <1>v, <1>3 DEF SendInit, SettingUp
  <2> HIDE DEF m
  <2>5. Range(toHost') \cap Asks = {m}
    BY <2>1, <2>2, <2>3, AppendRange DEF RingTypes
  <2>6. Once(toHost', Asks)
    BY <1>v, <2>1, <2>2, <2>3, OnceAppend DEF RingTypes, AskedOnce
  <2>7. Asks' = Asks /\ Replies' = Replies
    BY DEF Asks, Replies
  <2> QED
    BY <1>v, <2>1, <2>2, <2>3, <2>4, <2>5, <2>6, <2>7 DEF AskedOnce, Waits
<1>4. ASSUME InitAnswered, InnerFrame PROVE AskedOnce'
  <2>1. Range(toHost) \cap Asks = {} /\ Range(fromHost) \cap Replies = {}
    BY <1>v, <1>4 DEF InitAnswered, AskedOnce
  <2>2. UNCHANGED <<toHost, fromHost>> /\ ~ initEvent'
    BY <1>4 DEF InitAnswered
  <2> QED
    BY <2>1, <2>2, NothingAsked
<1>5. ASSUME SendNdis, InnerFrame PROVE AskedOnce'
  <2> DEFINE m == [type |-> "ndis"]
  <2>1. step \notin {"initWait", "offerWait"}
    BY <1>5 DEF SendNdis
  <2>2. m \in OutMessages /\ m \notin Asks
    BY <1>t DEF OutMessages, InitMessages, BufferMessages, Asks
  <2>3. UNCHANGED <<fromHost, initEvent>> /\ (toHost' = toHost \/ toHost' = Append(toHost, m))
    BY <1>5 DEF SendNdis
  <2> HIDE DEF m
  <2>4. toHost' = Append(toHost, m) => Range(toHost') = Range(toHost) \cup {m}
    BY <2>2, AppendRange DEF RingTypes
  <2>5. Range(toHost') \cap Asks = Range(toHost) \cap Asks
    BY <2>2, <2>3, <2>4
  <2> QED
    BY <1>v, <2>1, <2>3, <2>5, Silent, NothingAsked
<1>6. ASSUME AllocBuffer, InnerFrame PROVE AskedOnce'
  <2>1. step \notin {"initWait", "offerWait"}
    BY <1>v, <1>6 DEF AllocBuffer, Goals
  <2>2. UNCHANGED <<toHost, fromHost, initEvent>>
    BY <1>6 DEF AllocBuffer
  <2> QED
    BY <1>v, <2>1, <2>2, Silent, NothingAsked
<1>7. ASSUME EstablishGpadl, InnerFrame PROVE AskedOnce'
  <2>1. step \notin {"initWait", "offerWait"}
    BY <1>v, <1>7 DEF EstablishGpadl, Goals
  <2>2. UNCHANGED <<toHost, fromHost, initEvent>>
    BY <1>7 DEF EstablishGpadl
  <2> QED
    BY <1>v, <2>1, <2>2, Silent, NothingAsked
<1>8. ASSUME SendOffer, InnerFrame PROVE AskedOnce'
  <2> DEFINE m == [type |-> "offer", b |-> buf]
  <2>1. Range(toHost) \cap Asks = {} /\ Range(fromHost) \cap Replies = {} /\ ~ initEvent
    BY <1>v, <1>8, Silent DEF SendOffer
  <2>2. m \in OutMessages /\ m \in Asks /\ m.type = "offer"
    BY <1>t DEF OutMessages, InitMessages, BufferMessages, Asks
  <2>3. UNCHANGED <<fromHost, initEvent, buf, inUse>> /\ toHost' = Append(toHost, m)
        /\ step' = "offerWait"
    BY <1>8 DEF SendOffer
  <2>4. m.type = "offer" => m.b = buf /\ ~ inUse[buf]
    BY <1>v, <1>8 DEF SendOffer, SettingUp
  <2> HIDE DEF m
  <2>5. Range(toHost') \cap Asks = {m}
    BY <2>1, <2>2, <2>3, AppendRange DEF RingTypes
  <2>6. Once(toHost', Asks)
    BY <1>v, <2>1, <2>2, <2>3, OnceAppend DEF RingTypes, AskedOnce
  <2>7. Asks' = Asks /\ Replies' = Replies
    BY DEF Asks, Replies
  <2> QED
    BY <1>v, <2>1, <2>2, <2>3, <2>4, <2>5, <2>6, <2>7 DEF AskedOnce, Waits
<1>9. ASSUME OfferAnswered, InnerFrame PROVE AskedOnce'
  <2>1. Range(toHost) \cap Asks = {} /\ Range(fromHost) \cap Replies = {}
    BY <1>v, <1>9 DEF OfferAnswered, AskedOnce
  <2>2. UNCHANGED <<toHost, fromHost>> /\ ~ initEvent'
    BY <1>9 DEF OfferAnswered
  <2> QED
    BY <2>1, <2>2, NothingAsked
<1>10. ASSUME Revoke, InnerFrame PROVE AskedOnce'
  <2> DEFINE m == [type |-> "revoke", b |-> buf]
  <2>1. step \notin {"initWait", "offerWait"}
    BY <1>10 DEF Revoke
  <2>2. m \in OutMessages /\ m \notin Asks
    BY <1>t DEF OutMessages, InitMessages, BufferMessages, Asks
  <2>3. UNCHANGED <<fromHost, initEvent>> /\ (toHost' = toHost \/ toHost' = Append(toHost, m))
    BY <1>10 DEF Revoke
  <2> HIDE DEF m
  <2>4. toHost' = Append(toHost, m) => Range(toHost') = Range(toHost) \cup {m}
    BY <2>2, AppendRange DEF RingTypes
  <2>5. Range(toHost') \cap Asks = Range(toHost) \cap Asks
    BY <2>2, <2>3, <2>4
  <2> QED
    BY <1>v, <2>1, <2>3, <2>5, Silent, NothingAsked
<1>11. ASSUME Teardown, InnerFrame PROVE AskedOnce'
  <2>1. step \notin {"initWait", "offerWait"}
    BY <1>v, <1>11 DEF Teardown, Goals
  <2>2. UNCHANGED <<toHost, fromHost, initEvent>>
    BY <1>11 DEF Teardown
  <2> QED
    BY <1>v, <2>1, <2>2, Silent, NothingAsked
<1>12. ASSUME FreeBuffer, InnerFrame PROVE AskedOnce'
  <2>1. step \notin {"initWait", "offerWait"}
    BY <1>v, <1>12 DEF FreeBuffer, Destroyed, Goals
  <2>2. UNCHANGED <<toHost, fromHost, initEvent>>
    BY <1>12 DEF FreeBuffer
  <2> QED
    BY <1>v, <2>1, <2>2, Silent, NothingAsked
<1>13. ASSUME CloseChannel, InnerFrame PROVE AskedOnce'
  <2>1. ~ initEvent' /\ toHost' = <<>> /\ fromHost' = <<>>
    BY <1>v, <1>13, Silent DEF CloseChannel
  <2>2. Range(<<>>) = {}
    BY DEF Range
  <2> QED
    BY <2>1, <2>2, NothingAsked
<1>14. ASSUME OpenFails, InnerFrame PROVE AskedOnce'
  <2>1. step \notin {"initWait", "offerWait"}
    BY <1>v, <1>14 DEF OpenFails, Goals
  <2>2. UNCHANGED <<toHost, fromHost, initEvent>>
    BY <1>14 DEF OpenFails
  <2> QED
    BY <1>v, <2>1, <2>2, Silent, NothingAsked
<1>15. ASSUME SendInitFails, InnerFrame PROVE AskedOnce'
  <2>1. step \notin {"initWait", "offerWait"}
    BY <1>v, <1>15 DEF SendInitFails, Goals
  <2>2. UNCHANGED <<toHost, fromHost, initEvent>>
    BY <1>15 DEF SendInitFails
  <2> QED
    BY <1>v, <2>1, <2>2, Silent, NothingAsked
<1>16. ASSUME BufferFails, InnerFrame PROVE AskedOnce'
  <2>1. step \notin {"initWait", "offerWait"}
    BY <1>v, <1>16 DEF BufferFails, Goals
  <2>2. UNCHANGED <<toHost, fromHost, initEvent>>
    BY <1>16 DEF BufferFails
  <2> QED
    BY <1>v, <2>1, <2>2, Silent, NothingAsked
<1>17. ASSUME DestroyFails, InnerFrame PROVE AskedOnce'
  <2>1. step \notin {"initWait", "offerWait"}
    BY <1>v, <1>17 DEF DestroyFails, Destroyed, Goals
  <2>2. UNCHANGED <<toHost, fromHost, initEvent>>
    BY <1>17 DEF DestroyFails
  <2> QED
    BY <1>v, <2>1, <2>2, Silent, NothingAsked
<1>18. ASSUME InnerCallback PROVE AskedOnce'
  <2> DEFINE m == Head(fromHost)
  <2>1. fromHost # <<>> /\ fromHost' = Tail(fromHost) /\ UNCHANGED <<step, buf, inUse, toHost>>
        /\ m.type \in NvspAnswers \cup {"other"}
    BY <1>18 DEF InnerCallback, OnSendCompletion
  <2>2. m \in InMessages /\ m \in Range(fromHost) /\ Range(fromHost') \subseteq Range(fromHost)
    BY <2>1, TailShape, TailRange DEF RingTypes
  <2>3. Asks' = Asks /\ Replies' = Replies
    BY DEF Asks, Replies
  <2>4. CASE m.type \in NvspAnswers
    <3>1. m \in Replies
      BY <2>2, <2>4, InKinds DEF Replies, NvspAnswers, Completions
    <3>2. initPacket' = m /\ initEvent'
      BY <1>18, <2>4 DEF InnerCallback, OnSendCompletion
    <3>3. Range(fromHost') \cap Replies = {} /\ Once(fromHost', Replies)
      BY <1>v, <2>1, <3>1, OnceTail DEF RingTypes, AskedOnce
    <3>4. /\ Range(toHost) \cap Asks = {} /\ Once(toHost, Asks)
          /\ Waits(m.type) /\ (m.type = "offerComplete" /\ inUse[buf] => m.n # 0)
      BY <1>v, <2>2, <3>1 DEF AskedOnce
    <3> HIDE DEF m
    <3> QED
      BY <2>1, <2>3, <3>2, <3>3, <3>4 DEF AskedOnce, Waits
  <2>5. CASE m.type = "other"
    <3>1. m \notin Replies
      BY <2>5 DEF Replies, NvspAnswers
    <3>2. UNCHANGED <<initPacket, initEvent>>
      BY <1>18, <2>5 DEF InnerCallback, OnSendCompletion, NvspAnswers
    <3>3. Once(fromHost', Replies)
      BY <1>v, <2>1, OnceTail DEF RingTypes, AskedOnce
    <3> HIDE DEF m
    <3> QED
      BY <1>v, <2>1, <2>2, <2>3, <3>2, <3>3 DEF AskedOnce, Waits
  <2> QED
    BY <2>1, <2>4, <2>5
<1>19. ASSUME InnerHost PROVE AskedOnce'
  <2> DEFINE m == Head(toHost)
  <2>1. /\ toHost # <<>> /\ toHost' = Tail(toHost) /\ m.type # "rndis" /\ HostTakesNvsp
        /\ UNCHANGED <<step, buf, initPacket, initEvent>>
    BY <1>19 DEF InnerHost, HostTakesNvsp
  <2>2. m \in OutMessages /\ m \in Range(toHost) /\ Range(toHost') \subseteq Range(toHost)
    BY <2>1, TailShape, TailRange DEF RingTypes
  <2>3. /\ Asks' = Asks /\ Replies' = Replies /\ toHost \in Seq(OutMessages)
        /\ fromHost \in Seq(InMessages)
    BY DEF Asks, Replies, RingTypes
  <2>4. /\ Once(toHost', Asks) /\ (m \in Asks => Range(toHost') \cap Asks = {})
        /\ Once(fromHost, Replies)
    BY <1>v, <2>1, <2>3, OnceTail DEF AskedOnce
  <2>5. ASSUME m \in Asks, NEW r \in Completions, r \in Replies, fromHost' = Append(fromHost, r),
               Waits(r.type), r.type = "offerComplete" /\ inUse'[buf] => r.n # 0
        PROVE  AskedOnce'
    <3>1. Range(fromHost) \cap Replies = {} /\ ~ initEvent
      BY <1>v, <2>2, <2>5 DEF AskedOnce
    <3>2. r \in InMessages
      BY DEF InMessages
    <3>3. Range(fromHost') \cap Replies = {r} /\ Once(fromHost', Replies)
      BY <2>3, <2>4, <2>5, <3>1, <3>2, AppendRange, OnceAppend
    <3>4. Range(toHost') \cap Asks = {}
      BY <2>4, <2>5
    <3> HIDE DEF m
    <3> QED
      BY <2>1, <2>3, <2>4, <2>5, <3>1, <3>3, <3>4 DEF AskedOnce, Waits
  <2>6. ASSUME m \notin Asks, Range(fromHost') \cap Replies = Range(fromHost) \cap Replies,
               Once(fromHost', Replies), inUse'[buf] => inUse[buf]
        PROVE  AskedOnce'
    <3> HIDE DEF m
    <3> QED
      BY <1>v, <2>1, <2>2, <2>3, <2>4, <2>6 DEF AskedOnce, Waits
  <2>7. CASE /\ m.type = "init" /\ inUse' = inUse
             /\ \E i \in 0 .. 2 : fromHost' = Append(fromHost, [type |-> "initComplete", n |-> i])
    <3>1. PICK i \in 0 .. 2 : fromHost' = Append(fromHost, [type |-> "initComplete", n |-> i])
      BY <2>7
    <3> DEFINE r == [type |-> "initComplete", n |-> i]
    <3>2. r \in Completions /\ r \in Replies /\ r.type = "initComplete"
      BY DEF Completions, Replies, NvspAnswers
    <3>3. m \in Asks
      BY <2>2, <2>7 DEF OutMessages, InitMessages, BufferMessages, Asks
    <3>4. Waits(m.type)
      BY <1>v, <2>2, <3>3 DEF AskedOnce
    <3>5. Waits("initComplete")
      BY <2>7, <3>4 DEF Waits
    <3>6. fromHost' = Append(fromHost, r)
      BY <3>1
    <3> HIDE DEF r, m
    <3> QED
      BY <2>5, <3>2, <3>3, <3>5, <3>6
  <2>8. CASE /\ m.type = "ndis" /\ inUse' = inUse
             /\ fromHost' = Append(fromHost, [type |-> "other", n |-> 0])
    <3> DEFINE r == [type |-> "other", n |-> 0]
    <3>1. r \in InMessages /\ r \notin Replies /\ fromHost' = Append(fromHost, r)
      BY <2>8 DEF InMessages, Completions, Replies, NvspAnswers
    <3>2. m \notin Asks
      BY <2>8 DEF Asks
    <3> HIDE DEF r, m
    <3>3. Range(fromHost') \cap Replies = Range(fromHost) \cap Replies /\ Once(fromHost', Replies)
      BY <2>3, <2>4, <3>1, AppendRange, OnceAppend
    <3> QED
      BY <2>6, <2>8, <3>2, <3>3
  <2>9. CASE /\ m.type = "offer"
             /\ \E i \in 0 .. 2 :
                   /\ fromHost' = Append(fromHost, [type |-> "offerComplete", n |-> i])
                                   /\ inUse' = [inUse EXCEPT ![m.b] = i > 0]
    <3>1. PICK i \in 0 .. 2 : /\ fromHost' = Append(fromHost, [type |-> "offerComplete", n |-> i])
                                /\ inUse' = [inUse EXCEPT ![m.b] = i > 0]
      BY <2>9
    <3> DEFINE r == [type |-> "offerComplete", n |-> i]
    <3>2. r \in Completions /\ r \in Replies /\ r.type = "offerComplete" /\ r.n = i
      BY DEF Completions, Replies, NvspAnswers
    <3>3. m \in Asks
      BY <2>2, <2>9 DEF OutMessages, InitMessages, BufferMessages, Asks
    <3>4. Waits(m.type) /\ m.b = buf
      BY <1>v, <2>2, <2>9, <3>3 DEF AskedOnce
    <3>5. Waits("offerComplete")
      BY <2>9, <3>4 DEF Waits
    <3>6. fromHost' = Append(fromHost, r)
      BY <3>1
    <3>7. inUse'[buf] => i > 0
      BY <1>t, <3>1, <3>4
    <3>8. inUse'[buf] => r.n # 0
      BY <3>2, <3>7
    <3> HIDE DEF r, m
    <3> QED
      BY <2>5, <3>2, <3>3, <3>5, <3>6, <3>8
  <2>10. CASE /\ m.type = "revoke" /\ fromHost' = fromHost
              /\ inUse' = [inUse EXCEPT ![m.b] = FALSE]
    <3>1. m \notin Asks
      BY <2>10 DEF Asks
    <3>2. inUse'[buf] => inUse[buf]
      BY <1>t, <2>10
    <3> HIDE DEF m
    <3> QED
      BY <2>4, <2>6, <2>10, <3>1, <3>2
  <2> HIDE DEF m
  <2>11. \/ /\ m.type = "init" /\ inUse' = inUse
            /\ \E i \in 0 .. 2 : fromHost' = Append(fromHost, [type |-> "initComplete", n |-> i])
         \/ /\ m.type = "ndis" /\ inUse' = inUse
            /\ fromHost' = Append(fromHost, [type |-> "other", n |-> 0])
         \/ /\ m.type = "offer"
            /\ \E i \in 0 .. 2 :
                  /\ fromHost' = Append(fromHost, [type |-> "offerComplete", n |-> i])
                                  /\ inUse' = [inUse EXCEPT ![m.b] = i > 0]
         \/ /\ m.type = "revoke" /\ fromHost' = fromHost
            /\ inUse' = [inUse EXCEPT ![m.b] = FALSE]
    BY <2>1, NvspEffect DEF m
  <2> QED
    BY <2>7, <2>8, <2>9, <2>10, <2>11
<1>20. ASSUME Remove PROVE AskedOnce'
  <2>1. step \notin {"initWait", "offerWait"}
    BY <1>v, <1>20 DEF Remove, Goals
  <2>2. UNCHANGED <<toHost, fromHost, initEvent>>
    BY <1>20 DEF Remove
  <2> QED
    BY <1>v, <2>1, <2>2, Silent, NothingAsked
<1>21. ASSUME SendsCompleted PROVE AskedOnce'
  <2>1. step \notin {"initWait", "offerWait"}
    BY <1>v, <1>21 DEF SendsCompleted, Goals
  <2>2. UNCHANGED <<toHost, fromHost, initEvent>>
    BY <1>21 DEF SendsCompleted
  <2> QED
    BY <1>v, <2>1, <2>2, Silent, NothingAsked
<1> QED
  BY <1>1, <1>2, <1>3, <1>4, <1>5, <1>6, <1>7, <1>8, <1>9, <1>10, <1>11, <1>12, <1>13,
     <1>14, <1>15, <1>16, <1>17, <1>18, <1>19, <1>20, <1>21
  DEF NvspLoud, NetVscThread, NetVscFails, ConnectToVsp, InitializeBuffer, DestroyBuffer

\* What the host does with an NVSP message to the buffers it writes to: it begins
\* with the buffer it is offered, and ends with the one that is revoked.
LEMMA HostUse ==
  ASSUME NetVscTypeOK, RingTypes, AskedOnce, InnerHost
  PROVE  /\ toHost # <<>> /\ toHost' = Tail(toHost)
         /\ \/ inUse' = inUse /\ Head(toHost) \notin Revokes
            \/ /\ step = "offerWait" /\ \E v \in BOOLEAN : inUse' = [inUse EXCEPT ![buf] = v]
               /\ Head(toHost) \notin Revokes
            \/ \E b \in Buffers : /\ inUse' = [inUse EXCEPT ![b] = FALSE]
                                  /\ Head(toHost) = [type |-> "revoke", b |-> b]
<1> DEFINE m == Head(toHost)
<1>1. toHost # <<>> /\ toHost' = Tail(toHost) /\ HostTakesNvsp
  BY DEF InnerHost, HostTakesNvsp
<1>2. m \in OutMessages /\ m \in Range(toHost)
  BY <1>1, TailShape, TailRange DEF RingTypes
<1>3. \/ m.type \in {"init", "ndis"} /\ inUse' = inUse
      \/ m.type = "offer" /\ \E v \in BOOLEAN : inUse' = [inUse EXCEPT ![m.b] = v]
      \/ m.type = "revoke" /\ inUse' = [inUse EXCEPT ![m.b] = FALSE]
  BY <1>1, NvspEffect
<1>4. CASE m.type \in {"init", "ndis"} /\ inUse' = inUse
  BY <1>1, <1>4 DEF Revokes
<1>5. CASE m.type = "offer" /\ \E v \in BOOLEAN : inUse' = [inUse EXCEPT ![m.b] = v]
  <2>1. m \in Asks
    BY <1>2, <1>5 DEF OutMessages, InitMessages, BufferMessages, Asks
  <2>2. Waits(m.type) /\ m.b = buf
    BY <1>2, <1>5, <2>1 DEF AskedOnce
  <2>3. step = "offerWait"
    BY <1>5, <2>2 DEF Waits
  <2>4. m \notin Revokes
    BY <1>5 DEF Revokes
  <2> QED
    BY <1>1, <1>5, <2>2, <2>3, <2>4
<1>6. CASE m.type = "revoke" /\ inUse' = [inUse EXCEPT ![m.b] = FALSE]
  <2>1. m \in [type : {"revoke"}, b : Buffers]
    BY <1>2, <1>6 DEF OutMessages, InitMessages, BufferMessages
  <2>2. m.b \in Buffers /\ m = [type |-> "revoke", b |-> m.b]
    BY <2>1
  <2> QED
    BY <1>1, <1>6, <2>2
<1> QED
  BY <1>3, <1>4, <1>5, <1>6

\* The set-up goes from one buffer to the next.
LEMMA SettingUpKept ==
  ASSUME NetVscTypeOK, RingTypes, BInv, NvspQuiet \/ NvspLoud
  PROVE  SettingUp'
<1>t. /\ {allocated, handle, mapped, inUse} \subseteq [Buffers -> BOOLEAN]
      /\ sections \in [Buffers -> 0 .. 2] /\ buf \in Buffers /\ Buffers = {"recv", "send"}
      /\ initEvent \in BOOLEAN
  BY DEF NetVscTypeOK, Buffers
<1>v. AskedOnce /\ SettingUp /\ Goals /\ TakenBack /\ LeftBehind
  BY DEF BInv
<1> USE DEF netvscRest, netvscVars, memory, answers, rings, rndisVars, thread, device, interface,
            host, gone, At, Fails, Sends, InnerFrame
<1>1. ASSUME NvspQuiet PROVE SettingUp'
  <2>1. UNCHANGED <<step, buf, goal, allocated, handle, sections, mapped, kept, initPacket,
                    initEvent, inUse>>
        /\ (call' \notin {"none", "removed"} => step = "up")
    BY <1>1 DEF NvspQuiet
  <2> QED
    BY <1>v, <2>1 DEF SettingUp, Untouched
<1>2. ASSUME OpenChannel, InnerFrame PROVE SettingUp'
  BY <1>t, <1>v, <1>2 DEF OpenChannel, SettingUp, Untouched
<1>3. ASSUME SendInit, InnerFrame PROVE SettingUp'
  BY <1>t, <1>v, <1>3 DEF SendInit, SettingUp, Untouched
<1>4. ASSUME InitAnswered, InnerFrame PROVE SettingUp'
  BY <1>t, <1>v, <1>4 DEF InitAnswered, SettingUp, Untouched
<1>5. ASSUME SendNdis, InnerFrame PROVE SettingUp'
  BY <1>t, <1>v, <1>5 DEF SendNdis, SettingUp, Untouched
<1>6. ASSUME AllocBuffer, InnerFrame PROVE SettingUp'
  BY <1>t, <1>v, <1>6 DEF AllocBuffer, SettingUp, Untouched
<1>7. ASSUME EstablishGpadl, InnerFrame PROVE SettingUp'
  BY <1>t, <1>v, <1>7 DEF EstablishGpadl, SettingUp, Untouched
<1>8. ASSUME SendOffer, InnerFrame PROVE SettingUp'
  BY <1>t, <1>v, <1>8 DEF SendOffer, SettingUp, Untouched
<1>9. ASSUME OfferAnswered, InnerFrame PROVE SettingUp'
  BY <1>t, <1>v, <1>9 DEF OfferAnswered, Accepted, SettingUp, Untouched
<1>10. ASSUME Revoke, InnerFrame PROVE SettingUp'
  BY <1>t, <1>v, <1>10 DEF Revoke, SettingUp, Untouched
<1>11. ASSUME Teardown, InnerFrame PROVE SettingUp'
  BY <1>t, <1>v, <1>11 DEF Teardown, SettingUp, Untouched
<1>12. ASSUME FreeBuffer, InnerFrame PROVE SettingUp'
  BY <1>t, <1>v, <1>12 DEF FreeBuffer, Destroyed, SettingUp, Untouched
<1>13. ASSUME CloseChannel, InnerFrame PROVE SettingUp'
  BY <1>t, <1>v, <1>13 DEF CloseChannel, SettingUp, Untouched
<1>14. ASSUME OpenFails, InnerFrame PROVE SettingUp'
  BY <1>t, <1>v, <1>14 DEF OpenFails, SettingUp, Untouched
<1>15. ASSUME SendInitFails, InnerFrame PROVE SettingUp'
  BY <1>t, <1>v, <1>15 DEF SendInitFails, SettingUp, Untouched
<1>16. ASSUME BufferFails, InnerFrame PROVE SettingUp'
  BY <1>t, <1>v, <1>16 DEF BufferFails, SettingUp, Untouched
<1>17. ASSUME DestroyFails, InnerFrame PROVE SettingUp'
  BY <1>t, <1>v, <1>17 DEF DestroyFails, Destroyed, SettingUp, Untouched
<1>18. ASSUME InnerCallback PROVE SettingUp'
  BY <1>t, <1>v, <1>18 DEF InnerCallback, OnSendCompletion, SettingUp, Untouched
<1>19. ASSUME InnerHost PROVE SettingUp'
  <2>1. \/ inUse' = inUse
        \/ step = "offerWait" /\ \E v \in BOOLEAN : inUse' = [inUse EXCEPT ![buf] = v]
        \/ \E b \in Buffers : inUse' = [inUse EXCEPT ![b] = FALSE]
    BY <1>v, <1>19, HostUse
  <2>2. UNCHANGED <<step, buf, goal, memory, thread>>
    BY <1>19 DEF InnerHost, HostTakesNvsp
  <2> QED
    BY <1>t, <1>v, <2>1, <2>2 DEF SettingUp, Untouched
<1>20. ASSUME Remove PROVE SettingUp'
  BY <1>t, <1>v, <1>20 DEF Remove, SettingUp, Untouched
<1>21. ASSUME SendsCompleted PROVE SettingUp'
  BY <1>t, <1>v, <1>21 DEF SendsCompleted, SettingUp, Untouched
<1> QED
  BY <1>1, <1>2, <1>3, <1>4, <1>5, <1>6, <1>7, <1>8, <1>9, <1>10, <1>11, <1>12, <1>13,
     <1>14, <1>15, <1>16, <1>17, <1>18, <1>19, <1>20, <1>21
  DEF NvspLoud, NetVscThread, NetVscFails, ConnectToVsp, InitializeBuffer, DestroyBuffer

\* The thread knows what it is at.
LEMMA GoalsKept ==
  ASSUME NetVscTypeOK, RingTypes, BInv, NvspQuiet \/ NvspLoud
  PROVE  Goals'
<1>t. /\ {allocated, handle, mapped, inUse} \subseteq [Buffers -> BOOLEAN]
      /\ sections \in [Buffers -> 0 .. 2] /\ buf \in Buffers /\ Buffers = {"recv", "send"}
      /\ initEvent \in BOOLEAN
  BY DEF NetVscTypeOK, Buffers
<1>v. AskedOnce /\ SettingUp /\ Goals /\ TakenBack /\ LeftBehind
  BY DEF BInv
<1> USE DEF netvscRest, netvscVars, memory, answers, rings, rndisVars, thread, device, interface,
            host, gone, At, Fails, Sends, InnerFrame
<1>1. ASSUME NvspQuiet PROVE Goals'
  <2>1. UNCHANGED <<step, buf, goal, allocated, handle, sections, mapped, kept, initPacket,
                    initEvent, inUse>>
        /\ (call' \notin {"none", "removed"} => step = "up")
    BY <1>1 DEF NvspQuiet
  <2> QED
    BY <1>v, <2>1 DEF Goals
<1>2. ASSUME OpenChannel, InnerFrame PROVE Goals'
  BY <1>t, <1>v, <1>2 DEF OpenChannel, Goals
<1>3. ASSUME SendInit, InnerFrame PROVE Goals'
  BY <1>t, <1>v, <1>3 DEF SendInit, Goals
<1>4. ASSUME InitAnswered, InnerFrame PROVE Goals'
  BY <1>t, <1>v, <1>4 DEF InitAnswered, Goals
<1>5. ASSUME SendNdis, InnerFrame PROVE Goals'
  BY <1>t, <1>v, <1>5 DEF SendNdis, Goals
<1>6. ASSUME AllocBuffer, InnerFrame PROVE Goals'
  BY <1>t, <1>v, <1>6 DEF AllocBuffer, Goals
<1>7. ASSUME EstablishGpadl, InnerFrame PROVE Goals'
  BY <1>t, <1>v, <1>7 DEF EstablishGpadl, Goals
<1>8. ASSUME SendOffer, InnerFrame PROVE Goals'
  BY <1>t, <1>v, <1>8 DEF SendOffer, Goals
<1>9. ASSUME OfferAnswered, InnerFrame PROVE Goals'
  BY <1>t, <1>v, <1>9 DEF OfferAnswered, Accepted, Goals
<1>10. ASSUME Revoke, InnerFrame PROVE Goals'
  BY <1>t, <1>v, <1>10 DEF Revoke, Goals
<1>11. ASSUME Teardown, InnerFrame PROVE Goals'
  BY <1>t, <1>v, <1>11 DEF Teardown, Goals
<1>12. ASSUME FreeBuffer, InnerFrame PROVE Goals'
  BY <1>t, <1>v, <1>12 DEF FreeBuffer, Destroyed, Goals
<1>13. ASSUME CloseChannel, InnerFrame PROVE Goals'
  BY <1>t, <1>v, <1>13 DEF CloseChannel, Goals
<1>14. ASSUME OpenFails, InnerFrame PROVE Goals'
  BY <1>t, <1>v, <1>14 DEF OpenFails, Goals
<1>15. ASSUME SendInitFails, InnerFrame PROVE Goals'
  BY <1>t, <1>v, <1>15 DEF SendInitFails, Goals
<1>16. ASSUME BufferFails, InnerFrame PROVE Goals'
  BY <1>t, <1>v, <1>16 DEF BufferFails, Goals
<1>17. ASSUME DestroyFails, InnerFrame PROVE Goals'
  BY <1>t, <1>v, <1>17 DEF DestroyFails, Destroyed, Goals
<1>18. ASSUME InnerCallback PROVE Goals'
  BY <1>t, <1>v, <1>18 DEF InnerCallback, OnSendCompletion, Goals
<1>19. ASSUME InnerHost PROVE Goals'
  <2>1. \/ inUse' = inUse
        \/ step = "offerWait" /\ \E v \in BOOLEAN : inUse' = [inUse EXCEPT ![buf] = v]
        \/ \E b \in Buffers : inUse' = [inUse EXCEPT ![b] = FALSE]
    BY <1>v, <1>19, HostUse
  <2>2. UNCHANGED <<step, buf, goal, memory, thread>>
    BY <1>19 DEF InnerHost, HostTakesNvsp
  <2> QED
    BY <1>t, <1>v, <2>1, <2>2 DEF Goals
<1>20. ASSUME Remove PROVE Goals'
  BY <1>t, <1>v, <1>20 DEF Remove, Goals
<1>21. ASSUME SendsCompleted PROVE Goals'
  BY <1>t, <1>v, <1>21 DEF SendsCompleted, Goals
<1> QED
  BY <1>1, <1>2, <1>3, <1>4, <1>5, <1>6, <1>7, <1>8, <1>9, <1>10, <1>11, <1>12, <1>13,
     <1>14, <1>15, <1>16, <1>17, <1>18, <1>19, <1>20, <1>21
  DEF NvspLoud, NetVscThread, NetVscFails, ConnectToVsp, InitializeBuffer, DestroyBuffer

\* What a clean-up leaves behind is known.
LEMMA LeftBehindKept ==
  ASSUME NetVscTypeOK, RingTypes, BInv, NvspQuiet \/ NvspLoud
  PROVE  LeftBehind'
<1>t. /\ {allocated, handle, mapped, inUse} \subseteq [Buffers -> BOOLEAN]
      /\ sections \in [Buffers -> 0 .. 2] /\ buf \in Buffers /\ Buffers = {"recv", "send"}
      /\ initEvent \in BOOLEAN
  BY DEF NetVscTypeOK, Buffers
<1>v. AskedOnce /\ SettingUp /\ Goals /\ TakenBack /\ LeftBehind
  BY DEF BInv
<1> USE DEF netvscRest, netvscVars, memory, answers, rings, rndisVars, thread, device, interface,
            host, gone, At, Fails, Sends, InnerFrame
<1>1. ASSUME NvspQuiet PROVE LeftBehind'
  <2>1. UNCHANGED <<step, buf, goal, allocated, handle, sections, mapped, kept, initPacket,
                    initEvent, inUse>>
        /\ (call' \notin {"none", "removed"} => step = "up")
    BY <1>1 DEF NvspQuiet
  <2> QED
    BY <1>v, <2>1 DEF LeftBehind, Known, SettingUp, Untouched, Goals
<1>2. ASSUME OpenChannel, InnerFrame PROVE LeftBehind'
  BY <1>t, <1>v, <1>2 DEF OpenChannel, LeftBehind, Known, SettingUp, Untouched, Goals
<1>3. ASSUME SendInit, InnerFrame PROVE LeftBehind'
  BY <1>t, <1>v, <1>3 DEF SendInit, LeftBehind, Known, SettingUp, Untouched, Goals
<1>4. ASSUME InitAnswered, InnerFrame PROVE LeftBehind'
  BY <1>t, <1>v, <1>4 DEF InitAnswered, LeftBehind, Known, SettingUp, Untouched, Goals
<1>5. ASSUME SendNdis, InnerFrame PROVE LeftBehind'
  BY <1>t, <1>v, <1>5 DEF SendNdis, LeftBehind, Known, SettingUp, Untouched, Goals
<1>6. ASSUME AllocBuffer, InnerFrame PROVE LeftBehind'
  BY <1>t, <1>v, <1>6 DEF AllocBuffer, LeftBehind, Known, SettingUp, Untouched, Goals
<1>7. ASSUME EstablishGpadl, InnerFrame PROVE LeftBehind'
  BY <1>t, <1>v, <1>7 DEF EstablishGpadl, LeftBehind, Known, SettingUp, Untouched, Goals
<1>8. ASSUME SendOffer, InnerFrame PROVE LeftBehind'
  BY <1>t, <1>v, <1>8 DEF SendOffer, LeftBehind, Known, SettingUp, Untouched, Goals
<1>9. ASSUME OfferAnswered, InnerFrame PROVE LeftBehind'
  BY <1>t, <1>v, <1>9 DEF OfferAnswered, Accepted, LeftBehind, Known, SettingUp, Untouched, Goals
<1>10. ASSUME Revoke, InnerFrame PROVE LeftBehind'
  BY <1>t, <1>v, <1>10 DEF Revoke, LeftBehind, Known, SettingUp, Untouched, Goals
<1>11. ASSUME Teardown, InnerFrame PROVE LeftBehind'
  BY <1>t, <1>v, <1>11 DEF Teardown, LeftBehind, Known, SettingUp, Untouched, Goals
<1>12. ASSUME FreeBuffer, InnerFrame PROVE LeftBehind'
  <2>1. step \in {"revoke", "teardown", "free"} /\ goal' = goal /\ goal \in {"fail", "remove"}
    BY <1>v, <1>12 DEF FreeBuffer, Goals, NetVscTypeOK
  <2>2. (~ allocated'[buf] \/ buf \in kept')
        /\ \A b \in Buffers : Known(b) => (allocated'[b] => b \in kept')
    BY <1>t, <1>12 DEF FreeBuffer, Known
  <2>3. CASE goal = "remove" /\ buf = "recv"
    BY <1>12, <2>1, <2>2, <2>3 DEF FreeBuffer, Destroyed, LeftBehind, Known
  <2>4. CASE goal = "remove" /\ buf = "send"
    <3>1. Known("recv") /\ step' = "close"
      BY <1>v, <1>12, <2>1, <2>4 DEF FreeBuffer, Destroyed, LeftBehind
    <3>2. \A b \in Buffers : allocated'[b] => b \in kept'
      BY <1>t, <2>2, <2>4, <3>1
    <3> QED
      BY <3>1, <3>2 DEF LeftBehind, Known
  <2>5. CASE goal = "fail" /\ buf = "recv"
    <3>1. ~ allocated["send"] /\ step' = "close"
      BY <1>v, <1>12, <2>1, <2>5 DEF FreeBuffer, Destroyed, LeftBehind
    <3>2. \A b \in Buffers : allocated'[b] => b \in kept'
      BY <1>t, <2>2, <2>5, <3>1 DEF Known
    <3> QED
      BY <3>1, <3>2 DEF LeftBehind, Known
  <2>6. CASE goal = "fail" /\ buf = "send"
    <3>1. step' = "close" /\ buf' = "send" /\ goal' = "fail"
      BY <1>12, <2>6 DEF FreeBuffer, Destroyed
    <3> QED
      BY <1>t, <2>2, <2>6, <3>1 DEF LeftBehind, Known
  <2> QED
    BY <1>t, <2>1, <2>3, <2>4, <2>5, <2>6
<1>13. ASSUME CloseChannel, InnerFrame PROVE LeftBehind'
  BY <1>t, <1>v, <1>13 DEF CloseChannel, LeftBehind, Known, SettingUp, Untouched, Goals
<1>14. ASSUME OpenFails, InnerFrame PROVE LeftBehind'
  BY <1>t, <1>v, <1>14 DEF OpenFails, LeftBehind, Known, SettingUp, Untouched, Goals
<1>15. ASSUME SendInitFails, InnerFrame PROVE LeftBehind'
  BY <1>t, <1>v, <1>15 DEF SendInitFails, LeftBehind, Known, SettingUp, Untouched, Goals
<1>16. ASSUME BufferFails, InnerFrame PROVE LeftBehind'
  BY <1>t, <1>v, <1>16 DEF BufferFails, LeftBehind, Known, SettingUp, Untouched, Goals
<1>17. ASSUME DestroyFails, InnerFrame PROVE LeftBehind'
  <2>1. step \in {"revoke", "teardown", "free"} /\ goal' = goal /\ goal \in {"fail", "remove"}
    BY <1>v, <1>17 DEF DestroyFails, Goals, NetVscTypeOK
  <2>2. (~ allocated'[buf] \/ buf \in kept')
        /\ \A b \in Buffers : Known(b) => (allocated'[b] => b \in kept')
    BY <1>t, <1>17 DEF DestroyFails, Known
  <2>3. CASE goal = "remove" /\ buf = "recv"
    BY <1>17, <2>1, <2>2, <2>3 DEF DestroyFails, Destroyed, LeftBehind, Known
  <2>4. CASE goal = "remove" /\ buf = "send"
    <3>1. Known("recv") /\ step' = "close"
      BY <1>v, <1>17, <2>1, <2>4 DEF DestroyFails, Destroyed, LeftBehind
    <3>2. \A b \in Buffers : allocated'[b] => b \in kept'
      BY <1>t, <2>2, <2>4, <3>1
    <3> QED
      BY <3>1, <3>2 DEF LeftBehind, Known
  <2>5. CASE goal = "fail" /\ buf = "recv"
    <3>1. ~ allocated["send"] /\ step' = "close"
      BY <1>v, <1>17, <2>1, <2>5 DEF DestroyFails, Destroyed, LeftBehind
    <3>2. \A b \in Buffers : allocated'[b] => b \in kept'
      BY <1>t, <2>2, <2>5, <3>1 DEF Known
    <3> QED
      BY <3>1, <3>2 DEF LeftBehind, Known
  <2>6. CASE goal = "fail" /\ buf = "send"
    <3>1. step' = "close" /\ buf' = "send" /\ goal' = "fail"
      BY <1>17, <2>6 DEF DestroyFails, Destroyed
    <3> QED
      BY <1>t, <2>2, <2>6, <3>1 DEF LeftBehind, Known
  <2> QED
    BY <1>t, <2>1, <2>3, <2>4, <2>5, <2>6
<1>18. ASSUME InnerCallback PROVE LeftBehind'
  BY <1>t, <1>v, <1>18 DEF InnerCallback, OnSendCompletion, LeftBehind, Known, SettingUp,
     Untouched, Goals
<1>19. ASSUME InnerHost PROVE LeftBehind'
  <2>1. \/ inUse' = inUse
        \/ step = "offerWait" /\ \E v \in BOOLEAN : inUse' = [inUse EXCEPT ![buf] = v]
        \/ \E b \in Buffers : inUse' = [inUse EXCEPT ![b] = FALSE]
    BY <1>v, <1>19, HostUse
  <2>2. UNCHANGED <<step, buf, goal, memory, thread>>
    BY <1>19 DEF InnerHost, HostTakesNvsp
  <2> QED
    BY <1>t, <1>v, <2>1, <2>2 DEF LeftBehind, Known, SettingUp, Untouched, Goals
<1>20. ASSUME Remove PROVE LeftBehind'
  BY <1>t, <1>v, <1>20 DEF Remove, LeftBehind, Known, SettingUp, Untouched, Goals
<1>21. ASSUME SendsCompleted PROVE LeftBehind'
  BY <1>t, <1>v, <1>21 DEF SendsCompleted, LeftBehind, Known, SettingUp, Untouched, Goals
<1> QED
  BY <1>1, <1>2, <1>3, <1>4, <1>5, <1>6, <1>7, <1>8, <1>9, <1>10, <1>11, <1>12, <1>13,
     <1>14, <1>15, <1>16, <1>17, <1>18, <1>19, <1>20, <1>21
  DEF NvspLoud, NetVscThread, NetVscFails, ConnectToVsp, InitializeBuffer, DestroyBuffer

\* No buffer is shared anew, and no revoke of one that is forgotten.
Stays(b) ==
  inUse'[b] => /\ inUse[b]
               /\ [type |-> "revoke", b |-> b] \in Range(toHost)
                    => [type |-> "revoke", b |-> b] \in Range(toHost')

\* A buffer is taken back from the host before its pages are.
LEMMA TakenBackKept ==
  ASSUME NetVscTypeOK, RingTypes, BInv, NvspQuiet \/ NvspLoud
  PROVE  TakenBack'
<1>t. /\ {allocated, handle, mapped, inUse} \subseteq [Buffers -> BOOLEAN]
      /\ sections \in [Buffers -> 0 .. 2] /\ buf \in Buffers /\ Buffers = {"recv", "send"}
      /\ initEvent \in BOOLEAN
  BY DEF NetVscTypeOK, Buffers
<1>v. AskedOnce /\ SettingUp /\ Goals /\ TakenBack /\ LeftBehind
  BY DEF BInv
<1> USE DEF netvscRest, netvscVars, memory, answers, rings, rndisVars, thread, device, interface,
            host, gone, At, Fails, Sends, InnerFrame
<1>1. ASSUME NvspQuiet PROVE TakenBack'
  <2>1. UNCHANGED <<step, buf, goal, allocated, handle, sections, mapped, kept, initPacket,
                    initEvent, inUse>>
        /\ Range(toHost') \cap Nvsp = Range(toHost) \cap Nvsp
    BY <1>1, ElsewhereShape DEF NvspQuiet, RingTypes
  <2>2. \A b \in Buffers : [type |-> "revoke", b |-> b] \in Nvsp
    BY DEF Nvsp, Revokes
  <2>3. \A b \in Buffers : Stays(b)
    BY <2>1, <2>2 DEF Stays
  <2> QED
    BY <1>t, <1>v, <2>1, <2>3 DEF TakenBack, Revoked, Stays
<1>2. ASSUME OpenChannel, InnerFrame PROVE TakenBack'
  <2>1. toHost' = toHost /\ inUse' = inUse
    BY <1>2 DEF OpenChannel
  <2>2. \A b \in Buffers : Stays(b)
    BY <2>1 DEF Stays
  <2> QED
    BY <1>t, <1>v, <1>2, <2>2 DEF OpenChannel, TakenBack, SettingUp, Revoked, Stays
<1>3. ASSUME SendInit, InnerFrame PROVE TakenBack'
  <2> DEFINE m == [type |-> "init"]
  <2>1. m \in OutMessages
    BY <1>t DEF OutMessages, InitMessages, BufferMessages
  <2>2. inUse' = inUse /\ (toHost' = toHost \/ toHost' = Append(toHost, m))
    BY <1>3 DEF SendInit
  <2>3. toHost' = Append(toHost, m) => Range(toHost') = Range(toHost) \cup {m}
    BY <2>1, AppendRange DEF RingTypes
  <2>4. \A b \in Buffers : Stays(b)
    BY <2>2, <2>3 DEF Stays
  <2> QED
    BY <1>t, <1>v, <1>3, <2>4 DEF SendInit, TakenBack, SettingUp, Revoked, Stays
<1>4. ASSUME InitAnswered, InnerFrame PROVE TakenBack'
  <2>1. toHost' = toHost /\ inUse' = inUse
    BY <1>4 DEF InitAnswered
  <2>2. \A b \in Buffers : Stays(b)
    BY <2>1 DEF Stays
  <2> QED
    BY <1>t, <1>v, <1>4, <2>2 DEF InitAnswered, TakenBack, SettingUp, Revoked, Stays
<1>5. ASSUME SendNdis, InnerFrame PROVE TakenBack'
  <2> DEFINE m == [type |-> "ndis"]
  <2>1. m \in OutMessages
    BY <1>t DEF OutMessages, InitMessages, BufferMessages
  <2>2. inUse' = inUse /\ (toHost' = toHost \/ toHost' = Append(toHost, m))
    BY <1>5 DEF SendNdis
  <2>3. toHost' = Append(toHost, m) => Range(toHost') = Range(toHost) \cup {m}
    BY <2>1, AppendRange DEF RingTypes
  <2>4. \A b \in Buffers : Stays(b)
    BY <2>2, <2>3 DEF Stays
  <2> QED
    BY <1>t, <1>v, <1>5, <2>4 DEF SendNdis, TakenBack, SettingUp, Revoked, Stays
<1>6. ASSUME AllocBuffer, InnerFrame PROVE TakenBack'
  <2>1. toHost' = toHost /\ inUse' = inUse
    BY <1>6 DEF AllocBuffer
  <2>2. \A b \in Buffers : Stays(b)
    BY <2>1 DEF Stays
  <2> QED
    BY <1>t, <1>v, <1>6, <2>2 DEF AllocBuffer, TakenBack, SettingUp, Revoked, Stays
<1>7. ASSUME EstablishGpadl, InnerFrame PROVE TakenBack'
  <2>1. toHost' = toHost /\ inUse' = inUse
    BY <1>7 DEF EstablishGpadl
  <2>2. \A b \in Buffers : Stays(b)
    BY <2>1 DEF Stays
  <2> QED
    BY <1>t, <1>v, <1>7, <2>2 DEF EstablishGpadl, TakenBack, SettingUp, Revoked, Stays
<1>8. ASSUME SendOffer, InnerFrame PROVE TakenBack'
  <2> DEFINE m == [type |-> "offer", b |-> buf]
  <2>1. m \in OutMessages
    BY <1>t DEF OutMessages, InitMessages, BufferMessages
  <2>2. inUse' = inUse /\ (toHost' = toHost \/ toHost' = Append(toHost, m))
    BY <1>8 DEF SendOffer
  <2>3. toHost' = Append(toHost, m) => Range(toHost') = Range(toHost) \cup {m}
    BY <2>1, AppendRange DEF RingTypes
  <2>4. \A b \in Buffers : Stays(b)
    BY <2>2, <2>3 DEF Stays
  <2> QED
    BY <1>t, <1>v, <1>8, <2>4 DEF SendOffer, TakenBack, SettingUp, Revoked, Stays
<1>9. ASSUME OfferAnswered, InnerFrame PROVE TakenBack'
  <2>1. toHost' = toHost /\ inUse' = inUse
    BY <1>9 DEF OfferAnswered
  <2>2. \A b \in Buffers : Stays(b)
    BY <2>1 DEF Stays
  <2>3. initPacket.type = "offerComplete"
    BY <1>v, <1>9 DEF OfferAnswered, AskedOnce, Waits, NetVscTypeOK, Completions, NvspAnswers
  <2>4. inUse[buf] => initPacket.n # 0
    BY <1>v, <1>9, <2>3 DEF OfferAnswered, AskedOnce
  <2>5. \A b \in Buffers : b = buf => ~ inUse'[b] \/ sections'[b] # 0
    BY <1>t, <1>9, <2>1, <2>4 DEF OfferAnswered
  <2> QED
    BY <1>t, <1>v, <1>9, <2>2, <2>5 DEF OfferAnswered, TakenBack, SettingUp, Revoked, Stays
<1>10. ASSUME Revoke, InnerFrame PROVE TakenBack'
  <2> DEFINE m == [type |-> "revoke", b |-> buf]
  <2>1. m \in OutMessages
    BY <1>t DEF OutMessages, InitMessages, BufferMessages
  <2>2. inUse' = inUse /\ (toHost' = toHost \/ toHost' = Append(toHost, m))
    BY <1>10 DEF Revoke
  <2>3. toHost' = Append(toHost, m) => Range(toHost') = Range(toHost) \cup {m}
    BY <2>1, AppendRange DEF RingTypes
  <2>4. \A b \in Buffers : Stays(b)
    BY <2>2, <2>3 DEF Stays
  <2>5. sections[buf] # 0 => Revoked(buf)'
    BY <1>10, <2>2, <2>3 DEF Revoke, Revoked
  <2>6. Revoked(buf)'
    BY <1>t, <1>v, <1>10, <2>4, <2>5 DEF Revoke, TakenBack, Revoked, Stays
  <2> QED
    BY <1>t, <1>v, <1>10, <2>4, <2>6 DEF Revoke, TakenBack, SettingUp, Revoked, Stays
<1>11. ASSUME Teardown, InnerFrame PROVE TakenBack'
  <2>1. toHost' = toHost /\ inUse' = inUse
    BY <1>11 DEF Teardown
  <2>2. \A b \in Buffers : Stays(b)
    BY <2>1 DEF Stays
  <2> QED
    BY <1>t, <1>v, <1>11, <2>2 DEF Teardown, TakenBack, SettingUp, Revoked, Stays
<1>12. ASSUME FreeBuffer, InnerFrame PROVE TakenBack'
  <2>1. toHost' = toHost /\ inUse' = inUse
    BY <1>12 DEF FreeBuffer, Destroyed
  <2>2. \A b \in Buffers : Stays(b)
    BY <2>1 DEF Stays
  <2> QED
    BY <1>t, <1>v, <1>12, <2>2 DEF FreeBuffer, Destroyed, TakenBack, SettingUp, Revoked, Stays
<1>13. ASSUME CloseChannel, InnerFrame PROVE TakenBack'
  <2>1. \A b \in Buffers : Revoked(b)'
    BY <1>13 DEF CloseChannel, Revoked
  <2> QED
    BY <1>t, <1>v, <1>13, <2>1 DEF CloseChannel, TakenBack
<1>14. ASSUME OpenFails, InnerFrame PROVE TakenBack'
  <2>1. toHost' = toHost /\ inUse' = inUse
    BY <1>14 DEF OpenFails
  <2>2. \A b \in Buffers : Stays(b)
    BY <2>1 DEF Stays
  <2> QED
    BY <1>t, <1>v, <1>14, <2>2 DEF OpenFails, TakenBack, SettingUp, Revoked, Stays
<1>15. ASSUME SendInitFails, InnerFrame PROVE TakenBack'
  <2>1. toHost' = toHost /\ inUse' = inUse
    BY <1>15 DEF SendInitFails
  <2>2. \A b \in Buffers : Stays(b)
    BY <2>1 DEF Stays
  <2> QED
    BY <1>t, <1>v, <1>15, <2>2 DEF SendInitFails, TakenBack, SettingUp, Revoked, Stays
<1>16. ASSUME BufferFails, InnerFrame PROVE TakenBack'
  <2>1. toHost' = toHost /\ inUse' = inUse
    BY <1>16 DEF BufferFails
  <2>2. \A b \in Buffers : Stays(b)
    BY <2>1 DEF Stays
  <2> QED
    BY <1>t, <1>v, <1>16, <2>2 DEF BufferFails, TakenBack, SettingUp, Revoked, Stays
<1>17. ASSUME DestroyFails, InnerFrame PROVE TakenBack'
  <2>1. toHost' = toHost /\ inUse' = inUse
    BY <1>17 DEF DestroyFails, Destroyed
  <2>2. \A b \in Buffers : Stays(b)
    BY <2>1 DEF Stays
  <2> QED
    BY <1>t, <1>v, <1>17, <2>2 DEF DestroyFails, Destroyed, TakenBack, SettingUp, Revoked, Stays
<1>18. ASSUME InnerCallback PROVE TakenBack'
  <2>1. toHost' = toHost /\ inUse' = inUse
    BY <1>18 DEF InnerCallback, OnSendCompletion
  <2>2. \A b \in Buffers : Stays(b)
    BY <2>1 DEF Stays
  <2> QED
    BY <1>t, <1>v, <1>18, <2>2 DEF InnerCallback, OnSendCompletion, TakenBack, SettingUp,
       Revoked, Stays
<1>19. ASSUME InnerHost PROVE TakenBack'
  <2>1. /\ toHost # <<>> /\ toHost' = Tail(toHost)
        /\ \/ inUse' = inUse /\ Head(toHost) \notin Revokes
           \/ /\ step = "offerWait" /\ \E v \in BOOLEAN : inUse' = [inUse EXCEPT ![buf] = v]
              /\ Head(toHost) \notin Revokes
           \/ \E b \in Buffers : /\ inUse' = [inUse EXCEPT ![b] = FALSE]
                                 /\ Head(toHost) = [type |-> "revoke", b |-> b]
    BY <1>v, <1>19, HostUse
  <2>2. UNCHANGED <<step, buf, goal, memory, thread>>
    BY <1>19 DEF InnerHost, HostTakesNvsp
  <2>3. Range(toHost) = Range(toHost') \cup {Head(toHost)}
    BY <2>1, TailRange DEF RingTypes
  <2>4. \A b \in Buffers : [type |-> "revoke", b |-> b] \in Revokes
    BY DEF Revokes
  <2>5. CASE inUse' = inUse /\ Head(toHost) \notin Revokes
    <3>1. \A b \in Buffers : Stays(b)
      BY <2>3, <2>4, <2>5 DEF Stays
    <3> QED
      BY <1>t, <1>v, <2>2, <3>1 DEF TakenBack, Revoked, Stays
  <2>6. CASE /\ step = "offerWait" /\ \E v \in BOOLEAN : inUse' = [inUse EXCEPT ![buf] = v]
             /\ Head(toHost) \notin Revokes
    <3>1. \A b \in Buffers \ {buf} : Stays(b)
      BY <1>t, <2>3, <2>4, <2>6 DEF Stays
    <3> QED
      BY <1>v, <2>2, <2>6, <3>1 DEF TakenBack, SettingUp, Revoked, Stays
  <2>7. CASE \E b \in Buffers : /\ inUse' = [inUse EXCEPT ![b] = FALSE]
                               /\ Head(toHost) = [type |-> "revoke", b |-> b]
    <3>1. PICK b \in Buffers : /\ inUse' = [inUse EXCEPT ![b] = FALSE]
                               /\ Head(toHost) = [type |-> "revoke", b |-> b]
      BY <2>7
    <3>2. ~ inUse'[b] /\ \A c \in Buffers \ {b} : inUse'[c] = inUse[c]
      BY <1>t, <3>1
    <3>3. \A c \in Buffers \ {b} : [type |-> "revoke", b |-> c] # Head(toHost)
      BY <3>1
    <3>4. \A c \in Buffers : Stays(c)
      BY <2>3, <3>2, <3>3 DEF Stays
    <3> QED
      BY <1>t, <1>v, <2>2, <3>4 DEF TakenBack, Revoked, Stays
  <2> QED
    BY <2>1, <2>5, <2>6, <2>7
<1>20. ASSUME Remove PROVE TakenBack'
  <2>1. toHost' = toHost /\ inUse' = inUse /\ step = "up"
    BY <1>v, <1>20 DEF Remove, Goals
  <2>2. \A b \in Buffers : Stays(b)
    BY <2>1 DEF Stays
  <2> QED
    BY <1>t, <1>v, <1>20, <2>1, <2>2 DEF Remove, TakenBack, Revoked, Stays
<1>21. ASSUME SendsCompleted PROVE TakenBack'
  <2>1. toHost' = toHost /\ inUse' = inUse
    BY <1>21 DEF SendsCompleted
  <2>2. \A b \in Buffers : Stays(b)
    BY <2>1 DEF Stays
  <2> QED
    BY <1>t, <1>v, <1>21, <2>2 DEF SendsCompleted, TakenBack, SettingUp, Revoked, Stays
<1> QED
  BY <1>1, <1>2, <1>3, <1>4, <1>5, <1>6, <1>7, <1>8, <1>9, <1>10, <1>11, <1>12, <1>13,
     <1>14, <1>15, <1>16, <1>17, <1>18, <1>19, <1>20, <1>21
  DEF NvspLoud, NetVscThread, NetVscFails, ConnectToVsp, InitializeBuffer, DestroyBuffer

\* Every step keeps the conjuncts about the network channel.
LEMMA BuffersKept ==
  NetVscTypeOK /\ RingTypes /\ FilterTypes /\ IndexTypes /\ BInv /\ InHand /\ Next => BInv'
<1> SUFFICES ASSUME NetVscTypeOK, RingTypes, FilterTypes, IndexTypes, BInv, InHand, Next
             PROVE  BInv'
  OBVIOUS
<1>1. NvspQuiet \/ NvspLoud
  BY NvspSteps DEF BInv
<1> QED
  BY <1>1, AskedKept, SettingUpKept, GoalsKept, TakenBackKept, LeftBehindKept DEF BInv

-----------------------------------------------------------------------------
(* The interface.                                                          *)

\* The messages that tell of the link or answer a request, and those that ask.
News == Links \cup [type : {"response"}, of : Nat, id : Nat, answer : Answers]
Orders == [type : {"rndis"}, of : Nat]

\* The last of A before any of L, when what a ring has of both stays.
LEMMA ElsewhereFinal ==
  ASSUME NEW T, NEW q \in Seq(T), NEW r, NEW S, NEW A \in SUBSET S, NEW L,
         Elsewhere(q, r, T, S), Final(r, A, L)
  PROVE  Final(q, A, L)
<1>1. CASE r = q
  BY <1>1
<1>2. CASE q # <<>> /\ Head(q) \notin S /\ r = Tail(q)
  BY <1>2, FinalTail
<1>3. CASE \E m \in T \ S : r = Append(q, m)
  <2>1. PICK m \in T \ S : r = Append(q, m)
    BY <1>3
  <2>2. m \in T /\ m \notin A
    BY <2>1
  <2> QED
    BY <2>1, <2>2, FinalAppend
<1> QED
  BY <1>1, <1>2, <1>3 DEF Elsewhere

\* The interface and the device have no part in the step, nor the answers.
Apart ==
  /\ \/ Elsewhere(fromHost, fromHost', InMessages, News)
     \/ fromHost' = <<>> /\ call \in {"none", "removed"}
  /\ Range(toHost') \cap Orders \subseteq Range(toHost)
  /\ pending' \subseteq pending
  /\ UNCHANGED <<thread, device, reqs, interface, found, hostFilter, hostLink, gone>>

\* The steps that have.
Taking ==
  \/ Remove \/ DeviceAdd \/ GetRequest \/ SendRequest \/ SendRequestFails
  \/ Answered \/ TimeOut \/ Interrupted \/ Attach \/ Up \/ Stop \/ SetMode \/ Halt
  \/ ReceiveResponse \/ Wake \/ ReceiveIndicateStatus
  \/ HostTakesRndis \/ HostAnswers \/ HostLinkChanges

\* Most steps are apart.
LEMMA ApartSteps ==
  ASSUME NetVscTypeOK, RingTypes, Goals, Next
  PROVE  Apart \/ Taking
<1>t. toHost \in Seq(OutMessages) /\ fromHost \in Seq(InMessages) /\ buf \in Buffers
  BY DEF RingTypes, NetVscTypeOK
<1>v. Goals
  OBVIOUS
<1> USE DEF netvscRest, netvscVars, memory, answers, rings, rndisVars, thread, device, interface,
            host, gone, At, Fails, Sends, InnerFrame
<1>1. ASSUME OpenChannel, InnerFrame PROVE Apart
  BY <1>1 DEF OpenChannel, Apart, Elsewhere
<1>2. ASSUME SendInit, InnerFrame PROVE Apart
  <2> DEFINE m == [type |-> "init"]
  <2>1. m \in OutMessages /\ m \notin Orders
    BY <1>t DEF OutMessages, InitMessages, BufferMessages, Orders
  <2>2. toHost' = toHost \/ toHost' = Append(toHost, m)
    BY <1>2 DEF SendInit
  <2>3. pending' \subseteq pending
        /\ UNCHANGED <<fromHost, thread, device, reqs, interface, found, hostFilter, hostLink,
              gone>>
    BY <1>2 DEF SendInit
  <2>4. toHost' = Append(toHost, m) => Range(toHost') = Range(toHost) \cup {m}
    BY <1>t, <2>1, AppendRange
  <2> HIDE DEF m
  <2>5. Range(toHost') \cap Orders \subseteq Range(toHost)
    BY <2>1, <2>2, <2>4
  <2> QED
    BY <2>3, <2>5 DEF Apart, Elsewhere
<1>3. ASSUME InitAnswered, InnerFrame PROVE Apart
  BY <1>3 DEF InitAnswered, Apart, Elsewhere
<1>4. ASSUME SendNdis, InnerFrame PROVE Apart
  <2> DEFINE m == [type |-> "ndis"]
  <2>1. m \in OutMessages /\ m \notin Orders
    BY <1>t DEF OutMessages, InitMessages, BufferMessages, Orders
  <2>2. toHost' = toHost \/ toHost' = Append(toHost, m)
    BY <1>4 DEF SendNdis
  <2>3. pending' \subseteq pending
        /\ UNCHANGED <<fromHost, thread, device, reqs, interface, found, hostFilter, hostLink,
              gone>>
    BY <1>4 DEF SendNdis
  <2>4. toHost' = Append(toHost, m) => Range(toHost') = Range(toHost) \cup {m}
    BY <1>t, <2>1, AppendRange
  <2> HIDE DEF m
  <2>5. Range(toHost') \cap Orders \subseteq Range(toHost)
    BY <2>1, <2>2, <2>4
  <2> QED
    BY <2>3, <2>5 DEF Apart, Elsewhere
<1>5. ASSUME AllocBuffer, InnerFrame PROVE Apart
  BY <1>5 DEF AllocBuffer, Apart, Elsewhere
<1>6. ASSUME EstablishGpadl, InnerFrame PROVE Apart
  BY <1>6 DEF EstablishGpadl, Apart, Elsewhere
<1>7. ASSUME SendOffer, InnerFrame PROVE Apart
  <2> DEFINE m == [type |-> "offer", b |-> buf]
  <2>1. m \in OutMessages /\ m \notin Orders
    BY <1>t DEF OutMessages, InitMessages, BufferMessages, Orders
  <2>2. toHost' = toHost \/ toHost' = Append(toHost, m)
    BY <1>7 DEF SendOffer
  <2>3. pending' \subseteq pending
        /\ UNCHANGED <<fromHost, thread, device, reqs, interface, found, hostFilter, hostLink,
              gone>>
    BY <1>7 DEF SendOffer
  <2>4. toHost' = Append(toHost, m) => Range(toHost') = Range(toHost) \cup {m}
    BY <1>t, <2>1, AppendRange
  <2> HIDE DEF m
  <2>5. Range(toHost') \cap Orders \subseteq Range(toHost)
    BY <2>1, <2>2, <2>4
  <2> QED
    BY <2>3, <2>5 DEF Apart, Elsewhere
<1>8. ASSUME OfferAnswered, InnerFrame PROVE Apart
  BY <1>8 DEF OfferAnswered, Accepted, Apart, Elsewhere
<1>9. ASSUME Revoke, InnerFrame PROVE Apart
  <2> DEFINE m == [type |-> "revoke", b |-> buf]
  <2>1. m \in OutMessages /\ m \notin Orders
    BY <1>t DEF OutMessages, InitMessages, BufferMessages, Orders
  <2>2. toHost' = toHost \/ toHost' = Append(toHost, m)
    BY <1>9 DEF Revoke
  <2>3. pending' \subseteq pending
        /\ UNCHANGED <<fromHost, thread, device, reqs, interface, found, hostFilter, hostLink,
              gone>>
    BY <1>9 DEF Revoke
  <2>4. toHost' = Append(toHost, m) => Range(toHost') = Range(toHost) \cup {m}
    BY <1>t, <2>1, AppendRange
  <2> HIDE DEF m
  <2>5. Range(toHost') \cap Orders \subseteq Range(toHost)
    BY <2>1, <2>2, <2>4
  <2> QED
    BY <2>3, <2>5 DEF Apart, Elsewhere
<1>10. ASSUME Teardown, InnerFrame PROVE Apart
  BY <1>10 DEF Teardown, Apart, Elsewhere
<1>11. ASSUME FreeBuffer, InnerFrame PROVE Apart
  BY <1>11 DEF FreeBuffer, Destroyed, Apart, Elsewhere
<1>12. ASSUME CloseChannel, InnerFrame PROVE Apart
  <2>1. call \in {"none", "removed"}
    BY <1>v, <1>12 DEF CloseChannel, Goals
  <2>2. Range(toHost') = {}
    BY <1>12 DEF CloseChannel, Range
  <2> QED
    BY <1>12, <2>1, <2>2 DEF CloseChannel, Apart
<1>13. ASSUME OpenFails, InnerFrame PROVE Apart
  BY <1>13 DEF OpenFails, Apart, Elsewhere
<1>14. ASSUME SendInitFails, InnerFrame PROVE Apart
  BY <1>14 DEF SendInitFails, Apart, Elsewhere
<1>15. ASSUME BufferFails, InnerFrame PROVE Apart
  BY <1>15 DEF BufferFails, Apart, Elsewhere
<1>16. ASSUME DestroyFails, InnerFrame PROVE Apart
  BY <1>16 DEF DestroyFails, Destroyed, Apart, Elsewhere
<1>17. ASSUME InnerCallback PROVE Apart
  <2>1. fromHost # <<>> /\ fromHost' = Tail(fromHost)
        /\ Head(fromHost).type \in NvspAnswers \cup {"other"}
    BY <1>17 DEF InnerCallback, OnSendCompletion, NvspAnswers
  <2>2. Head(fromHost) \notin News
    BY <2>1 DEF News, Links, NvspAnswers
  <2>3. UNCHANGED <<toHost, pending, thread, device, reqs, interface, found, hostFilter,
        hostLink, gone>>
    BY <1>17 DEF InnerCallback, OnSendCompletion
  <2> QED
    BY <2>1, <2>2, <2>3 DEF Apart, Elsewhere
<1>18. ASSUME InnerHost PROVE Apart
  <2>1. toHost # <<>> /\ toHost' = Tail(toHost) /\ HostTakesNvsp
    BY <1>18 DEF InnerHost, HostTakesNvsp
  <2>2. Range(toHost') \subseteq Range(toHost)
    BY <1>t, <2>1, TailRange
  <2>3. \A m \in Completions : m \in InMessages \ News
    BY DEF Completions, InMessages, News, Links, NvspAnswers
  <2>4. fromHost' = fromHost \/ \E m \in Completions : fromHost' = Append(fromHost, m)
    BY <2>1, NvspEffect
  <2>5. Elsewhere(fromHost, fromHost', InMessages, News)
    BY <2>3, <2>4 DEF Elsewhere
  <2>6. UNCHANGED <<pending, thread, device, reqs, interface, found, hostFilter, hostLink, gone>>
    BY <1>18 DEF InnerHost
  <2> QED
    BY <2>2, <2>5, <2>6 DEF Apart
<1>19. ASSUME SendsCompleted PROVE Apart
  BY <1>19 DEF SendsCompleted, Apart, Elsewhere
<1>20. ASSUME OnSendRequestCompletion PROVE Apart
  <2>1. fromHost # <<>> /\ fromHost' = Tail(fromHost) /\ Head(fromHost).type \in {"sent"}
    BY <1>20 DEF OnSendRequestCompletion, Receives, NvspAnswers
  <2>2. Head(fromHost) \notin News
    BY <2>1 DEF News, Links, NvspAnswers
  <2>3. UNCHANGED <<toHost, pending, thread, device, reqs, interface, found, hostFilter,
        hostLink, gone>>
    BY <1>20 DEF OnSendRequestCompletion, Receives
  <2> QED
    BY <2>1, <2>2, <2>3 DEF Apart, Elsewhere
<1> QED
  BY <1>1, <1>2, <1>3, <1>4, <1>5, <1>6, <1>7, <1>8, <1>9, <1>10, <1>11, <1>12, <1>13,
     <1>14, <1>15, <1>16, <1>17, <1>18, <1>19, <1>20
  DEF Taking, Next, Inner, InnerFrame, NetVscThread, NetVscFails, ConnectToVsp, InitializeBuffer,
      DestroyBuffer, Thread, Callback, Host, Asked, Ioctl

\* Of what a step apart leaves in the rings.
LEMMA ApartRings ==
  ASSUME RingTypes, Apart
  PROVE  /\ Range(fromHost') \cap News \subseteq Range(fromHost)
         /\ call \in {"none", "removed"} \/ Range(fromHost') \cap News = Range(fromHost) \cap News
         /\ Final(fromHost', Downs, Links) => Final(fromHost, Downs, Links)
<1>1. fromHost \in Seq(InMessages)
  BY DEF RingTypes
<1>2. CASE Elsewhere(fromHost, fromHost', InMessages, News)
  <2>1. Range(fromHost') \cap News = Range(fromHost) \cap News
    BY <1>1, <1>2, ElsewhereShape
  <2>2. Downs \in SUBSET News
    BY DEF Downs, News, Links, Answers
  <2> QED
    BY <1>1, <1>2, <2>1, <2>2, ElsewhereFinal
<1>3. CASE fromHost' = <<>> /\ call \in {"none", "removed"}
  <2>1. DOMAIN fromHost' = {}
    BY <1>3
  <2> QED
    BY <1>3, <2>1 DEF Range, Final
<1> QED
  BY <1>2, <1>3 DEF Apart

\* What the device and the interface are in at each call.
LEMMA StateOfCallKept ==
  ASSUME IInv, IntInv, Apart \/ Taking
  PROVE  StateOfCall'
<1>t. NetVscTypeOK /\ RingTypes /\ FilterTypes /\ IndexTypes
  BY TypeParts DEF IInv
<1>v. /\ OneWays /\ Found /\ Numbered /\ InHand /\ StateOfCall /\ FilterOfCall /\ LinkOfCall
  BY DEF IInv, RInv, IntInv
<1>r. /\ reqs \in Seq(Requests) /\ rstate \in DeviceStates
      /\ {extension, macResult, linkDown, carrier, running, hostLink, lapsed} \subseteq BOOLEAN
      /\ rpc \in {"idle", "get", "send", "wait"} /\ arg \in Filters
      /\ toHost \in Seq(OutMessages) /\ fromHost \in Seq(InMessages)
  BY <1>t DEF FilterTypes, RingTypes
<1>c. rpc \in {"send", "wait"} => cur # 0 /\ cur \in DOMAIN reqs /\ reqs[cur].call = call
                                /\ reqs[cur].arg = arg
  BY <1>r, <1>v, RequestShape DEF InHand, Busy
<1>u. DOMAIN reqs = 1 .. cur /\ cur \in Nat /\ \A i \in DOMAIN reqs : reqs[i] \in Requests
  BY <1>r, RequestShape
<1>i. /\ call \in Resting => rpc = "idle"
      /\ rpc # "idle" => call \in {"open", "close", "mode", "init", "mac", "link", "halt"}
  BY <1>t, <1>v DEF InHand, FilterTypes, RequestCalls, FilterCalls, Resting
<1> USE DEF netvscRest, netvscVars, memory, answers, rings, rndisVars, thread, device, interface,
            host, gone, At, Fails, Sends, InnerFrame
<1>1. ASSUME Apart PROVE StateOfCall'
  <2>1. cur' = cur /\ reqs' = reqs /\ found' = found
    BY <1>1 DEF Apart, cur
  <2> HIDE DEF cur
  <2> QED
    BY <1>v, <1>1, <2>1 DEF Apart, StateOfCall, Attached, Busy, FilterCalls, Unfound
<1>2. ASSUME Remove PROVE StateOfCall'
  BY <1>r, <1>v, <1>i, <1>2 DEF Remove, StateOfCall, Attached, Busy, FilterCalls, Resting
<1>3. ASSUME DeviceAdd PROVE StateOfCall'
  BY <1>r, <1>v, <1>i, <1>3 DEF DeviceAdd, StateOfCall, Attached, Busy, FilterCalls, Resting
<1>4. ASSUME GetRequest PROVE StateOfCall'
  BY <1>r, <1>v, <1>i, <1>4 DEF GetRequest, StateOfCall, Attached, Busy, FilterCalls, Resting
<1>5. ASSUME SendRequest PROVE StateOfCall'
  <2>1. CASE call = "halt"
    BY <1>5, <2>1 DEF SendRequest, Outcome, StateOfCall, Attached, Busy, FilterCalls
  <2>2. CASE call # "halt"
    <3>1. UNCHANGED <<call, arg, device, reqs, macResult, carrier, running, linkDown, found>>
          /\ cur' = cur
      BY <1>5, <2>2 DEF SendRequest, cur
    <3>2. ~ reqs[cur].set /\ Unfound(cur) /\ Busy
      BY <1>v, <1>5 DEF SendRequest, InHand, Done, Busy
    <3> HIDE DEF cur
    <3> QED
      BY <1>v, <3>1, <3>2 DEF StateOfCall, Attached, Busy, FilterCalls, Unfound
  <2> QED
    BY <2>1, <2>2
<1>6. ASSUME SendRequestFails PROVE StateOfCall'
  <2>1. PICK ok \in BOOLEAN : Outcome(ok) /\ (ok <=> call = "halt")
    BY <1>6 DEF SendRequestFails
  <2>2. linkDown' = linkDown /\ extension' = extension /\ rpc # "idle"
    BY <1>6 DEF SendRequestFails, Outcome
  <2> QED
    BY <1>i, <1>r, <1>v, <2>1, <2>2 DEF Outcome, StateOfCall, Attached, Busy, FilterCalls
<1>7. ASSUME Answered PROVE StateOfCall'
  <2>1. PICK ok \in BOOLEAN : Outcome(ok) /\ (call \in FilterCalls => ok)
    BY <1>7 DEF Answered, FilterCalls
  <2>2. /\ rpc = "wait" /\ reqs[cur].set /\ extension' = extension
        /\ linkDown' \in BOOLEAN /\ (call # "link" => linkDown' = linkDown)
    BY <1>r, <1>7 DEF Answered, Outcome
  <2> QED
    BY <1>i, <1>r, <1>v, <2>1, <2>2 DEF Outcome, StateOfCall, Attached, Busy, FilterCalls
<1>8. ASSUME TimeOut PROVE StateOfCall'
  <2>1. PICK ok \in BOOLEAN : Outcome(ok) /\ (call \in FilterCalls)
    BY <1>8 DEF TimeOut
  <2>2. linkDown' = linkDown /\ extension' = extension /\ rpc # "idle"
    BY <1>8 DEF TimeOut, Outcome
  <2> QED
    BY <1>i, <1>r, <1>v, <2>1, <2>2 DEF Outcome, StateOfCall, Attached, Busy, FilterCalls
<1>9. ASSUME Interrupted PROVE StateOfCall'
  <2>1. PICK ok \in BOOLEAN : Outcome(ok) /\ (call \in FilterCalls)
    BY <1>9 DEF Interrupted
  <2>2. linkDown' = linkDown /\ extension' = extension /\ rpc # "idle"
    BY <1>9 DEF Interrupted, Outcome
  <2> QED
    BY <1>i, <1>r, <1>v, <2>1, <2>2 DEF Outcome, StateOfCall, Attached, Busy, FilterCalls
<1>10. ASSUME Attach PROVE StateOfCall'
  BY <1>r, <1>v, <1>i, <1>10 DEF Attach, StateOfCall, Attached, Busy, FilterCalls, Resting
<1>11. ASSUME Up PROVE StateOfCall'
  BY <1>r, <1>v, <1>i, <1>11 DEF Up, OpenDevice, Calls, StateOfCall, Attached, Busy,
     FilterCalls, Resting
<1>12. ASSUME Stop PROVE StateOfCall'
  BY <1>r, <1>v, <1>i, <1>12 DEF Stop, CloseDevice, Calls, StateOfCall, Attached, Busy,
     FilterCalls, Resting
<1>13. ASSUME SetMode PROVE StateOfCall'
  BY <1>r, <1>v, <1>i, <1>13 DEF SetMode, Calls, StateOfCall, Attached, Busy, FilterCalls, Resting
<1>14. ASSUME Halt PROVE StateOfCall'
  BY <1>r, <1>v, <1>i, <1>14 DEF Halt, StateOfCall, Attached, Busy, FilterCalls, Resting
<1>15. ASSUME ReceiveResponse PROVE StateOfCall'
  <2>1. cur' = cur /\ reqs' = reqs /\ (found' # {} => rstate # "UNINITIALIZED")
    BY <1>15 DEF ReceiveResponse, LetIn, cur
  <2>2. ~ Unfound(cur)' => rstate # "UNINITIALIZED"
    BY <2>1 DEF Unfound
  <2> HIDE DEF cur
  <2> QED
    BY <1>v, <1>15, <2>1, <2>2 DEF ReceiveResponse, StateOfCall, Attached, Busy, FilterCalls
<1>16. ASSUME Wake PROVE StateOfCall'
  <2>1. cur' = cur /\ DOMAIN reqs' = DOMAIN reqs /\ found' = {}
    BY <1>r, <1>v, <1>16, WakeEffect DEF Wake, SameCount, cur
  <2>2. rpc = "wait" => reqs[cur].set \/ ~ Unfound(cur) \/ reqs'[cur] = reqs[cur]
    BY <1>c, <1>r, <1>v, <1>16, WakeEffect DEF Unfound
  <2>3. UNCHANGED <<thread, device, interface>>
    BY <1>16 DEF Wake
  <2> HIDE DEF cur
  <2> QED
    BY <1>v, <2>1, <2>2, <2>3 DEF StateOfCall, Attached, Busy, FilterCalls, Unfound
<1>17. ASSUME ReceiveIndicateStatus PROVE StateOfCall'
  <2>1. cur' = cur /\ reqs' = reqs /\ found' = found
    BY <1>17 DEF ReceiveIndicateStatus, Receives, cur
  <2> HIDE DEF cur
  <2> QED
    BY <1>v, <1>17, <2>1 DEF ReceiveIndicateStatus, Receives, StateOfCall, Attached, Busy,
       FilterCalls, Unfound
<1>18. ASSUME HostTakesRndis PROVE StateOfCall'
  <2>1. cur' = cur /\ reqs' = reqs /\ found' = found
    BY <1>18 DEF HostTakesRndis, cur
  <2> HIDE DEF cur
  <2> QED
    BY <1>v, <1>18, <2>1 DEF HostTakesRndis, StateOfCall, Attached, Busy, FilterCalls, Unfound
<1>19. ASSUME HostAnswers PROVE StateOfCall'
  <2>1. cur' = cur /\ reqs' = reqs /\ found' = found
    BY <1>19 DEF HostAnswers, cur
  <2> HIDE DEF cur
  <2> QED
    BY <1>v, <1>19, <2>1 DEF HostAnswers, StateOfCall, Attached, Busy, FilterCalls, Unfound
<1>20. ASSUME HostLinkChanges PROVE StateOfCall'
  <2>1. cur' = cur /\ reqs' = reqs /\ found' = found
    BY <1>20 DEF HostLinkChanges, cur
  <2> HIDE DEF cur
  <2> QED
    BY <1>v, <1>20, <2>1 DEF HostLinkChanges, StateOfCall, Attached, Busy, FilterCalls, Unfound
<1> QED
  BY <1>1, <1>2, <1>3, <1>4, <1>5, <1>6, <1>7, <1>8, <1>9, <1>10, <1>11, <1>12, <1>13,
     <1>14, <1>15, <1>16, <1>17, <1>18, <1>19, <1>20 DEF Taking

\* No filter request is sent but by the thread.
LEMMA OneFilterStays ==
  ASSUME OneFilter, cur' = cur, DOMAIN reqs' = DOMAIN reqs,
         \A i \in DOMAIN reqs :
           /\ reqs'[i].call = reqs[i].call
           /\ ~ Unsent(i)' \/ i \in pending' => ~ Unsent(i) \/ i \in pending,
         rpc' = "wait" \/ rpc # "wait" \/ (Unsent(cur) /\ cur \notin pending)
  PROVE  OneFilter'
BY DEF OneFilter

\* An answer that is somewhere was there, or in the ring, before.
LEMMA AgreedBefore ==
  ASSUME NEW a, cur' = cur, reqs'[cur] = reqs[cur], found' \subseteq found,
         Range(fromHost') \cap RepliesTo(cur) \subseteq Range(fromHost), Agreed(a)'
  PROVE  Agreed(a)
<1> HIDE DEF cur
<1> QED
  BY DEF Agreed, RepliesTo

\* A step that leaves the answers leaves the filter.
LEMMA FilterSetStays ==
  ASSUME FilterSet, UNCHANGED <<call, rpc, arg, rstate, running, hostFilter>>,
         Agreed("ok")' => Agreed("ok")
  PROVE  FilterSet'
BY DEF FilterSet

\* What was answered is done with.
LEMMA AnsweredEffect ==
  ASSUME FilterTypes, InHand, OneWays, Answered
  PROVE  /\ cur # 0 /\ cur \in DOMAIN reqs /\ rpc = "wait" /\ reqs[cur].set /\ Done(cur)
         /\ cur' = cur /\ DOMAIN reqs' = DOMAIN reqs /\ \A i \in DOMAIN reqs : SameName(i)
         /\ UNCHANGED <<toHost, fromHost, pending, found, hostFilter, hostLink, carrier>>
         /\ rpc' # "wait"
<1>1. reqs \in Seq(Requests) /\ rpc = "wait" /\ reqs[cur].set /\ cur # 0 /\ Put
  BY DEF FilterTypes, Answered, InHand, Busy
<1>2. cur \in DOMAIN reqs
  BY <1>1, RequestShape
<1>3. Done(cur)
  <2> PICK c : c = cur
    OBVIOUS
  <2>1. Done(c)
    BY <1>1, <1>2 DEF OneWays, OneWay
  <2> QED
    BY <2>1
<1>4. cur' = cur /\ DOMAIN reqs' = DOMAIN reqs /\ \A i \in DOMAIN reqs : SameName(i)
  BY <1>1, PutEffect DEF SameCount, cur
<1>5. UNCHANGED <<toHost, fromHost, pending, found, hostFilter, hostLink, carrier>>
      /\ rpc' # "wait"
  BY DEF Answered, Outcome, netvscVars, rings, host
<1> QED
  BY <1>1, <1>2, <1>3, <1>4, <1>5

\* While no filter request failed, the filter of the host is the one asked for.
LEMMA FilterOfCallKept ==
  ASSUME IInv, IntInv, Apart \/ Taking
  PROVE  FilterOfCall'
<1>t. NetVscTypeOK /\ RingTypes /\ FilterTypes /\ IndexTypes
  BY TypeParts DEF IInv
<1>v. /\ OneWays /\ Found /\ Numbered /\ InHand /\ StateOfCall /\ FilterOfCall /\ LinkOfCall
  BY DEF IInv, RInv, IntInv
<1>r. /\ reqs \in Seq(Requests) /\ rstate \in DeviceStates
      /\ {extension, macResult, linkDown, carrier, running, hostLink, lapsed} \subseteq BOOLEAN
      /\ rpc \in {"idle", "get", "send", "wait"} /\ arg \in Filters
      /\ toHost \in Seq(OutMessages) /\ fromHost \in Seq(InMessages)
  BY <1>t DEF FilterTypes, RingTypes
<1>c. rpc \in {"send", "wait"} => cur # 0 /\ cur \in DOMAIN reqs /\ reqs[cur].call = call
                                /\ reqs[cur].arg = arg
  BY <1>r, <1>v, RequestShape DEF InHand, Busy
<1>u. DOMAIN reqs = 1 .. cur /\ cur \in Nat /\ \A i \in DOMAIN reqs : reqs[i] \in Requests
  BY <1>r, RequestShape
<1>i. /\ call \in Resting => rpc = "idle"
      /\ rpc # "idle" => call \in {"open", "close", "mode", "init", "mac", "link", "halt"}
  BY <1>t, <1>v DEF InHand, FilterTypes, RequestCalls, FilterCalls, Resting
<1> USE DEF netvscRest, netvscVars, memory, answers, rings, rndisVars, thread, device, interface,
            host, gone, At, Fails, Sends, InnerFrame
<1>1. ASSUME Apart PROVE FilterOfCall'
  <2> SUFFICES ASSUME ~ lapsed' PROVE OneFilter' /\ FilterSet'
    BY DEF FilterOfCall
  <2>1. OneFilter /\ FilterSet
    BY <1>v, <1>1 DEF Apart, FilterOfCall
  <2>2. UNCHANGED <<thread, rstate, running, hostFilter, reqs, found>> /\ cur' = cur
    BY <1>1 DEF Apart, cur
  <2>3. \A i \in DOMAIN reqs : Unsent(i) => Unsent(i)'
    <3>1. \A i \in DOMAIN reqs : Sent(i) \in Orders
      BY <1>u DEF Sent, Orders
    <3> QED
      BY <1>1, <3>1 DEF Apart, Unsent, Sent
  <2>4. OneFilter'
    BY <1>1, <2>1, <2>2, <2>3, OneFilterStays DEF Apart
  <2>5. Range(fromHost') \cap RepliesTo(cur) \subseteq Range(fromHost)
    <3>1. RepliesTo(cur) \subseteq News
      BY <1>u DEF RepliesTo, News
    <3> QED
      BY <1>t, <1>1, <3>1, ApartRings
  <2>6. Agreed("ok")' => Agreed("ok")
    BY <2>2, <2>5, AgreedBefore
  <2> QED
    BY <2>1, <2>2, <2>4, <2>6, FilterSetStays
<1>2. ASSUME Remove PROVE FilterOfCall'
  <2> SUFFICES ASSUME ~ lapsed' PROVE OneFilter' /\ FilterSet'
    BY DEF FilterOfCall
  <2>1. OneFilter /\ FilterSet
    BY <1>v, <1>2 DEF Remove, FilterOfCall
  <2>2. UNCHANGED <<toHost, pending, reqs>> /\ rpc # "wait" /\ rpc' # "wait"
    BY <1>i, <1>2 DEF Remove, Resting
  <2>3. OneFilter'
    BY <2>1, <2>2, OneFilterStays DEF Unsent, Sent, cur
  <2>4. FilterSet'
    BY <1>r, <1>v, <1>2, <2>1, <2>2 DEF Remove, FilterSet, StateOfCall, Attached, FilterCalls,
       DeviceStates
  <2> QED
    BY <2>3, <2>4
<1>3. ASSUME DeviceAdd PROVE FilterOfCall'
  <2> SUFFICES ASSUME ~ lapsed' PROVE OneFilter' /\ FilterSet'
    BY DEF FilterOfCall
  <2>1. OneFilter /\ FilterSet
    BY <1>v, <1>3 DEF DeviceAdd, FilterOfCall
  <2>2. UNCHANGED <<toHost, pending, reqs>> /\ rpc # "wait" /\ rpc' # "wait"
    BY <1>i, <1>3 DEF DeviceAdd, Resting
  <2>3. OneFilter'
    BY <2>1, <2>2, OneFilterStays DEF Unsent, Sent, cur
  <2>4. FilterSet'
    BY <1>r, <1>v, <1>3, <2>1, <2>2 DEF DeviceAdd, FilterSet, StateOfCall, Attached,
       FilterCalls, DeviceStates
  <2> QED
    BY <2>3, <2>4
<1>4. ASSUME GetRequest PROVE FilterOfCall'
  <2> SUFFICES ASSUME ~ lapsed' PROVE OneFilter' /\ FilterSet'
    BY DEF FilterOfCall
  <2>1. OneFilter /\ FilterSet
    BY <1>v, <1>4 DEF GetRequest, FilterOfCall
  <2>2. /\ cur' = cur + 1 /\ DOMAIN reqs' = DOMAIN reqs \cup {cur + 1}
        /\ cur + 1 \notin DOMAIN reqs
        /\ \A i \in DOMAIN reqs : reqs'[i] = reqs[i]
    BY <1>t, <1>v, <1>4, NewRequest
  <2>3. UNCHANGED <<toHost, pending>> /\ rpc = "get" /\ rpc' = "send" /\ call' = call
        /\ UNCHANGED <<running, hostFilter>>
    BY <1>4 DEF GetRequest
  <2>4. ASSUME NEW i, i = cur + 1 PROVE Unsent(i)' /\ i \notin pending'
    BY <1>t, <2>2, <2>3, <2>4, NothingOfNew DEF Done, Unsent, Sent
  <2>5. \A i \in DOMAIN reqs : Unsent(i)' = Unsent(i)
    BY <2>3 DEF Unsent, Sent
  <2> HIDE DEF cur
  <2>6. OneFilter'
    BY <2>1, <2>2, <2>3, <2>4, <2>5 DEF OneFilter
  <2>7. FilterSet'
    BY <1>4, <2>1, <2>3 DEF GetRequest, FilterSet
  <2> QED
    BY <2>6, <2>7
<1>5. ASSUME SendRequest PROVE FilterOfCall'
  <2> SUFFICES ASSUME ~ lapsed' PROVE OneFilter' /\ FilterSet'
    BY DEF FilterOfCall
  <2>1. OneFilter /\ FilterSet
    BY <1>v, <1>5 DEF SendRequest, FilterOfCall
  <2>2. /\ rpc = "send" /\ toHost' = Append(toHost, Sent(cur)) /\ pending' = pending
        /\ UNCHANGED <<fromHost, found, hostFilter>>
    BY <1>5 DEF SendRequest, Sent
  <2>3. Range(toHost') = Range(toHost) \cup {Sent(cur)}
    <3>1. Sent(cur) \in OutMessages
      BY <1>c, <2>2 DEF OutMessages, Sent
    <3> QED
      BY <1>r, <2>2, <3>1, AppendRange
  <2>4. \A i \in DOMAIN reqs : i # cur /\ Unsent(i) => Unsent(i)'
    BY <2>3 DEF Unsent, Sent
  <2>5. CASE call = "halt"
    <3>1. cur' = cur /\ DOMAIN reqs' = DOMAIN reqs /\ \A i \in DOMAIN reqs : SameName(i)
      BY <1>c, <1>r, <1>5, <2>2, <2>5, PutEffect DEF SendRequest, SameCount, cur
    <3>2. call' = "remove"
      BY <1>5, <2>5 DEF SendRequest, Outcome
    <3>3. reqs[cur].call = "halt"
      BY <1>c, <2>2, <2>5
    <3> HIDE DEF cur
    <3>4. OneFilter'
      BY <2>1, <2>2, <2>4, <3>1, <3>3 DEF OneFilter, SameName, FilterCalls
    <3> QED
      BY <3>2, <3>4 DEF FilterSet, FilterCalls
  <2>6. CASE call # "halt"
    <3>1. rpc' = "wait" /\ UNCHANGED <<call, arg, rstate, reqs, running>> /\ cur' = cur
      BY <1>5, <2>6 DEF SendRequest, cur
    <3>2. Done(cur) /\ ~ reqs[cur].set
      BY <1>v, <2>2 DEF InHand
    <3> HIDE DEF cur
    <3>3. OneFilter'
      BY <2>1, <2>2, <2>4, <3>1 DEF OneFilter
    <3>4. ~ Agreed("ok")'
      BY <2>2, <3>1, <3>2 DEF Agreed, Done, Unanswered, Unfound, RepliesTo
    <3> QED
      BY <2>1, <2>2, <3>1, <3>3, <3>4 DEF FilterSet
  <2> QED
    BY <2>5, <2>6
<1>6. ASSUME SendRequestFails PROVE FilterOfCall'
  <2> SUFFICES ASSUME ~ lapsed' PROVE OneFilter' /\ FilterSet'
    BY DEF FilterOfCall
  <2>1. OneFilter /\ FilterSet
    BY <1>v, <1>6 DEF SendRequestFails, FilterOfCall
  <2>2. /\ rpc = "send" /\ call \notin FilterCalls /\ Put /\ Outcome(call = "halt")
        /\ UNCHANGED <<toHost, pending>>
    BY <1>6 DEF SendRequestFails
  <2>3. cur' = cur /\ DOMAIN reqs' = DOMAIN reqs /\ \A i \in DOMAIN reqs : SameName(i)
    BY <1>c, <1>r, <2>2, PutEffect DEF SameCount, cur
  <2>4. OneFilter'
    BY <2>1, <2>2, <2>3, OneFilterStays DEF SameName, Unsent, Sent
  <2>5. call \in {"init", "mac", "link", "halt"}
    BY <1>i, <1>t, <2>2 DEF FilterTypes, RequestCalls, Resting
  <2>6. call' \notin FilterCalls \cup {"ready", "mode"}
    BY <2>2, <2>5 DEF Outcome, FilterCalls
  <2> QED
    BY <2>4, <2>6 DEF FilterSet
<1>7. ASSUME Answered PROVE FilterOfCall'
  <2> SUFFICES ASSUME ~ lapsed' PROVE OneFilter' /\ FilterSet'
    BY DEF FilterOfCall
  <2>1. OneFilter /\ FilterSet
    BY <1>v, <1>7 DEF Answered, FilterOfCall
  <2>2. /\ cur # 0 /\ cur \in DOMAIN reqs /\ rpc = "wait" /\ reqs[cur].set /\ Done(cur)
        /\ cur' = cur /\ DOMAIN reqs' = DOMAIN reqs /\ \A i \in DOMAIN reqs : SameName(i)
        /\ UNCHANGED <<toHost, fromHost, pending, found, hostFilter, hostLink, carrier>>
        /\ rpc' # "wait"
    BY <1>t, <1>v, <1>7, AnsweredEffect
  <2>3. OneFilter'
    BY <2>1, <2>2, OneFilterStays DEF SameName, Unsent, Sent, Done
  <2>4. CASE call \in FilterCalls
    <3>1. reqs[cur].answer = "ok" /\ Outcome(TRUE)
      BY <1>7, <2>4 DEF Answered, FilterCalls
    <3>2. hostFilter = arg
      BY <2>1, <2>2, <2>4, <3>1 DEF FilterSet, Agreed
    <3>3. rpc' = "idle" /\ call' = "ready" /\ hostFilter' = arg
          /\ running' = (running \/ call = "open")
          /\ (call = "open" => rstate' = "DATAINITIALIZED")
                /\ (call = "close" => rstate' = "INITIALIZED")
          /\ (call = "mode" => rstate' = rstate)
      BY <2>2, <2>4, <3>1, <3>2 DEF Outcome, FilterCalls
    <3>4. /\ call = "open" => arg = "promiscuous"
          /\ call = "close" => ~ running
          /\ call = "mode" => arg = "directed"
      BY <1>v DEF StateOfCall
    <3>5. FilterSet'
      BY <2>1, <2>4, <3>3, <3>4 DEF FilterSet, FilterCalls
    <3> QED
      BY <2>3, <3>5
  <2>5. CASE call \notin FilterCalls
    <3>1. call \in {"init", "mac", "link", "halt"}
      BY <1>i, <1>t, <2>2, <2>5 DEF FilterTypes, RequestCalls, Resting
    <3>2. PICK ok \in BOOLEAN : Outcome(ok)
      BY <1>7 DEF Answered
    <3>3. call' \notin FilterCalls \cup {"ready", "mode"}
      BY <3>1, <3>2 DEF Outcome, FilterCalls
    <3> QED
      BY <2>3, <3>3 DEF FilterSet
  <2> QED
    BY <2>4, <2>5
<1>8. ASSUME TimeOut PROVE FilterOfCall'
  BY <1>8 DEF TimeOut, FilterOfCall
<1>9. ASSUME Interrupted PROVE FilterOfCall'
  BY <1>9 DEF Interrupted, FilterOfCall
<1>10. ASSUME Attach PROVE FilterOfCall'
  <2> SUFFICES ASSUME ~ lapsed' PROVE OneFilter' /\ FilterSet'
    BY DEF FilterOfCall
  <2>1. OneFilter /\ FilterSet
    BY <1>v, <1>10 DEF Attach, FilterOfCall
  <2>2. UNCHANGED <<toHost, pending, reqs>> /\ rpc # "wait" /\ rpc' # "wait"
    BY <1>i, <1>10 DEF Attach, Resting
  <2>3. OneFilter'
    BY <2>1, <2>2, OneFilterStays DEF Unsent, Sent, cur
  <2>4. FilterSet'
    BY <1>r, <1>v, <1>10, <2>1, <2>2 DEF Attach, FilterSet, StateOfCall, Attached,
       FilterCalls, DeviceStates
  <2> QED
    BY <2>3, <2>4
<1>11. ASSUME Up PROVE FilterOfCall'
  <2> SUFFICES ASSUME ~ lapsed' PROVE OneFilter' /\ FilterSet'
    BY DEF FilterOfCall
  <2>1. OneFilter /\ FilterSet
    BY <1>v, <1>11 DEF Up, OpenDevice, Calls, FilterOfCall
  <2>2. UNCHANGED <<toHost, pending, reqs>> /\ rpc # "wait" /\ rpc' # "wait"
    BY <1>i, <1>11 DEF Up, OpenDevice, Calls, Resting
  <2>3. OneFilter'
    BY <2>1, <2>2, OneFilterStays DEF Unsent, Sent, cur
  <2>4. FilterSet'
    BY <1>r, <1>v, <1>11, <2>1, <2>2 DEF Up, OpenDevice, Calls, FilterSet, StateOfCall,
       Attached, FilterCalls, DeviceStates
  <2> QED
    BY <2>3, <2>4
<1>12. ASSUME Stop PROVE FilterOfCall'
  <2> SUFFICES ASSUME ~ lapsed' PROVE OneFilter' /\ FilterSet'
    BY DEF FilterOfCall
  <2>1. OneFilter /\ FilterSet
    BY <1>v, <1>12 DEF Stop, CloseDevice, Calls, FilterOfCall
  <2>2. UNCHANGED <<toHost, pending, reqs>> /\ rpc # "wait" /\ rpc' # "wait"
    BY <1>i, <1>12 DEF Stop, CloseDevice, Calls, Resting
  <2>3. OneFilter'
    BY <2>1, <2>2, OneFilterStays DEF Unsent, Sent, cur
  <2>4. FilterSet'
    BY <1>r, <1>v, <1>12, <2>1, <2>2 DEF Stop, CloseDevice, Calls, FilterSet, StateOfCall,
       Attached, FilterCalls, DeviceStates
  <2> QED
    BY <2>3, <2>4
<1>13. ASSUME SetMode PROVE FilterOfCall'
  <2> SUFFICES ASSUME ~ lapsed' PROVE OneFilter' /\ FilterSet'
    BY DEF FilterOfCall
  <2>1. OneFilter /\ FilterSet
    BY <1>v, <1>13 DEF SetMode, Calls, FilterOfCall
  <2>2. UNCHANGED <<toHost, pending, reqs>> /\ rpc # "wait" /\ rpc' # "wait"
    BY <1>i, <1>13 DEF SetMode, Calls, Resting
  <2>3. OneFilter'
    BY <2>1, <2>2, OneFilterStays DEF Unsent, Sent, cur
  <2>4. FilterSet'
    BY <1>r, <1>v, <1>13, <2>1, <2>2 DEF SetMode, Calls, FilterSet, StateOfCall, Attached,
       FilterCalls, DeviceStates
  <2> QED
    BY <2>3, <2>4
<1>14. ASSUME Halt PROVE FilterOfCall'
  <2> SUFFICES ASSUME ~ lapsed' PROVE OneFilter' /\ FilterSet'
    BY DEF FilterOfCall
  <2>1. OneFilter /\ FilterSet
    BY <1>v, <1>14 DEF Halt, FilterOfCall
  <2>2. UNCHANGED <<toHost, pending, reqs>> /\ rpc # "wait" /\ rpc' # "wait"
    BY <1>i, <1>14 DEF Halt, Resting
  <2>3. OneFilter'
    BY <2>1, <2>2, OneFilterStays DEF Unsent, Sent, cur
  <2>4. FilterSet'
    BY <1>r, <1>v, <1>14, <2>1, <2>2 DEF Halt, FilterSet, StateOfCall, Attached, FilterCalls,
       DeviceStates
  <2> QED
    BY <2>3, <2>4
<1>15. ASSUME ReceiveResponse PROVE FilterOfCall'
  <2> SUFFICES ASSUME ~ lapsed' PROVE OneFilter' /\ FilterSet'
    BY DEF FilterOfCall
  <2>1. OneFilter /\ FilterSet
    BY <1>v, <1>15 DEF ReceiveResponse, Receives, FilterOfCall
  <2>2. /\ UNCHANGED <<toHost, pending, thread, rstate, running, hostFilter, reqs>> /\ cur' = cur
        /\ found = {} /\ fromHost # <<>> /\ fromHost' = Tail(fromHost)
    BY <1>15 DEF ReceiveResponse, Receives, cur
  <2>3. OneFilter'
    BY <2>1, <2>2, OneFilterStays DEF Unsent, Sent
  <2> DEFINE m == Head(fromHost)
  <2>4. /\ m \in RepliesTo(m.of) /\ m \in Range(fromHost)
        /\ found' \subseteq {[req |-> m.of, of |-> m.of, answer |-> m.answer]}
    BY <1>t, <1>r, <1>v, <1>15, ResponseFinds
  <2>5. Range(fromHost') \subseteq Range(fromHost)
    BY <1>r, <2>2, TailRange
  <2> HIDE DEF m, cur
  <2>6. Agreed("ok")' => Agreed("ok")
    BY <2>2, <2>4, <2>5 DEF Agreed, RepliesTo
  <2> QED
    BY <2>1, <2>2, <2>3, <2>6, FilterSetStays
<1>16. ASSUME Wake PROVE FilterOfCall'
  <2> SUFFICES ASSUME ~ lapsed' PROVE OneFilter' /\ FilterSet'
    BY DEF FilterOfCall
  <2>1. OneFilter /\ FilterSet
    BY <1>v, <1>16 DEF Wake, FilterOfCall
  <2>2. /\ UNCHANGED <<toHost, fromHost, pending, thread, rstate, running, hostFilter>>
        /\ found' = {}
    BY <1>16 DEF Wake
  <2>3. /\ cur' = cur /\ DOMAIN reqs' = DOMAIN reqs /\ \A i \in DOMAIN reqs : SameName(i)
        /\ \E f \in found :
              /\ f.of \in DOMAIN reqs /\ reqs'[f.of].set /\ reqs'[f.of].answer = f.answer
              /\ \A i \in DOMAIN reqs \ {f.of} : reqs'[i] = reqs[i]
    BY <1>r, <1>v, <1>16, WakeEffect DEF SameCount, cur
  <2>4. OneFilter'
    BY <2>1, <2>2, <2>3, OneFilterStays DEF SameName, Unsent, Sent
  <2>5. rpc = "wait" /\ Agreed("ok")' => Agreed("ok")
    <3> HIDE DEF cur
    <3> QED
      BY <1>c, <2>2, <2>3 DEF Agreed, RepliesTo
  <2> QED
    BY <2>1, <2>2, <2>4, <2>5 DEF FilterSet
<1>17. ASSUME ReceiveIndicateStatus PROVE FilterOfCall'
  <2> SUFFICES ASSUME ~ lapsed' PROVE OneFilter' /\ FilterSet'
    BY DEF FilterOfCall
  <2>1. OneFilter /\ FilterSet
    BY <1>v, <1>17 DEF ReceiveIndicateStatus, Receives, FilterOfCall
  <2>2. UNCHANGED <<toHost, pending, thread, rstate, running, hostFilter, reqs, found>>
        /\ cur' = cur
    BY <1>17 DEF ReceiveIndicateStatus, Receives, cur
  <2>3. OneFilter'
    BY <2>1, <2>2, OneFilterStays DEF Unsent, Sent
  <2>4. Range(fromHost') \cap RepliesTo(cur) \subseteq Range(fromHost)
    BY <1>r, <1>17, TailRange DEF ReceiveIndicateStatus, Receives
  <2>5. Agreed("ok")' => Agreed("ok")
    BY <2>2, <2>4, AgreedBefore
  <2> QED
    BY <2>1, <2>2, <2>3, <2>5, FilterSetStays
<1>18. ASSUME HostTakesRndis PROVE FilterOfCall'
  <2> SUFFICES ASSUME ~ lapsed' PROVE OneFilter' /\ FilterSet'
    BY DEF FilterOfCall
  <2>1. OneFilter /\ FilterSet
    BY <1>v, <1>18 DEF HostTakesRndis, FilterOfCall
  <2> DEFINE k == Head(toHost).of
  <2>2. /\ toHost # <<>> /\ toHost' = Tail(toHost) /\ Head(toHost).type = "rndis"
        /\ fromHost' = Append(fromHost, Completion(k)) /\ pending' \subseteq pending \cup {k}
        /\ UNCHANGED <<thread, rstate, running, hostFilter, reqs, found>> /\ cur' = cur
    BY <1>18 DEF HostTakesRndis, Completion, cur
  <2>3. k \in DOMAIN reqs /\ Sent(k) \in Range(toHost) /\ Range(toHost') \subseteq Range(toHost)
    BY <1>r, <2>2, TailShape, TailRange, OutKinds
  <2> HIDE DEF k
  <2>4. OneFilter'
    <3>1. \A i \in DOMAIN reqs : ~ Unsent(i)' \/ i \in pending' => ~ Unsent(i) \/ i \in pending
      BY <2>2, <2>3 DEF Unsent, Sent
    <3> QED
      BY <2>1, <2>2, <3>1, OneFilterStays
  <2>5. Completion(k) \in InMessages /\ Completion(k) \notin RepliesTo(cur)
    BY <2>3 DEF InMessages, RndisCompletions, Completion, RepliesTo
  <2>6. Range(fromHost') \cap RepliesTo(cur) \subseteq Range(fromHost)
    BY <1>r, <2>2, <2>5, AppendRange
  <2>7. Agreed("ok")' => Agreed("ok")
    BY <2>2, <2>6, AgreedBefore
  <2> QED
    BY <2>1, <2>2, <2>4, <2>7, FilterSetStays
<1>19. ASSUME HostAnswers PROVE FilterOfCall'
  <2> SUFFICES ASSUME ~ lapsed' PROVE OneFilter' /\ FilterSet'
    BY DEF FilterOfCall
  <2>1. OneFilter /\ FilterSet
    BY <1>v, <1>19 DEF HostAnswers, FilterOfCall
  <2>2. PICK k \in pending, x \in Answers :
          /\ pending' = pending \ {k}
          /\ fromHost' = Append(fromHost, [type |-> "response", of |-> k, id |-> reqs[k].id,
                                           answer |-> x])
          /\ hostFilter' = IF reqs[k].call \in FilterCalls /\ x = "ok"
                           THEN reqs[k].arg ELSE hostFilter
    BY <1>19 DEF HostAnswers, AnswersTo, Answers
  <2>3. UNCHANGED <<toHost, reqs, found, thread, rstate, running>> /\ cur' = cur
    BY <1>19 DEF HostAnswers, cur
  <2> DEFINE m == [type |-> "response", of |-> k, id |-> reqs[k].id, answer |-> x]
  <2>4. k \in DOMAIN reqs /\ reqs[k].id \in Nat /\ reqs[k].arg \in Filters
    BY <1>t, <1>u DEF IndexTypes, Requests
  <2>5. m \in InMessages /\ fromHost' = Append(fromHost, m) /\ m.answer = x
    BY <2>2, <2>4 DEF InMessages, RndisMessages
  <2>6. m \in RepliesTo(cur) => k = cur
    BY DEF RepliesTo
  <2> HIDE DEF m
  <2>7. Range(fromHost') = Range(fromHost) \cup {m}
    BY <1>r, <2>5, AppendRange
  <2>8. OneFilter'
    BY <2>1, <2>2, <2>3, OneFilterStays DEF Unsent, Sent
  <2>9. CASE reqs[k].call \in FilterCalls
    <3>1. k = cur /\ rpc = "wait"
      BY <2>1, <2>4, <2>9 DEF OneFilter
    <3>2. call = reqs[k].call /\ arg = reqs[k].arg
      BY <1>c, <3>1
    <3>3. call \in FilterCalls /\ (x = "ok" => hostFilter' = arg)
          /\ (x # "ok" => hostFilter' = hostFilter)
      BY <2>2, <2>9, <3>2
    <3>4. ~ Agreed("ok")
      <4>1. Unanswered(k) /\ Unfound(k) /\ ~ reqs[k].set
        BY <1>v, <2>4 DEF OneWays, OneWay, Done
      <4> HIDE DEF cur
      <4> QED
        BY <3>1, <4>1 DEF Agreed, Unanswered, Unfound
    <3>5. x # "ok" => ~ Agreed("ok")'
      <4> HIDE DEF cur
      <4> QED
        BY <2>3, <2>5, <2>7, <3>4 DEF Agreed, RepliesTo
    <3>6. call = "mode" => arg # "none"
      BY <1>v DEF StateOfCall
    <3> QED
      BY <2>1, <2>3, <2>8, <3>3, <3>5, <3>6 DEF FilterSet, FilterCalls
  <2>10. CASE reqs[k].call \notin FilterCalls
    <3>1. hostFilter' = hostFilter
      BY <2>2, <2>10
    <3>2. call \in FilterCalls /\ rpc = "wait" => k # cur
      BY <1>c, <2>10
    <3>3. call \in FilterCalls /\ rpc = "wait" /\ Agreed("ok")' => Agreed("ok")
      <4> HIDE DEF cur
      <4> QED
        BY <2>3, <2>6, <2>7, <3>2 DEF Agreed, RepliesTo
    <3> QED
      BY <2>1, <2>3, <2>8, <3>1, <3>3 DEF FilterSet
  <2> QED
    BY <2>9, <2>10
<1>20. ASSUME HostLinkChanges PROVE FilterOfCall'
  <2> SUFFICES ASSUME ~ lapsed' PROVE OneFilter' /\ FilterSet'
    BY DEF FilterOfCall
  <2>1. OneFilter /\ FilterSet
    BY <1>v, <1>20 DEF HostLinkChanges, FilterOfCall
  <2>2. UNCHANGED <<toHost, pending, thread, rstate, running, hostFilter, reqs, found>>
        /\ cur' = cur
    BY <1>20 DEF HostLinkChanges, cur
  <2>3. OneFilter'
    BY <2>1, <2>2, OneFilterStays DEF Unsent, Sent
  <2>4. Range(fromHost') \cap RepliesTo(cur) \subseteq Range(fromHost)
    <3> DEFINE m == [type |-> "link", up |-> ~ hostLink]
    <3>1. m \in InMessages /\ m \notin RepliesTo(cur) /\ fromHost' = Append(fromHost, m)
      BY <1>r, <1>20 DEF HostLinkChanges, InMessages, RndisMessages, RepliesTo
    <3> HIDE DEF m
    <3> QED
      BY <1>r, <3>1, AppendRange
  <2>5. Agreed("ok")' => Agreed("ok")
    BY <2>2, <2>4, AgreedBefore
  <2> QED
    BY <2>1, <2>2, <2>3, <2>5, FilterSetStays
<1> QED
  BY <1>1, <1>2, <1>3, <1>4, <1>5, <1>6, <1>7, <1>8, <1>9, <1>10, <1>11, <1>12, <1>13,
     <1>14, <1>15, <1>16, <1>17, <1>18, <1>19, <1>20 DEF Taking

\* A step that tells nothing of the link.
LEMMA LinkStays ==
  ASSUME LinkOfCall, hostLink' = hostLink,
         Final(fromHost', Downs, Links) => Final(fromHost, Downs, Links),
         Informed' /\ ~ carrier' => Informed /\ ~ carrier /\ (NoNews' => NoNews)
  PROVE  LinkOfCall'
<1>1. Downs' = Downs /\ Links' = Links
  BY DEF Downs, Links
<1> QED
  BY <1>1 DEF LinkOfCall

\* A step that leaves the inbound ring alone.
LEMMA LinkUnread ==
  ASSUME LinkOfCall, hostLink' = hostLink, fromHost' = fromHost,
         Informed' /\ ~ carrier' => Informed /\ ~ carrier
  PROVE  LinkOfCall'
<1>1. NoNews' => NoNews
  BY DEF NoNews, Links
<1> QED
  BY <1>1, LinkStays

\* An answer that was read is believed as the one in the ring was.
LEMMA InformedBefore ==
  ASSUME UNCHANGED <<call, rpc, linkDown>>, cur' = cur, reqs'[cur] = reqs[cur],
         found' \subseteq found, Informed'
  PROVE  Informed
<1> HIDE DEF cur
<1> QED
  BY DEF Informed, Attached

\* Once it is attached the interface takes the link for down only while it is.
LEMMA LinkOfCallKept ==
  ASSUME IInv, IntInv, Apart \/ Taking
  PROVE  LinkOfCall'
<1>t. NetVscTypeOK /\ RingTypes /\ FilterTypes /\ IndexTypes
  BY TypeParts DEF IInv
<1>v. /\ OneWays /\ Found /\ Numbered /\ InHand /\ StateOfCall /\ FilterOfCall /\ LinkOfCall
  BY DEF IInv, RInv, IntInv
<1>r. /\ reqs \in Seq(Requests) /\ rstate \in DeviceStates
      /\ {extension, macResult, linkDown, carrier, running, hostLink, lapsed} \subseteq BOOLEAN
      /\ rpc \in {"idle", "get", "send", "wait"} /\ arg \in Filters
      /\ toHost \in Seq(OutMessages) /\ fromHost \in Seq(InMessages)
  BY <1>t DEF FilterTypes, RingTypes
<1>c. rpc \in {"send", "wait"} => cur # 0 /\ cur \in DOMAIN reqs /\ reqs[cur].call = call
                                /\ reqs[cur].arg = arg
  BY <1>r, <1>v, RequestShape DEF InHand, Busy
<1>u. DOMAIN reqs = 1 .. cur /\ cur \in Nat /\ \A i \in DOMAIN reqs : reqs[i] \in Requests
  BY <1>r, RequestShape
<1>i. /\ call \in Resting => rpc = "idle"
      /\ rpc # "idle" => call \in {"open", "close", "mode", "init", "mac", "link", "halt"}
  BY <1>t, <1>v DEF InHand, FilterTypes, RequestCalls, FilterCalls, Resting
<1> USE DEF netvscRest, netvscVars, memory, answers, rings, rndisVars, thread, device, interface,
            host, gone, At, Fails, Sends, InnerFrame
<1>1. ASSUME Apart PROVE LinkOfCall'
  <2>1. UNCHANGED <<call, rpc, linkDown, carrier, reqs, found, hostLink>> /\ cur' = cur
    BY <1>1 DEF Apart, cur
  <2>2. Informed' => Informed
    BY <2>1, InformedBefore
  <2>3. Final(fromHost', Downs, Links) => Final(fromHost, Downs, Links)
    BY <1>t, <1>1, ApartRings
  <2>4. Informed => call \notin {"none", "removed"}
    BY DEF Informed, Attached, FilterCalls
  <2>5. call \notin {"none", "removed"} => (NoNews' => NoNews)
    <3>1. Links \subseteq News
      BY DEF News
    <3>2. Links' = Links
      BY DEF Links
    <3> QED
      BY <1>t, <1>1, <3>1, <3>2, ApartRings DEF NoNews
  <2> QED
    BY <1>v, <2>1, <2>2, <2>3, <2>4, <2>5, LinkStays
<1>2. ASSUME Remove PROVE LinkOfCall'
  <2>1. fromHost' = fromHost /\ hostLink' = hostLink
    BY <1>2 DEF Remove
  <2>2. Informed' /\ ~ carrier' => Informed /\ ~ carrier
    BY <1>i, <1>r, <1>v, <1>2 DEF Remove, Informed, Attached, FilterCalls, Resting
  <2> QED
    BY <1>v, <2>1, <2>2, LinkUnread
<1>3. ASSUME DeviceAdd PROVE LinkOfCall'
  <2>1. fromHost' = fromHost /\ hostLink' = hostLink
    BY <1>3 DEF DeviceAdd
  <2>2. Informed' /\ ~ carrier' => Informed /\ ~ carrier
    BY <1>i, <1>r, <1>v, <1>3 DEF DeviceAdd, Informed, Attached, FilterCalls, Resting
  <2> QED
    BY <1>v, <2>1, <2>2, LinkUnread
<1>4. ASSUME GetRequest PROVE LinkOfCall'
  <2>1. UNCHANGED <<fromHost, hostLink, carrier, call, linkDown>> /\ rpc' = "send"
    BY <1>4 DEF GetRequest
  <2>2. Informed' => Informed
    BY <2>1 DEF Informed, Attached
  <2> QED
    BY <1>v, <2>1, <2>2, LinkUnread
<1>5. ASSUME SendRequest PROVE LinkOfCall'
  <2>1. fromHost' = fromHost /\ hostLink' = hostLink /\ carrier' = carrier /\ rpc = "send"
    BY <1>5 DEF SendRequest, Outcome
  <2>2. CASE call = "halt"
    <3>1. call' = "remove"
      BY <1>5, <2>2 DEF SendRequest, Outcome
    <3>2. ~ Informed'
      BY <3>1 DEF Informed, Attached, FilterCalls
    <3> QED
      BY <1>v, <2>1, <3>2, LinkUnread
  <2>3. CASE call # "halt"
    <3>1. UNCHANGED <<call, reqs, found, linkDown>> /\ cur' = cur
      BY <1>5, <2>3 DEF SendRequest, cur
    <3>2. ~ reqs[cur].set /\ Unfound(cur)
      BY <1>v, <2>1 DEF InHand, Done
    <3>3. Informed' => Informed
      <4> HIDE DEF cur
      <4> QED
        BY <3>1, <3>2 DEF Informed, Attached, Unfound
    <3> QED
      BY <1>v, <2>1, <3>3, LinkUnread
  <2> QED
    BY <2>2, <2>3
<1>6. ASSUME SendRequestFails PROVE LinkOfCall'
  <2>1. fromHost' = fromHost /\ hostLink' = hostLink /\ carrier' = carrier /\ linkDown' = linkDown
        /\ rpc # "idle"
    BY <1>6 DEF SendRequestFails, Outcome
  <2>2. PICK ok \in BOOLEAN : Outcome(ok)
    BY <1>6 DEF SendRequestFails
  <2>3. /\ rpc' # "wait" /\ (call \in FilterCalls \/ call' \notin {"ready"} \cup FilterCalls)
        /\ (call' = "attach" => call = "link")
    BY <1>i, <2>1, <2>2 DEF Outcome, FilterCalls
  <2>4. call = "link" => ~ linkDown
    BY <1>v DEF StateOfCall
  <2>5. Informed' => Informed
    BY <2>1, <2>3, <2>4 DEF Informed, Attached
  <2> QED
    BY <1>v, <2>1, <2>5, LinkUnread
<1>7. ASSUME Answered PROVE LinkOfCall'
  <2>1. fromHost' = fromHost /\ hostLink' = hostLink /\ carrier' = carrier /\ rpc = "wait"
        /\ reqs[cur].set
        /\ linkDown' = IF call = "link" THEN reqs[cur].answer = "down" ELSE linkDown
    BY <1>7 DEF Answered, Outcome
  <2>2. PICK ok \in BOOLEAN : Outcome(ok)
    BY <1>7 DEF Answered
  <2>3. /\ rpc' # "wait" /\ (call \in FilterCalls \/ call' \notin {"ready"} \cup FilterCalls)
        /\ (call' = "attach" => call = "link")
    BY <1>i, <2>1, <2>2 DEF Outcome, FilterCalls
  <2>4. Informed' => Informed
    <3> HIDE DEF cur
    <3> QED
      BY <2>1, <2>3 DEF Informed, Attached
  <2> QED
    BY <1>v, <2>1, <2>4, LinkUnread
<1>8. ASSUME TimeOut PROVE LinkOfCall'
  <2>1. fromHost' = fromHost /\ hostLink' = hostLink /\ carrier' = carrier /\ linkDown' = linkDown
        /\ rpc # "idle"
    BY <1>8 DEF TimeOut, Outcome
  <2>2. PICK ok \in BOOLEAN : Outcome(ok)
    BY <1>8 DEF TimeOut
  <2>3. /\ rpc' # "wait" /\ (call \in FilterCalls \/ call' \notin {"ready"} \cup FilterCalls)
        /\ (call' = "attach" => call = "link")
    BY <1>i, <2>1, <2>2 DEF Outcome, FilterCalls
  <2>4. call = "link" => ~ linkDown
    BY <1>v DEF StateOfCall
  <2>5. Informed' => Informed
    BY <2>1, <2>3, <2>4 DEF Informed, Attached
  <2> QED
    BY <1>v, <2>1, <2>5, LinkUnread
<1>9. ASSUME Interrupted PROVE LinkOfCall'
  <2>1. fromHost' = fromHost /\ hostLink' = hostLink /\ carrier' = carrier /\ linkDown' = linkDown
        /\ rpc # "idle"
    BY <1>9 DEF Interrupted, Outcome
  <2>2. PICK ok \in BOOLEAN : Outcome(ok)
    BY <1>9 DEF Interrupted
  <2>3. /\ rpc' # "wait" /\ (call \in FilterCalls \/ call' \notin {"ready"} \cup FilterCalls)
        /\ (call' = "attach" => call = "link")
    BY <1>i, <2>1, <2>2 DEF Outcome, FilterCalls
  <2>4. call = "link" => ~ linkDown
    BY <1>v DEF StateOfCall
  <2>5. Informed' => Informed
    BY <2>1, <2>3, <2>4 DEF Informed, Attached
  <2> QED
    BY <1>v, <2>1, <2>5, LinkUnread
<1>10. ASSUME Attach PROVE LinkOfCall'
  <2>1. fromHost' = fromHost /\ hostLink' = hostLink
    BY <1>10 DEF Attach
  <2>2. Informed' /\ ~ carrier' => Informed /\ ~ carrier
    <3>1. call = "attach" /\ call' \in {"ready", "failed"} /\ (call' = "ready" => macResult)
          /\ (~ carrier' => ~ carrier /\ ~ (macResult /\ ~ linkDown))
      BY <1>r, <1>10 DEF Attach
    <3> QED
      BY <3>1 DEF Informed, Attached, FilterCalls
  <2> QED
    BY <1>v, <2>1, <2>2, LinkUnread
<1>11. ASSUME Up PROVE LinkOfCall'
  <2>1. fromHost' = fromHost /\ hostLink' = hostLink
    BY <1>11 DEF Up, OpenDevice, Calls
  <2>2. Informed' /\ ~ carrier' => Informed /\ ~ carrier
    BY <1>i, <1>r, <1>v, <1>11 DEF Up, OpenDevice, Calls, Informed, Attached, FilterCalls, Resting
  <2> QED
    BY <1>v, <2>1, <2>2, LinkUnread
<1>12. ASSUME Stop PROVE LinkOfCall'
  <2>1. fromHost' = fromHost /\ hostLink' = hostLink
    BY <1>12 DEF Stop, CloseDevice, Calls
  <2>2. Informed' /\ ~ carrier' => Informed /\ ~ carrier
    BY <1>i, <1>r, <1>v, <1>12 DEF Stop, CloseDevice, Calls, Informed, Attached, FilterCalls,
       Resting
  <2> QED
    BY <1>v, <2>1, <2>2, LinkUnread
<1>13. ASSUME SetMode PROVE LinkOfCall'
  <2>1. fromHost' = fromHost /\ hostLink' = hostLink
    BY <1>13 DEF SetMode, Calls
  <2>2. Informed' /\ ~ carrier' => Informed /\ ~ carrier
    BY <1>i, <1>r, <1>v, <1>13 DEF SetMode, Calls, Informed, Attached, FilterCalls, Resting
  <2> QED
    BY <1>v, <2>1, <2>2, LinkUnread
<1>14. ASSUME Halt PROVE LinkOfCall'
  <2>1. fromHost' = fromHost /\ hostLink' = hostLink
    BY <1>14 DEF Halt
  <2>2. Informed' /\ ~ carrier' => Informed /\ ~ carrier
    BY <1>i, <1>r, <1>v, <1>14 DEF Halt, Informed, Attached, FilterCalls, Resting
  <2> QED
    BY <1>v, <2>1, <2>2, LinkUnread
<1>15. ASSUME ReceiveResponse PROVE LinkOfCall'
  <2>1. /\ UNCHANGED <<hostLink, carrier, call, rpc, linkDown, reqs>> /\ cur' = cur
        /\ found = {} /\ fromHost # <<>> /\ fromHost' = Tail(fromHost)
    BY <1>15 DEF ReceiveResponse, Receives, cur
  <2> DEFINE m == Head(fromHost)
  <2>2. /\ m.of \in DOMAIN reqs /\ m \in RepliesTo(m.of)
        /\ found' \subseteq {[req |-> m.of, of |-> m.of, answer |-> m.answer]}
    BY <1>t, <1>r, <1>v, <1>15, ResponseFinds
  <2>3. /\ Final(fromHost', Downs, Links) => Final(fromHost, Downs, Links)
        /\ m \in Downs /\ Range(fromHost') \cap Links = {} => Final(fromHost, Downs, Links)
    BY <1>r, <2>1, FinalTail
  <2>4. m \notin Links /\ (m.answer = "down" => m \in Downs)
    <3>1. \A k \in Nat : \A y \in RepliesTo(k) : y \notin Links
          /\ (y.answer = "down" => y \in Downs)
      BY DEF RepliesTo, Links, Downs
    <3>2. m.of \in Nat
      BY <1>u, <2>2
    <3> QED
      BY <2>2, <3>1, <3>2
  <2>5. Range(fromHost) = Range(fromHost') \cup {m}
    BY <1>r, <2>1, TailRange
  <2> HIDE DEF m
  <2>6. Links' = Links /\ Downs' = Downs
    BY DEF Links, Downs
  <2>7. NoNews' => NoNews
    BY <2>4, <2>5, <2>6 DEF NoNews
  <2>8. Informed' => Informed \/ m.answer = "down"
    <3> HIDE DEF cur
    <3> QED
      BY <2>1, <2>2 DEF Informed, Attached
  <2>9. m.answer = "down" /\ NoNews' => ~ hostLink
    BY <1>v, <2>3, <2>4, <2>6 DEF NoNews, LinkOfCall
  <2> QED
    BY <1>v, <2>1, <2>3, <2>6, <2>7, <2>8, <2>9 DEF LinkOfCall
<1>16. ASSUME Wake PROVE LinkOfCall'
  <2>1. UNCHANGED <<fromHost, hostLink, carrier, call, rpc, linkDown>> /\ found' = {}
    BY <1>16 DEF Wake
  <2>2. /\ cur' = cur
        /\ \E f \in found :
              /\ reqs'[f.of].set /\ reqs'[f.of].answer = f.answer
              /\ \A i \in DOMAIN reqs \ {f.of} : reqs'[i] = reqs[i]
    BY <1>r, <1>v, <1>16, WakeEffect DEF SameCount, cur
  <2>3. Informed' => Informed
    <3> HIDE DEF cur
    <3> QED
      BY <1>c, <2>1, <2>2 DEF Informed, Attached
  <2> QED
    BY <1>v, <2>1, <2>3, LinkUnread
<1>17. ASSUME ReceiveIndicateStatus PROVE LinkOfCall'
  <2> DEFINE m == Head(fromHost)
  <2>1. /\ UNCHANGED <<hostLink, call, rpc, linkDown, reqs, found>> /\ cur' = cur
        /\ fromHost # <<>> /\ fromHost' = Tail(fromHost) /\ m.type = "link"
        /\ (LetIn => carrier' = m.up) /\ (~ LetIn => carrier' = carrier)
    BY <1>17 DEF ReceiveIndicateStatus, Receives, cur
  <2>2. /\ Final(fromHost', Downs, Links) => Final(fromHost, Downs, Links)
        /\ m \in Downs /\ Range(fromHost') \cap Links = {} => Final(fromHost, Downs, Links)
    BY <1>r, <2>1, FinalTail
  <2>3. ~ m.up => m \in Downs
    <3>1. m \in InMessages
      BY <1>r, <2>1, TailShape
    <3> QED
      BY <2>1, <3>1 DEF InMessages, Completions, NvspAnswers, RndisCompletions, RndisMessages,
         Downs
  <2> HIDE DEF m
  <2>4. Links' = Links /\ Downs' = Downs
    BY DEF Links, Downs
  <2>5. Informed' => Informed
    BY <2>1, InformedBefore
  <2>6. Informed => LetIn
    <3> HIDE DEF cur
    <3> QED
      BY <1>v DEF Informed, LetIn, StateOfCall, Attached, Unfound
  <2> QED
    BY <1>v, <2>1, <2>2, <2>3, <2>4, <2>5, <2>6 DEF LinkOfCall, NoNews
<1>18. ASSUME HostTakesRndis PROVE LinkOfCall'
  <2> DEFINE m == Completion(Head(toHost).of)
  <2>1. /\ UNCHANGED <<hostLink, carrier, call, rpc, linkDown, reqs, found>> /\ cur' = cur
        /\ fromHost' = Append(fromHost, m) /\ toHost # <<>> /\ Head(toHost).type = "rndis"
    BY <1>18 DEF HostTakesRndis, Completion, cur
  <2>2. Head(toHost).of \in DOMAIN reqs
    BY <1>r, <2>1, TailShape, OutKinds
  <2>3. m \in InMessages /\ m \notin Links /\ m \notin Downs
    BY <2>2 DEF InMessages, RndisCompletions, Completion, Links, Downs
  <2> HIDE DEF m
  <2>4. Final(fromHost', Downs, Links) => Final(fromHost, Downs, Links)
    BY <1>r, <2>1, <2>3, FinalAppend
  <2>5. NoNews' => NoNews
    <3>1. Range(fromHost') = Range(fromHost) \cup {m}
      BY <1>r, <2>1, <2>3, AppendRange
    <3> QED
      BY <3>1 DEF NoNews, Links
  <2>6. Informed' => Informed
    BY <2>1, InformedBefore
  <2> QED
    BY <1>v, <2>1, <2>4, <2>5, <2>6, LinkStays
<1>19. ASSUME HostAnswers PROVE LinkOfCall'
  <2>1. /\ UNCHANGED <<hostLink, carrier, call, rpc, linkDown, reqs, found>> /\ cur' = cur
    BY <1>19 DEF HostAnswers, cur
  <2>0. PICK k \in pending : \E x \in AnswersTo(reqs[k].call) :
          fromHost' = Append(fromHost, [type |-> "response", of |-> k, id |-> reqs[k].id,
                                        answer |-> x])
    BY <1>19 DEF HostAnswers
  <2>2. PICK x \in AnswersTo(reqs[k].call) :
          fromHost' = Append(fromHost, [type |-> "response", of |-> k, id |-> reqs[k].id,
                                        answer |-> x])
    BY <2>0
  <2> DEFINE m == [type |-> "response", of |-> k, id |-> reqs[k].id, answer |-> x]
  <2>3. x \in Answers /\ (x = "down" => ~ hostLink)
    BY DEF AnswersTo, Answers
  <2>4. k \in DOMAIN reqs /\ reqs[k].id \in Nat
    BY <1>t, <1>u DEF IndexTypes, Requests
  <2>5. m \in InMessages /\ m \notin Links /\ (m \in Downs => x = "down")
    BY <2>3, <2>4 DEF InMessages, RndisMessages, Links, Downs
  <2>6. fromHost' = Append(fromHost, m)
    BY <2>2
  <2> HIDE DEF m
  <2>7. Final(fromHost', Downs, Links) => ~ hostLink
    BY <1>r, <1>v, <2>3, <2>5, <2>6, FinalAppend DEF LinkOfCall
  <2>8. NoNews' => NoNews
    <3>1. Range(fromHost') = Range(fromHost) \cup {m}
      BY <1>r, <2>5, <2>6, AppendRange
    <3> QED
      BY <3>1 DEF NoNews, Links
  <2>9. Informed' => Informed
    BY <2>1, InformedBefore
  <2>10. Links' = Links /\ Downs' = Downs
    BY DEF Links, Downs
  <2> QED
    BY <1>v, <2>1, <2>7, <2>8, <2>9, <2>10 DEF LinkOfCall
<1>20. ASSUME HostLinkChanges PROVE LinkOfCall'
  <2> DEFINE m == [type |-> "link", up |-> ~ hostLink]
  <2>1. fromHost' = Append(fromHost, m) /\ hostLink' = ~ hostLink
    BY <1>20 DEF HostLinkChanges
  <2>2. m \in InMessages /\ m \in Links /\ (m \in Downs => hostLink)
    BY <1>r DEF InMessages, RndisMessages, Links, Downs
  <2> HIDE DEF m
  <2>3. Final(fromHost', Downs, Links) => ~ hostLink'
    BY <1>r, <2>1, <2>2, FinalAppend
  <2>4. ~ NoNews'
    <3>1. Range(fromHost') = Range(fromHost) \cup {m}
      BY <1>r, <2>1, <2>2, AppendRange
    <3> QED
      BY <2>2, <3>1 DEF NoNews, Links
  <2>5. Links' = Links /\ Downs' = Downs
    BY DEF Links, Downs
  <2> QED
    BY <2>3, <2>4, <2>5 DEF LinkOfCall
<1> QED
  BY <1>1, <1>2, <1>3, <1>4, <1>5, <1>6, <1>7, <1>8, <1>9, <1>10, <1>11, <1>12, <1>13,
     <1>14, <1>15, <1>16, <1>17, <1>18, <1>19, <1>20 DEF Taking

\* Every step keeps the conjuncts about the interface.
LEMMA InterfaceKept == IInv /\ IntInv /\ Next => IntInv'
<1> SUFFICES ASSUME IInv, IntInv, Next PROVE IntInv'
  OBVIOUS
<1>1. Apart \/ Taking
  BY TypeParts, ApartSteps DEF IInv, BInv
<1> QED
  BY <1>1, StateOfCallKept, FilterOfCallKept, LinkOfCallKept DEF IntInv

-----------------------------------------------------------------------------
(* The theorems.                                                           *)

\* At first nothing is under way.
LEMMA Beginning == Init => IInv
<1> SUFFICES ASSUME Init PROVE IInv
  OBVIOUS
<1>1. /\ step = "open" /\ buf = "recv" /\ goal = "add" /\ channelOpen = FALSE
      /\ allocated = [b \in Buffers |-> FALSE] /\ handle = [b \in Buffers |-> FALSE]
      /\ sections = [b \in Buffers |-> 0]
      /\ mapped = [b \in Buffers |-> FALSE] /\ inUse = [b \in Buffers |-> FALSE]
      /\ initPacket = [type |-> "none"] /\ initEvent = FALSE
      /\ toHost = <<>> /\ fromHost = <<>> /\ refused = 0 /\ kept = {}
  BY DEF Init, NetVscInitState
<1>2. /\ rstate = "UNINITIALIZED" /\ extension = FALSE /\ newRequestId = 0
      /\ reqs = <<>> /\ call = "none" /\ rpc = "idle" /\ arg = "none"
      /\ macResult = FALSE /\ linkDown = FALSE /\ carrier = FALSE /\ running = FALSE
      /\ found = {} /\ pending = {} /\ hostFilter = "none" /\ hostLink \in BOOLEAN
      /\ calls = 0 /\ changes = 0
      /\ overdue = {} /\ interrupted = {} /\ lapsed = FALSE
  BY DEF Init
<1>3. DOMAIN reqs = {} /\ DOMAIN toHost = {} /\ DOMAIN fromHost = {} /\ cur = 0
      /\ reqs \in Seq(Requests)
  BY <1>1, <1>2, EmptySeq DEF cur
<1>4. NetVscTypeOK
  <2>1. step \in NetVscSteps /\ buf \in Buffers /\ goal \in {"add", "fail", "remove"}
    BY <1>1 DEF NetVscSteps, Buffers
  <2>2. {channelOpen, initEvent} \subseteq BOOLEAN
    BY <1>1
  <2>3. {allocated, handle, mapped, inUse} \subseteq [Buffers -> BOOLEAN]
    BY <1>1
  <2>4. sections \in [Buffers -> 0 .. 2] /\ refused \in 0 .. MaxRefused /\ kept \subseteq Buffers
    BY <1>1, MaxRefusedAssumption
  <2> QED
    BY <1>1, <2>1, <2>2, <2>3, <2>4 DEF NetVscTypeOK
<1>5. RingTypes
  BY <1>1, EmptySeq DEF RingTypes
<1>6. FilterTypes
  <2>1. {extension, macResult, linkDown, carrier, running, hostLink, lapsed} \subseteq BOOLEAN
    BY <1>2
  <2>2. calls \in 0 .. MaxCalls /\ changes \in 0 .. MaxChanges
    BY <1>2, BoundsAssumption
  <2> QED
    BY <1>2, <1>3, <2>1, <2>2 DEF FilterTypes, DeviceStates, Filters
<1>7. IndexTypes
  BY <1>2, <1>3, FS_EmptySet, BoundsAssumption DEF IndexTypes
<1>8. Range(toHost) = {} /\ Range(fromHost) = {}
  BY <1>3 DEF Range
<1>9. AskedOnce
  BY <1>1, <1>3, <1>8 DEF AskedOnce, Once
<1>10. SettingUp /\ Goals /\ TakenBack /\ LeftBehind
  BY <1>1, <1>2 DEF SettingUp, Untouched, Goals, TakenBack, Revoked, LeftBehind, Known, Buffers
<1>11. RInv
  <2>1. OneWays /\ Found
    BY <1>2, <1>3 DEF OneWays, Found
  <2>2. Numbered /\ ListedIsAwaited
    BY <1>3, <1>8 DEF Numbered, ListedIsAwaited
  <2>3. InHand
    BY <1>2 DEF InHand, Busy
  <2> QED
    BY <2>1, <2>2, <2>3 DEF RInv
<1> QED
  BY <1>4, <1>5, <1>6, <1>7, <1>9, <1>10, <1>11, TypeParts DEF IInv, BInv

\* A step that changes nothing keeps the invariant.
LEMMA Stuttering == IInv /\ UNCHANGED vars => IInv'
<1> SUFFICES ASSUME IInv, UNCHANGED vars PROVE IInv'
  OBVIOUS
<1> USE DEF vars, netvscVars, memory, answers, rings, rndisVars, thread, device, interface,
            host, gone
<1>1. TypeOK'
  BY DEF IInv, TypeOK, NetVscTypeOK, RndisCompletions, RndisMessages
<1>2. AskedOnce'
  BY DEF IInv, BInv, AskedOnce, Waits, Asks, Replies
<1>3. SettingUp' /\ Goals' /\ LeftBehind'
  BY DEF IInv, BInv, SettingUp, Untouched, Goals, LeftBehind, Known
<1>4. TakenBack'
  BY DEF IInv, BInv, TakenBack, Revoked
<1>5. OneWays'
  BY DEF IInv, RInv, OneWays, OneWay, Done, Unsent, NotCompleting, Unanswered, Unfound, Sent,
         Completion, RepliesTo
<1>6. Found' /\ Numbered'
  BY DEF IInv, RInv, Found, Numbered
<1>7. InHand'
  BY DEF IInv, RInv, InHand, Busy, cur, Done, Unsent, NotCompleting, Unanswered, Unfound, Sent,
         Completion, RepliesTo
<1>8. ListedIsAwaited'
  BY DEF IInv, RInv, ListedIsAwaited, Busy, cur
<1> QED
  BY <1>1, <1>2, <1>3, <1>4, <1>5, <1>6, <1>7, <1>8 DEF IInv, BInv, RInv

\* Every step keeps the invariant.
LEMMA Kept == IInv /\ [Next]_vars => IInv'
<1> SUFFICES ASSUME IInv, Next PROVE IInv'
  BY Stuttering
<1>1. /\ NetVscTypeOK /\ RingTypes /\ FilterTypes /\ IndexTypes /\ BInv /\ RInv
      /\ AskedOnce /\ Found /\ InHand /\ Numbered
  BY TypeParts DEF IInv, BInv, RInv
<1>2. BInv' /\ RInv'
  BY <1>1, BuffersKept, RequestsKept
<1>3. NetVscTypeOK' /\ RingTypes' /\ FilterTypes'
  BY <1>1, NetVscTypesKept, RingTypesKept, FilterTypesKept
<1>4. IndexTypes'
  BY <1>1, QuietSteps, IndexTypesKept
<1>5. (TypeOK <=> NetVscTypeOK /\ RingTypes /\ FilterTypes /\ IndexTypes)'
  BY TypeParts, PTL
<1> QED
  BY <1>2, <1>3, <1>4, <1>5 DEF IInv

\* The invariant of the network channel and of the requests.
THEOREM Inductive == Spec => []IInv
BY Beginning, Kept, PTL DEF Spec

\* Whichever of its calls fail, and at whatever moment the host answers, the thread that
\* brings a network channel up and down never has the host reach pages it freed, loses no
\* pages but those NetVscDestroyReceiveBuffer names, and takes no answer for another.
THEOREM BuffersSafe == Spec => []BufferInv
<1>1. ASSUME IInv PROVE BufferInv
  <2>1. NetVscTypeOK /\ RingTypes /\ AskedOnce /\ TakenBack /\ LeftBehind
    BY <1>1, TypeParts DEF IInv, BInv
  <2>2. MappedHasPages
    BY <2>1 DEF TakenBack, MappedHasPages
  <2>3. UseEndsWithMapping
    <3>1. \A b \in Buffers : Revoked(b) \/ mapped[b]
      BY <2>1 DEF TakenBack
    <3>2. \A b \in Buffers :
            [type |-> "revoke", b |-> b] \in Range(toHost) => RevokePending(b)
      BY DEF Range, RevokePending
    <3> QED
      BY <3>1, <3>2 DEF Revoked, UseEndsWithMapping
  <2>4. LeaksAreKnown
    BY <2>1 DEF LeftBehind, Known, LeaksAreKnown
  <2>5. AnswersFit
    BY <2>1 DEF AskedOnce, Waits, NetVscTypeOK, Completions, NvspAnswers, AnswersFit
  <2> QED
    BY <2>1, <2>2, <2>3, <2>4, <2>5 DEF BufferInv
<1> QED
  BY <1>1, Inductive, PTL

\* A request of the RNDIS filter is in the list exactly while it is awaited or after it
\* timed out, is given its own response however late that comes, and is not reached by the
\* callback or a send completion once it is freed - but by the two the code frees early.
THEOREM RequestsSafe == Spec => []RequestInv
<1>1. ASSUME IInv PROVE RequestInv
  <2>1. TypeOK /\ OneWays /\ Found /\ ListedIsAwaited
    BY <1>1 DEF IInv, RInv
  <2>2. AnswersGoHome
    BY <2>1 DEF Found, AnswersGoHome
  <2>3. FreedIsUnreached
    <3>1. \A i : Unsent(i) /\ NotCompleting(i) => ~ Outstanding(i)
      BY DEF Unsent, NotCompleting, Sent, Completion, Outstanding, Range
    <3>2. \A i \in DOMAIN reqs :
            reqs[i].freed /\ i \notin interrupted /\ reqs[i].call # "halt" => Done(i)
      BY <2>1 DEF OneWays, OneWay
    <3>3. \A i : Unfound(i) => \A f \in found : f.req # i
      BY <2>1 DEF Found, Unfound
    <3> QED
      BY <3>1, <3>2, <3>3 DEF Done, FreedIsUnreached
  <2> QED
    BY <2>1, <2>2, <2>3 DEF RequestInv
<1> QED
  BY <1>1, Inductive, PTL

\* What the interface goes by is so as well.
THEOREM InterfaceInductive == Spec => [](IInv /\ IntInv)
<1>1. Init => IInv /\ IntInv
  <2> SUFFICES ASSUME Init PROVE IInv /\ IntInv
    OBVIOUS
  <2>1. IInv
    BY Beginning
  <2>2. /\ reqs = <<>> /\ call = "none" /\ rpc = "idle" /\ macResult = FALSE
        /\ linkDown = FALSE /\ running = FALSE /\ fromHost = <<>>
    BY DEF Init, NetVscInitState
  <2>3. DOMAIN reqs = {} /\ DOMAIN fromHost = {}
    BY <2>2
  <2>4. StateOfCall
    BY <2>2 DEF StateOfCall, Attached, FilterCalls, Busy
  <2>5. FilterOfCall
    BY <2>2, <2>3 DEF FilterOfCall, OneFilter, FilterSet, FilterCalls
  <2>6. LinkOfCall
    BY <2>2, <2>3 DEF LinkOfCall, Final, Informed, Attached, FilterCalls
  <2> QED
    BY <2>1, <2>4, <2>5, <2>6 DEF IntInv
<1>2. IInv /\ IntInv /\ UNCHANGED vars => IntInv'
  <2> SUFFICES ASSUME IntInv, UNCHANGED vars PROVE IntInv'
    OBVIOUS
  <2> USE DEF vars, netvscVars, memory, answers, rings, rndisVars, thread, device, interface,
              host, gone, IntInv
  <2>1. StateOfCall'
    BY DEF StateOfCall, Attached, Busy, cur, Unfound
  <2>2. FilterOfCall'
    BY DEF FilterOfCall, OneFilter, FilterSet, Agreed, RepliesTo, Unsent, Sent, cur
  <2>3. LinkOfCall'
    BY DEF LinkOfCall, Downs, Links, Informed, Attached, NoNews, cur
  <2> QED
    BY <2>1, <2>2, <2>3
<1>3. (IInv /\ IntInv) /\ [Next]_vars => (IInv /\ IntInv)'
  BY <1>2, Kept, InterfaceKept
<1> QED
  BY <1>1, <1>3, PTL DEF Spec

\* Whatever the order of ups, downs, mode changes, failures and link indications, an
\* interface that is up has a packet filter in force at the host, unless a filter request
\* failed, and believes its link down only while it is.
THEOREM InterfaceTrue == Spec => []InterfaceInv
<1>1. ASSUME IInv, IntInv PROVE InterfaceInv
  <2>1. RunningHasFilter
    BY <1>1 DEF IntInv, FilterOfCall, FilterSet, RunningHasFilter
  <2>2. (\A k \in DOMAIN fromHost : fromHost[k].type # "link") => NoNews
    BY DEF NoNews, Links, Range
  <2>3. CarrierDownIsTrue
    BY <1>1, <2>2 DEF IntInv, LinkOfCall, Informed, Attached, CarrierDownIsTrue
  <2> QED
    BY <2>1, <2>3 DEF InterfaceInv
<1>2. IInv /\ IntInv => InterfaceInv
  BY <1>1
<1> QED
  BY <1>2, InterfaceInductive, PTL
=============================================================================
