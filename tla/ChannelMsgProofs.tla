--------------------------- MODULE ChannelMsgProofs ---------------------------
(***************************************************************************)
(* For any number of channels, bodies and retries: the list of requests    *)
(* has one entry for each call in progress, and a thread that waits for a  *)
(* GPADL or for an open has exactly one answer to come.  As long as no two *)
(* channels took the same handle the same holds of a teardown, and what    *)
(* the host can reach is allocated.                                        *)
(***************************************************************************)
EXTENDS ChannelMsg, TLAPS, SequenceTheorems, FiniteSetTheorems, NaturalsInduction,
        WellFoundedInduction

\* The requests of the three calls while they are in the list.
Sharing == {"header", "body", "shareWait", "shareEnd"}
Opening == {"openPost", "openWait", "openEnd"}
TearingDown == {"teardownPost", "teardownWait", "teardownEnd"}

\* One entry for each call in progress, and it says what the call is about.
Entries == {list[i] : i \in DOMAIN list}

OneEntryEach ==
  \A i, j \in DOMAIN list : list[i].chan = list[j].chan => i = j

EntryWhileRegistered ==
  \A c \in Channels :
    pc[c] # "panic" => (Registered(c) <=> \E e \in Entries : e.chan = c)

EntryOfCall ==
  \A e \in Entries :
    pc[e.chan] # "panic" =>
      \/ e.type = "gpadl" /\ e.gpadl = gpadl[e.chan] /\ pc[e.chan] \in Sharing
      \/ e.type = "open" /\ pc[e.chan] \in Opening
      \/ e.type = "teardown" /\ pc[e.chan] \in TearingDown

\* Of each thread: what the host still has to do for it is what it waits for.
Asked(c, t) == \E i \in DOMAIN toHost[c] : toHost[c][i].type = t

Answered(c, t) == \E a \in answers : a.type = t /\ a.chan = c

AskedOnce(c) ==
  \A i \in DOMAIN toHost[c] :
    /\ toHost[c][i].type = "gpadl" => pc[c] = "shareWait" /\ toHost[c][i].gpadl = gpadl[c]
    /\ toHost[c][i].type = "open" => pc[c] = "openWait"
    /\ \A j \in DOMAIN toHost[c] :
         toHost[c][i].type = toHost[c][j].type /\ toHost[c][i].type \in {"gpadl", "open"} => i = j

\* An answer on its way is the only sign of its request.
AnswerAlone(c) ==
  \A a \in answers : a.chan = c =>
    /\ a.type = "gpadl" =>
         pc[c] = "shareWait" /\ a.gpadl = gpadl[c] /\ ~event[c] /\ ~Asked(c, "gpadl")
    /\ a.type = "open" =>
         pc[c] = "openWait" /\ a.gpadl = NoHandle /\ ~event[c] /\ ~Asked(c, "open")

\* An event is never set before its request can be answered.
WokenAlone(c) ==
  /\ pc[c] \in {"header", "body", "openPost"} => ~event[c]
  /\ pc[c] = "shareWait" /\ event[c] => ~Asked(c, "gpadl")
  /\ pc[c] = "openWait" /\ event[c] => ~Asked(c, "open")

SomeAnswer(c) ==
  /\ pc[c] = "shareWait" => Asked(c, "gpadl") \/ event[c] \/ Answered(c, "gpadl")
  /\ pc[c] = "openWait" => Asked(c, "open") \/ event[c] \/ Answered(c, "open")

OneAnswer(c) == AskedOnce(c) /\ AnswerAlone(c) /\ WokenAlone(c) /\ SomeAnswer(c)

ListInv == OneEntryEach /\ EntryWhileRegistered /\ EntryOfCall
AnswerInv == \A c \in Channels : OneAnswer(c)
IInv == StateOK /\ ListInv /\ AnswerInv

-----------------------------------------------------------------------------
LEMMA RemoveOne ==
  ASSUME NEW S, NEW s \in Seq(S), NEW k \in DOMAIN s
  PROVE  /\ RemoveAt(s, k) \in Seq(S)
         /\ DOMAIN RemoveAt(s, k) = 1 .. (Len(s) - 1)
         /\ \A i \in 1 .. (Len(s) - 1) : RemoveAt(s, k)[i] = s[IF i < k THEN i ELSE i + 1]
<1> DEFINE a == SubSeq(s, 1, k - 1)
           b == SubSeq(s, k + 1, Len(s))
<1>1. Len(s) \in Nat /\ DOMAIN s = 1 .. Len(s) /\ k \in 1 .. Len(s)
  BY LenProperties
<1>2. /\ a \in Seq(S) /\ Len(a) = k - 1
      /\ \A i \in 1 .. k - 1 : a[i] = s[i]
  BY <1>1, SubSeqProperties, ElementOfSeq
<1>3. /\ b \in Seq(S) /\ Len(b) = Len(s) - k
      /\ \A i \in 1 .. Len(s) - k : b[i] = s[k + i]
  BY <1>1, SubSeqProperties, ElementOfSeq
<1> HIDE DEF a, b
<1>c. /\ a \o b \in Seq(S) /\ Len(a \o b) = Len(a) + Len(b)
      /\ \A i \in 1 .. Len(a) + Len(b) :
           (a \o b)[i] = IF i <= Len(a) THEN a[i] ELSE b[i - Len(a)]
  BY <1>2, <1>3, ConcatProperties
<1>n. Len(a) + Len(b) = Len(s) - 1
  BY <1>1, <1>2, <1>3
<1>4. /\ a \o b \in Seq(S) /\ Len(a \o b) = Len(s) - 1
      /\ \A i \in 1 .. Len(s) - 1 : (a \o b)[i] = IF i <= k - 1 THEN a[i] ELSE b[i - (k - 1)]
  BY <1>c, <1>n, <1>2
<1>5. DOMAIN (a \o b) = 1 .. Len(s) - 1
  BY <1>4, LenProperties
<1>6. ASSUME NEW i \in 1 .. Len(s) - 1
      PROVE  (a \o b)[i] = s[IF i < k THEN i ELSE i + 1]
  <2>1. CASE i < k
    <3>1. i \in 1 .. k - 1 /\ i <= k - 1
      BY <1>1, <2>1
    <3> QED BY <1>2, <1>4, <2>1, <3>1
  <2>2. CASE ~(i < k)
    <3>1. i - (k - 1) \in 1 .. Len(s) - k /\ ~(i <= k - 1) /\ k + (i - (k - 1)) = i + 1
      BY <1>1, <2>2
    <3> QED BY <1>3, <1>4, <2>2, <3>1
  <2> QED BY <2>1, <2>2
<1> QED
  BY <1>4, <1>5, <1>6 DEF RemoveAt, a, b


LEMMA RegisterTypes ==
  ASSUME StateOK, NEW c \in Channels, NEW t \in Types, NEW h \in Handles, Register(t, c, h)
  PROVE  list' \in Seq(Requests) /\ event' \in [Channels -> BOOLEAN]
<1>1. [type |-> t, chan |-> c, gpadl |-> h] \in Requests
  BY DEF Requests
<1>2. list \in Seq(Requests) /\ list' = Append(list, [type |-> t, chan |-> c, gpadl |-> h])
  BY DEF StateOK, Register
<1>3. list' \in Seq(Requests)
  BY <1>1, <1>2, AppendProperties
<1> QED
  BY <1>3 DEF StateOK, Register

LEMMA UnlinkTypes ==
  ASSUME StateOK, EntryWhileRegistered, NEW c \in Channels, Registered(c), Unlink(c)
  PROVE  /\ list' \in Seq(Requests)
         /\ \E k \in DOMAIN list : list[k].chan = c /\ list' = RemoveAt(list, k)
<1>1. \E i \in DOMAIN list : list[i].chan = c
  BY DEF EntryWhileRegistered, Registered, Entries
<1>2. PICK k \in DOMAIN list : list[k].chan = c /\ list' = RemoveAt(list, k)
  BY <1>1 DEF Unlink
<1>3. list \in Seq(Requests)
  BY DEF StateOK
<1>4. list' \in Seq(Requests)
  BY <1>2, <1>3, RemoveOne
<1> QED
  BY <1>2, <1>4

LEMMA AcceptedTypes ==
  ASSUME StateOK, NEW c \in Channels, NEW t \in Types \cup {"close"}, NEW h \in Handles,
         Accepted(c, t, h)
  PROVE  toHost' \in [Channels -> Seq(Messages)] /\ refused' \in 0 .. MaxRefused
<1>1. [type |-> t, gpadl |-> h] \in Messages
  BY DEF Messages
<1>2. toHost[c] \in Seq(Messages)
  BY DEF StateOK
<1>3. Append(toHost[c], [type |-> t, gpadl |-> h]) \in Seq(Messages)
  BY <1>1, <1>2, AppendProperties
<1> QED
  BY <1>3 DEF StateOK, Accepted

LEMMA RefusedTypes ==
  ASSUME StateOK, Refused
  PROVE  toHost' \in [Channels -> Seq(Messages)] /\ refused' \in 0 .. MaxRefused
BY BoundsAssumption DEF StateOK, Refused

LEMMA TypesKept == StateOK /\ EntryWhileRegistered /\ Next => StateOK'
<1> SUFFICES ASSUME StateOK, EntryWhileRegistered, Next PROVE StateOK'
  OBVIOUS
<1> USE DEF local, driver, host, Goto
<1>t. \A t \in {"gpadl", "open", "teardown"} : t \in Types /\ t \in Types \cup {"close"}
  BY DEF Types
<1>z. NoHandle \in Handles /\ \A c \in Channels : gpadl[c] \in Handles
        /\ handle[c]["ring"] \in Handles /\ handle[c]["buffer"] \in Handles
        /\ handle[c][call[c]] \in Handles /\ call[c] \in Buffers
  BY DEF StateOK, Buffers, Handles, NoHandle
<1>1. ASSUME NEW c \in Channels, Open(c) PROVE StateOK'
  BY <1>z, <1>1 DEF Open, StateOK, Steps, Buffers
<1>2. ASSUME NEW c \in Channels, InitializeBuffer(c) PROVE StateOK'
  BY <1>2 DEF InitializeBuffer, StateOK, Steps, Buffers
<1>3. ASSUME NEW c \in Channels, DestroyBuffer(c) PROVE StateOK'
  BY <1>3 DEF DestroyBuffer, StateOK, Steps, Buffers
<1>4. ASSUME NEW c \in Channels, Close(c) PROVE StateOK'
  <2>1. toHost' \in [Channels -> Seq(Messages)] /\ refused' \in 0 .. MaxRefused
    BY <1>t, <1>z, <1>4, AcceptedTypes, RefusedTypes DEF Close, StateOK
  <2> QED BY <2>1, <1>4 DEF Close, StateOK, Steps, Buffers
<1>5. ASSUME NEW c \in Channels, TakeHandle(c) PROVE StateOK'
  BY <1>5 DEF TakeHandle, StateOK, Steps
<1>6. ASSUME NEW c \in Channels, CountHandle(c) PROVE StateOK'
  <2>1. nextHandle' \in Handles /\ nextHandle' >= FirstHandle
    BY <1>6, HandleAssumption DEF CountHandle, StateOK, Handles
  <2> QED BY <2>1, <1>6 DEF CountHandle, StateOK, Steps
<1>7. ASSUME NEW c \in Channels, RegisterGpadl(c) PROVE StateOK'
  <2>1. list' \in Seq(Requests) /\ event' \in [Channels -> BOOLEAN]
    BY <1>t, <1>z, <1>7, RegisterTypes DEF RegisterGpadl
  <2> QED BY <2>1, <1>7, BoundsAssumption DEF RegisterGpadl, StateOK, Steps
<1>8. ASSUME NEW c \in Channels, PostHeader(c) PROVE StateOK'
  <2>1. toHost' \in [Channels -> Seq(Messages)] /\ refused' \in 0 .. MaxRefused
    BY <1>t, <1>z, <1>8, AcceptedTypes, RefusedTypes DEF PostHeader, StateOK
  <2> QED BY <2>1, <1>8 DEF PostHeader, StateOK, Steps, Buffers
<1>9. ASSUME NEW c \in Channels, PostBody(c) PROVE StateOK'
  <2>1. toHost' \in [Channels -> Seq(Messages)] /\ refused' \in 0 .. MaxRefused
    BY <1>t, <1>z, <1>9, AcceptedTypes, RefusedTypes DEF PostBody, StateOK
  <2>2. left' \in [Channels -> 0 .. Bodies]
    BY <1>9, BoundsAssumption DEF PostBody, StateOK
  <2> QED BY <2>1, <2>2, <1>9 DEF PostBody, StateOK, Steps, Buffers
<1>10. ASSUME NEW c \in Channels, RetryBody(c) PROVE StateOK'
  <2>1. tries' \in [Channels -> 0 .. Retries]
    BY <1>10, BoundsAssumption DEF RetryBody, StateOK
  <2> QED BY <2>1, <1>10 DEF RetryBody, StateOK, Steps
<1>11. ASSUME NEW c \in Channels, BodyRefused(c) PROVE StateOK'
  <2>1. toHost' \in [Channels -> Seq(Messages)] /\ refused' \in 0 .. MaxRefused
    BY <1>t, <1>z, <1>11, AcceptedTypes, RefusedTypes DEF BodyRefused, StateOK
  <2> QED BY <2>1, <1>11 DEF BodyRefused, StateOK, Steps, Buffers
<1>12. ASSUME NEW c \in Channels, Shared(c) PROVE StateOK'
  BY <1>z, <1>12 DEF Shared, StateOK, Steps, Buffers
<1>13. ASSUME NEW c \in Channels, ShareReturns(c) PROVE StateOK'
  <2>1. list' \in Seq(Requests)
    BY <1>13, UnlinkTypes DEF ShareReturns, Registered
  <2> QED BY <2>1, <1>13, <1>z, BoundsAssumption DEF ShareReturns, StateOK, Steps, Buffers
<1>14. ASSUME NEW c \in Channels, NoRingHandle(c) PROVE StateOK'
  BY <1>14 DEF NoRingHandle, StateOK, Steps
<1>15. ASSUME NEW c \in Channels, RegisterOpen(c) PROVE StateOK'
  <2>1. list' \in Seq(Requests) /\ event' \in [Channels -> BOOLEAN]
    BY <1>t, <1>z, <1>15, RegisterTypes DEF RegisterOpen
  <2> QED BY <2>1, <1>15, BoundsAssumption DEF RegisterOpen, StateOK, Steps
<1>16. ASSUME NEW c \in Channels, PostOpen(c) PROVE StateOK'
  <2>1. toHost' \in [Channels -> Seq(Messages)] /\ refused' \in 0 .. MaxRefused
    BY <1>t, <1>z, <1>16, AcceptedTypes, RefusedTypes DEF PostOpen, StateOK
  <2> QED BY <2>1, <1>16 DEF PostOpen, StateOK, Steps, Buffers
<1>17. ASSUME NEW c \in Channels, OpenAnswered(c) PROVE StateOK'
  BY <1>17 DEF OpenAnswered, StateOK, Steps
<1>18. ASSUME NEW c \in Channels, OpenReturns(c) PROVE StateOK'
  <2>1. list' \in Seq(Requests)
    BY <1>18, UnlinkTypes DEF OpenReturns, Registered
  <2> QED BY <2>1, <1>18, <1>z, BoundsAssumption DEF OpenReturns, StateOK, Steps, Buffers
<1>19. ASSUME NEW c \in Channels, RegisterTeardown(c) PROVE StateOK'
  <2>1. list' \in Seq(Requests) /\ event' \in [Channels -> BOOLEAN]
    BY <1>t, <1>z, <1>19, RegisterTypes DEF RegisterTeardown
  <2> QED BY <2>1, <1>19, BoundsAssumption DEF RegisterTeardown, StateOK, Steps
<1>20. ASSUME NEW c \in Channels, PostTeardown(c) PROVE StateOK'
  <2>1. toHost' \in [Channels -> Seq(Messages)] /\ refused' \in 0 .. MaxRefused
    BY <1>t, <1>z, <1>20, AcceptedTypes, RefusedTypes DEF PostTeardown, StateOK
  <2> QED BY <2>1, <1>20 DEF PostTeardown, StateOK, Steps, Buffers
<1>21. ASSUME NEW c \in Channels, Torndown(c) PROVE StateOK'
  BY <1>21 DEF Torndown, StateOK, Steps
<1>22. ASSUME NEW c \in Channels, TeardownReturns(c) PROVE StateOK'
  <2>1. list' \in Seq(Requests)
    BY <1>22, UnlinkTypes DEF TeardownReturns, Registered
  <2>2. handle' \in [Channels -> [Buffers -> Handles]] /\ pages' \in [Channels -> SUBSET Buffers]
    <3>1. CASE UNCHANGED <<handle, pages>>
      BY <3>1 DEF StateOK
    <3>2. CASE handle' = handle /\ pages' = [pages EXCEPT ![c] = @ \ {call[c]}]
      BY <3>2 DEF StateOK
    <3>3. CASE /\ handle' = [handle EXCEPT ![c].buffer = NoHandle]
               /\ pages' = [pages EXCEPT ![c] = @ \ {call[c]}]
      BY <3>3, <1>z DEF StateOK, Buffers
    <3> QED BY <3>1, <3>2, <3>3, <1>22 DEF TeardownReturns
  <2> QED BY <2>1, <2>2, <1>22 DEF TeardownReturns, StateOK, Steps
<1>23. ASSUME NEW c \in Channels, HostActs(c) PROVE StateOK'
  <2>1. /\ toHost[c] \in Seq(Messages) /\ toHost[c] # <<>>
        /\ toHost' = [toHost EXCEPT ![c] = Tail(@)]
    BY <1>23 DEF HostActs, StateOK
  <2>2. Head(toHost[c]) \in Messages /\ Tail(toHost[c]) \in Seq(Messages)
    BY <2>1, HeadTailProperties
  <2>3. toHost' \in [Channels -> Seq(Messages)]
    BY <2>1, <2>2 DEF StateOK
  <2>4. Head(toHost[c]).gpadl \in Handles
    BY <2>2 DEF Messages
  <2>5. mapped' \subseteq [chan : Channels, gpadl : Handles]
    BY <1>23, <2>4 DEF HostActs, StateOK
  <2>6. answers' \subseteq Requests
    BY <1>23, <1>t, <1>z, <2>4 DEF HostActs, StateOK, Answer, Requests
  <2>7. hostOpen' \subseteq Channels
    BY <1>23 DEF HostActs, StateOK
  <2> QED BY <2>3, <2>5, <2>6, <2>7, <1>23 DEF HostActs, StateOK
<1>24. ASSUME NEW a \in answers, OnOpenResult(a) PROVE StateOK'
  BY <1>24 DEF OnOpenResult, Wake, StateOK, Steps, Handles, Buffers
<1>25. ASSUME NEW a \in answers, OnGpadlCreated(a) PROVE StateOK'
  BY <1>25 DEF OnGpadlCreated, Wake, StateOK, Steps, Handles, Buffers
<1>26. ASSUME NEW a \in answers, OnGpadlTorndown(a) PROVE StateOK'
  BY <1>26 DEF OnGpadlTorndown, Wake, StateOK, Steps, Handles, Buffers
<1> QED
  BY <1>1, <1>2, <1>3, <1>4, <1>5, <1>6, <1>7, <1>8, <1>9, <1>10, <1>11, <1>12, <1>13,
     <1>14, <1>15, <1>16, <1>17, <1>18, <1>19, <1>20, <1>21, <1>22, <1>23, <1>24, <1>25, <1>26
  DEF Next, Driver, Establish, OpenChannel, Teardown, Worker

-----------------------------------------------------------------------------
LEMMA RegisterEntries ==
  ASSUME StateOK, ListInv, NEW c \in Channels, pc[c] # "panic", ~Registered(c),
         NEW t, NEW h, Register(t, c, h)
  PROVE  /\ OneEntryEach'
         /\ Entries' = Entries \cup {[type |-> t, chan |-> c, gpadl |-> h]}
<1> DEFINE new == [type |-> t, chan |-> c, gpadl |-> h]
<1>1. list \in Seq(Requests) /\ list' = Append(list, new)
  BY DEF StateOK, Register
<1>2. DOMAIN list = 1 .. Len(list) /\ Len(list) \in Nat
  BY <1>1, LenProperties
<1>3. \A i \in DOMAIN list : list[i].chan # c
  BY DEF ListInv, EntryWhileRegistered, Entries
<1> HIDE DEF new
<1>4. /\ DOMAIN list' = 1 .. Len(list) + 1
      /\ \A i \in 1 .. Len(list) : list'[i] = list[i]
      /\ list'[Len(list) + 1] = new
  BY <1>1, <1>2
<1>5. new.chan = c
  BY DEF new
<1>6. OneEntryEach'
  BY <1>2, <1>3, <1>4, <1>5 DEF ListInv, OneEntryEach
<1>7. Entries' = Entries \cup {new}
  BY <1>2, <1>4 DEF Entries
<1> QED
  BY <1>6, <1>7 DEF new

LEMMA UnlinkEntries ==
  ASSUME StateOK, ListInv, NEW c \in Channels, pc[c] # "panic", Registered(c), Unlink(c)
  PROVE  /\ OneEntryEach'
         /\ Entries' = {e \in Entries : e.chan # c}
<1>1. list \in Seq(Requests)
  BY DEF StateOK
<1>2. DOMAIN list = 1 .. Len(list) /\ Len(list) \in Nat
  BY <1>1, LenProperties
<1>3. PICK k \in DOMAIN list : list[k].chan = c /\ list' = RemoveAt(list, k)
  BY UnlinkTypes DEF ListInv
<1>4. /\ DOMAIN list' = 1 .. Len(list) - 1
      /\ \A i \in 1 .. Len(list) - 1 : list'[i] = list[IF i < k THEN i ELSE i + 1]
  BY <1>1, <1>3, RemoveOne
<1>5. \A i \in DOMAIN list : list[i].chan = c <=> i = k
  BY <1>3 DEF ListInv, OneEntryEach
<1>6. OneEntryEach'
  <2> SUFFICES ASSUME NEW i \in DOMAIN list', NEW j \in DOMAIN list', list'[i].chan = list'[j].chan
               PROVE  i = j
    BY DEF OneEntryEach
  <2> DEFINE m == IF i < k THEN i ELSE i + 1
             n == IF j < k THEN j ELSE j + 1
  <2>1. m \in DOMAIN list /\ n \in DOMAIN list /\ list'[i] = list[m] /\ list'[j] = list[n]
    BY <1>2, <1>3, <1>4
  <2>2. m = n
    BY <2>1 DEF ListInv, OneEntryEach
  <2> QED BY <2>2, <1>2, <1>3, <1>4
<1>7. \A i \in DOMAIN list' :
        \E j \in DOMAIN list : list'[i] = list[j] /\ list[j].chan # c
  <2> SUFFICES ASSUME NEW i \in DOMAIN list'
               PROVE  \E j \in DOMAIN list : list'[i] = list[j] /\ list[j].chan # c
    OBVIOUS
  <2> DEFINE j == IF i < k THEN i ELSE i + 1
  <2>1. j \in DOMAIN list /\ j # k /\ list'[i] = list[j]
    BY <1>2, <1>3, <1>4
  <2> QED BY <2>1, <1>5
<1>8. \A j \in DOMAIN list :
        list[j].chan # c => \E i \in DOMAIN list' : list'[i] = list[j]
  <2> SUFFICES ASSUME NEW j \in DOMAIN list, list[j].chan # c
               PROVE  \E i \in DOMAIN list' : list'[i] = list[j]
    OBVIOUS
  <2> DEFINE i == IF j < k THEN j ELSE j - 1
  <2>1. j # k
    BY <1>5
  <2>2. i \in DOMAIN list' /\ list'[i] = list[j]
    BY <2>1, <1>2, <1>3, <1>4
  <2> QED BY <2>2
<1> QED
  BY <1>6, <1>7, <1>8 DEF Entries

\* What the entries are about stays as it is for c.
SameCall(c) ==
  /\ pc[c] # "panic"
  /\ pc[c] \in Sharing <=> pc'[c] \in Sharing
  /\ pc[c] \in Opening <=> pc'[c] \in Opening
  /\ pc[c] \in TearingDown <=> pc'[c] \in TearingDown
  /\ pc[c] \in Sharing => gpadl'[c] = gpadl[c]

LEMMA InACall ==
  ASSUME StateOK, NEW c \in Channels, pc[c] # "panic"
  PROVE  Registered(c) <=> pc[c] \in Sharing \/ pc[c] \in Opening \/ pc[c] \in TearingDown
<1>1. pc[c] \in Steps
  BY DEF StateOK
<1> QED
  BY <1>1 DEF Registered, Sharing, Opening, TearingDown, Steps

LEMMA EntryChannels ==
  ASSUME StateOK, NEW e \in Entries
  PROVE  e.chan \in Channels
<1>1. \A i \in DOMAIN list : list[i] \in Requests
  BY ElementOfSeq, LenProperties DEF StateOK
<1> QED
  BY <1>1 DEF Entries, Requests

LEMMA ListSteady ==
  ASSUME StateOK, StateOK', ListInv, list' = list,
         \A c \in Channels : pc'[c] # "panic" => SameCall(c)
  PROVE  ListInv'
<1>1. Entries' = Entries /\ OneEntryEach'
  BY DEF Entries, OneEntryEach, ListInv
<1>2. ASSUME NEW c \in Channels, pc'[c] # "panic"
      PROVE  Registered(c)' <=> Registered(c)
  <2>1. Registered(c) <=> pc[c] \in Sharing \/ pc[c] \in Opening \/ pc[c] \in TearingDown
    BY <1>2, InACall DEF SameCall
  <2>2. StateOK' /\ pc'[c] # "panic" =>
          (Registered(c)' <=> pc'[c] \in Sharing \/ pc'[c] \in Opening \/ pc'[c] \in TearingDown)
    <3>1. StateOK' => pc'[c] \in Steps
      BY DEF StateOK
    <3> QED BY <3>1 DEF Registered, Sharing, Opening, TearingDown, Steps
  <2> QED BY <1>2, <2>1, <2>2 DEF SameCall
<1>3. EntryWhileRegistered'
  BY <1>1, <1>2 DEF SameCall, EntryWhileRegistered, ListInv
<1>4. EntryOfCall'
  <2> SUFFICES ASSUME NEW e \in Entries, pc'[e.chan] # "panic"
               PROVE  \/ e.type = "gpadl" /\ e.gpadl = gpadl'[e.chan] /\ pc'[e.chan] \in Sharing
                      \/ e.type = "open" /\ pc'[e.chan] \in Opening
                      \/ e.type = "teardown" /\ pc'[e.chan] \in TearingDown
    BY <1>1 DEF EntryOfCall
  <2>1. e.chan \in Channels
    BY EntryChannels
  <2> QED BY <2>1 DEF SameCall, ListInv, EntryOfCall
<1> QED
  BY <1>1, <1>3, <1>4 DEF ListInv

LEMMA ListGrows ==
  ASSUME StateOK, StateOK', ListInv, NEW c \in Channels, pc[c] # "panic", ~Registered(c),
         NEW t, NEW h, Register(t, c, h),
         \/ t = "gpadl" /\ h = gpadl'[c] /\ pc'[c] \in Sharing
         \/ t = "open" /\ pc'[c] \in Opening
         \/ t = "teardown" /\ pc'[c] \in TearingDown,
         \A d \in Channels \ {c} : pc'[d] = pc[d] /\ gpadl'[d] = gpadl[d]
  PROVE  ListInv'
<1> DEFINE new == [type |-> t, chan |-> c, gpadl |-> h]
<1>1. OneEntryEach' /\ Entries' = Entries \cup {new}
  BY RegisterEntries
<1>2. new.chan = c /\ new.type = t /\ new.gpadl = h
  OBVIOUS
<1> HIDE DEF new
<1>3. \A e \in Entries : e.chan \in Channels /\ e.chan # c
  BY EntryChannels DEF ListInv, EntryWhileRegistered
<1>4. Registered(c)'
  BY DEF Registered, Sharing, Opening, TearingDown
<1>5. EntryWhileRegistered'
  <2> SUFFICES ASSUME NEW d \in Channels, pc'[d] # "panic"
               PROVE  Registered(d)' <=> \E e \in Entries' : e.chan = d
    BY DEF EntryWhileRegistered
  <2>1. CASE d = c
    BY <2>1, <1>1, <1>2, <1>4
  <2>2. CASE d # c
    <3>1. pc'[d] = pc[d]
      BY <2>2
    <3>2. Registered(d)' <=> Registered(d)
      BY <3>1 DEF Registered
    <3> QED BY <3>1, <3>2, <2>2, <1>1, <1>2 DEF ListInv, EntryWhileRegistered
  <2> QED BY <2>1, <2>2
<1>6. EntryOfCall'
  BY <1>1, <1>2, <1>3 DEF ListInv, EntryOfCall
<1> QED
  BY <1>1, <1>5, <1>6 DEF ListInv

LEMMA ListShrinks ==
  ASSUME StateOK, StateOK', ListInv, NEW c \in Channels, pc[c] # "panic", Registered(c),
         Unlink(c), ~Registered(c)',
         \A d \in Channels \ {c} : pc'[d] = pc[d] /\ gpadl'[d] = gpadl[d]
  PROVE  ListInv'
<1>1. OneEntryEach' /\ Entries' = {e \in Entries : e.chan # c}
  BY UnlinkEntries
<1>2. \A e \in Entries : e.chan \in Channels
  BY EntryChannels
<1>3. \A d \in Channels \ {c} : Registered(d)' <=> Registered(d)
  BY DEF Registered
<1>4. EntryWhileRegistered'
  BY <1>1, <1>3 DEF ListInv, EntryWhileRegistered
<1>5. EntryOfCall'
  BY <1>1, <1>2 DEF ListInv, EntryOfCall
<1> QED
  BY <1>1, <1>4, <1>5 DEF ListInv

LEMMA ListKept == StateOK /\ ListInv /\ Next => ListInv'
<1> SUFFICES ASSUME StateOK, ListInv, Next PROVE ListInv'
  OBVIOUS
<1>o. StateOK'
  BY TypesKept DEF ListInv
<1>p. \A c \in Channels : pc[c] # "panic"
  BY DEF Next, Panicked
<1>t. pc \in [Channels -> Steps] /\ gpadl \in [Channels -> Handles]
  BY DEF StateOK
<1> USE DEF local, driver, host, Goto, Sharing, Opening, TearingDown
<1>1. ASSUME NEW c \in Channels, Open(c) PROVE ListInv'
  <2>1. list' = list /\ \A d \in Channels : pc'[d] # "panic" => SameCall(d)
    BY <1>p, <1>t, <1>1 DEF Open, SameCall
  <2> QED BY <2>1, <1>o, ListSteady
<1>2. ASSUME NEW c \in Channels, InitializeBuffer(c) PROVE ListInv'
  <2>1. list' = list /\ \A d \in Channels : pc'[d] # "panic" => SameCall(d)
    BY <1>p, <1>t, <1>2 DEF InitializeBuffer, SameCall
  <2> QED BY <2>1, <1>o, ListSteady
<1>3. ASSUME NEW c \in Channels, DestroyBuffer(c) PROVE ListInv'
  <2>1. list' = list /\ \A d \in Channels : pc'[d] # "panic" => SameCall(d)
    BY <1>p, <1>t, <1>3 DEF DestroyBuffer, SameCall
  <2> QED BY <2>1, <1>o, ListSteady
<1>4. ASSUME NEW c \in Channels, Close(c) PROVE ListInv'
  <2>1. list' = list /\ \A d \in Channels : pc'[d] # "panic" => SameCall(d)
    BY <1>p, <1>t, <1>4 DEF Close, SameCall
  <2> QED BY <2>1, <1>o, ListSteady
<1>5. ASSUME NEW c \in Channels, TakeHandle(c) PROVE ListInv'
  <2>1. list' = list /\ \A d \in Channels : pc'[d] # "panic" => SameCall(d)
    BY <1>p, <1>t, <1>5 DEF TakeHandle, SameCall
  <2> QED BY <2>1, <1>o, ListSteady
<1>6. ASSUME NEW c \in Channels, CountHandle(c) PROVE ListInv'
  <2>1. list' = list /\ \A d \in Channels : pc'[d] # "panic" => SameCall(d)
    BY <1>p, <1>t, <1>6 DEF CountHandle, SameCall
  <2> QED BY <2>1, <1>o, ListSteady
<1>7. ASSUME NEW c \in Channels, RegisterGpadl(c) PROVE ListInv'
  <2>1. /\ Register("gpadl", c, gpadl[c]) /\ ~Registered(c)
        /\ gpadl'[c] = gpadl[c] /\ pc'[c] \in Sharing
        /\ \A d \in Channels \ {c} : pc'[d] = pc[d] /\ gpadl'[d] = gpadl[d]
    BY <1>t, <1>7 DEF RegisterGpadl, Registered
  <2> QED BY <2>1, <1>o, <1>p, ListGrows
<1>8. ASSUME NEW c \in Channels, PostHeader(c) PROVE ListInv'
  <2>1. list' = list /\ \A d \in Channels : pc'[d] # "panic" => SameCall(d)
    BY <1>p, <1>t, <1>8 DEF PostHeader, SameCall
  <2> QED BY <2>1, <1>o, ListSteady
<1>9. ASSUME NEW c \in Channels, PostBody(c) PROVE ListInv'
  <2>1. list' = list /\ \A d \in Channels : pc'[d] # "panic" => SameCall(d)
    BY <1>p, <1>t, <1>9 DEF PostBody, SameCall
  <2> QED BY <2>1, <1>o, ListSteady
<1>10. ASSUME NEW c \in Channels, RetryBody(c) PROVE ListInv'
  <2>1. list' = list /\ \A d \in Channels : pc'[d] # "panic" => SameCall(d)
    BY <1>p, <1>t, <1>10 DEF RetryBody, SameCall
  <2> QED BY <2>1, <1>o, ListSteady
<1>11. ASSUME NEW c \in Channels, BodyRefused(c) PROVE ListInv'
  <2>1. list' = list /\ \A d \in Channels : pc'[d] # "panic" => SameCall(d)
    BY <1>p, <1>t, <1>11 DEF BodyRefused, SameCall
  <2> QED BY <2>1, <1>o, ListSteady
<1>12. ASSUME NEW c \in Channels, Shared(c) PROVE ListInv'
  <2>1. list' = list /\ \A d \in Channels : pc'[d] # "panic" => SameCall(d)
    BY <1>p, <1>t, <1>12 DEF Shared, SameCall
  <2> QED BY <2>1, <1>o, ListSteady
<1>13. ASSUME NEW c \in Channels, ShareReturns(c) PROVE ListInv'
  <2>1. /\ Unlink(c) /\ Registered(c) /\ ~Registered(c)'
        /\ \A d \in Channels \ {c} : pc'[d] = pc[d] /\ gpadl'[d] = gpadl[d]
    BY <1>t, <1>13 DEF ShareReturns, Registered
  <2> QED BY <2>1, <1>o, <1>p, ListShrinks
<1>14. ASSUME NEW c \in Channels, NoRingHandle(c) PROVE ListInv'
  <2>1. list' = list /\ \A d \in Channels : pc'[d] # "panic" => SameCall(d)
    BY <1>p, <1>t, <1>14 DEF NoRingHandle, SameCall
  <2> QED BY <2>1, <1>o, ListSteady
<1>15. ASSUME NEW c \in Channels, RegisterOpen(c) PROVE ListInv'
  <2>1. /\ Register("open", c, NoHandle) /\ ~Registered(c)
        /\ pc'[c] \in Opening
        /\ \A d \in Channels \ {c} : pc'[d] = pc[d] /\ gpadl'[d] = gpadl[d]
    BY <1>t, <1>15 DEF RegisterOpen, Registered
  <2> QED BY <2>1, <1>o, <1>p, ListGrows
<1>16. ASSUME NEW c \in Channels, PostOpen(c) PROVE ListInv'
  <2>1. list' = list /\ \A d \in Channels : pc'[d] # "panic" => SameCall(d)
    BY <1>p, <1>t, <1>16 DEF PostOpen, SameCall
  <2> QED BY <2>1, <1>o, ListSteady
<1>17. ASSUME NEW c \in Channels, OpenAnswered(c) PROVE ListInv'
  <2>1. list' = list /\ \A d \in Channels : pc'[d] # "panic" => SameCall(d)
    BY <1>p, <1>t, <1>17 DEF OpenAnswered, SameCall
  <2> QED BY <2>1, <1>o, ListSteady
<1>18. ASSUME NEW c \in Channels, OpenReturns(c) PROVE ListInv'
  <2>1. /\ Unlink(c) /\ Registered(c) /\ ~Registered(c)'
        /\ \A d \in Channels \ {c} : pc'[d] = pc[d] /\ gpadl'[d] = gpadl[d]
    BY <1>t, <1>18 DEF OpenReturns, Registered
  <2> QED BY <2>1, <1>o, <1>p, ListShrinks
<1>19. ASSUME NEW c \in Channels, RegisterTeardown(c) PROVE ListInv'
  <2>1. /\ Register("teardown", c, handle[c][call[c]]) /\ ~Registered(c)
        /\ pc'[c] \in TearingDown
        /\ \A d \in Channels \ {c} : pc'[d] = pc[d] /\ gpadl'[d] = gpadl[d]
    BY <1>t, <1>19 DEF RegisterTeardown, Registered
  <2> QED BY <2>1, <1>o, <1>p, ListGrows
<1>20. ASSUME NEW c \in Channels, PostTeardown(c) PROVE ListInv'
  <2>1. list' = list /\ \A d \in Channels : pc'[d] # "panic" => SameCall(d)
    BY <1>p, <1>t, <1>20 DEF PostTeardown, SameCall
  <2> QED BY <2>1, <1>o, ListSteady
<1>21. ASSUME NEW c \in Channels, Torndown(c) PROVE ListInv'
  <2>1. list' = list /\ \A d \in Channels : pc'[d] # "panic" => SameCall(d)
    BY <1>p, <1>t, <1>21 DEF Torndown, SameCall
  <2> QED BY <2>1, <1>o, ListSteady
<1>22. ASSUME NEW c \in Channels, TeardownReturns(c) PROVE ListInv'
  <2>1. /\ Unlink(c) /\ Registered(c) /\ ~Registered(c)'
        /\ \A d \in Channels \ {c} : pc'[d] = pc[d] /\ gpadl'[d] = gpadl[d]
    BY <1>t, <1>22 DEF TeardownReturns, Registered
  <2> QED BY <2>1, <1>o, <1>p, ListShrinks
<1>23. ASSUME NEW c \in Channels, HostActs(c) PROVE ListInv'
  <2>1. list' = list /\ \A d \in Channels : pc'[d] # "panic" => SameCall(d)
    BY <1>p, <1>t, <1>23 DEF HostActs, SameCall
  <2> QED BY <2>1, <1>o, ListSteady
<1>24. ASSUME NEW a \in answers, OnOpenResult(a) PROVE ListInv'
  <2>1. list' = list /\ \A d \in Channels : pc'[d] # "panic" => SameCall(d)
    BY <1>p, <1>24 DEF OnOpenResult, Wake, SameCall
  <2> QED BY <2>1, <1>o, ListSteady
<1>25. ASSUME NEW a \in answers, OnGpadlCreated(a) PROVE ListInv'
  <2>1. list' = list /\ \A d \in Channels : pc'[d] # "panic" => SameCall(d)
    BY <1>p, <1>25 DEF OnGpadlCreated, Wake, SameCall
  <2> QED BY <2>1, <1>o, ListSteady
<1>26. ASSUME NEW a \in answers, OnGpadlTorndown(a) PROVE ListInv'
  <2>1. list' = list /\ \A d \in Channels : pc'[d] # "panic" => SameCall(d)
    BY <1>p, <1>26 DEF OnGpadlTorndown, Wake, SameCall
  <2> QED BY <2>1, <1>o, ListSteady
<1> QED
  BY <1>1, <1>2, <1>3, <1>4, <1>5, <1>6, <1>7, <1>8, <1>9, <1>10, <1>11, <1>12, <1>13,
     <1>14, <1>15, <1>16, <1>17, <1>18, <1>19, <1>20, <1>21, <1>22, <1>23, <1>24, <1>25, <1>26
  DEF Next, Driver, Establish, OpenChannel, Teardown, Worker

-----------------------------------------------------------------------------
LEMMA Least ==
  ASSUME NEW S \in SUBSET Nat, S # {}
  PROVE  Min(S) \in S
<1>1. IsWellFoundedOn(OpToRel(<, Nat), Nat)
  BY NatLessThanWellFounded
<1>2. PICK x \in S : \A y \in S : <<y, x>> \notin OpToRel(<, Nat)
  BY <1>1, WFMin
<1>3. \A y \in S : ~(y < x)
  BY <1>2 DEF OpToRel
<1>4. \A y \in S : x <= y
  BY <1>3
<1> QED
  BY <1>4 DEF Min

\* The thread neither waits for a GPADL nor for an open.
Quiet(c) == pc[c] \notin {"shareWait", "openWait"}

\* Nothing about a GPADL or an open is under way for c.
NothingAsked(c) == \A i \in DOMAIN toHost[c] : toHost[c][i].type \notin {"gpadl", "open"}
NothingAnswered(c) == \A a \in answers : a.chan = c => a.type \notin {"gpadl", "open"}

SameAnswers(c) ==
  \A a : a.chan = c /\ a.type \in {"gpadl", "open"} => (a \in answers' <=> a \in answers)

LEMMA QuietNothing ==
  ASSUME NEW c \in Channels, OneAnswer(c), Quiet(c)
  PROVE  NothingAsked(c) /\ NothingAnswered(c)
BY DEF OneAnswer, AskedOnce, AnswerAlone, Quiet, NothingAsked, NothingAnswered

LEMMA Undisturbed ==
  ASSUME NEW c \in Channels, OneAnswer(c), pc'[c] = pc[c], gpadl'[c] = gpadl[c],
         event'[c] = event[c], toHost'[c] = toHost[c], SameAnswers(c)
  PROVE  OneAnswer(c)'
<1>1. \A t : Asked(c, t)' <=> Asked(c, t)
  BY DEF Asked
<1>2. \A t \in {"gpadl", "open"} : Answered(c, t)' <=> Answered(c, t)
  BY DEF Answered, SameAnswers
<1>3. AskedOnce(c)'
  BY DEF OneAnswer, AskedOnce
<1>4. AnswerAlone(c)'
  BY <1>1 DEF OneAnswer, AnswerAlone, SameAnswers
<1>5. WokenAlone(c)'
  BY <1>1 DEF OneAnswer, WokenAlone
<1>6. SomeAnswer(c)'
  BY <1>1, <1>2 DEF OneAnswer, SomeAnswer
<1> QED
  BY <1>3, <1>4, <1>5, <1>6 DEF OneAnswer

LEMMA StaysQuiet ==
  ASSUME NEW c \in Channels, Quiet(c)', NothingAsked(c)', NothingAnswered(c)',
         pc'[c] \in {"header", "body", "openPost"} => ~event'[c]
  PROVE  OneAnswer(c)'
BY DEF Quiet, NothingAsked, NothingAnswered, OneAnswer, AskedOnce, AnswerAlone, WokenAlone,
       SomeAnswer

LEMMA StartsWait ==
  ASSUME NEW c \in Channels, StateOK, OneAnswer(c), Quiet(c), ~event[c], event' = event,
         answers' = answers, NEW t \in {"gpadl", "open"}, NEW h,
         toHost'[c] = Append(toHost[c], [type |-> t, gpadl |-> h]),
         t = "gpadl" => pc'[c] = "shareWait" /\ h = gpadl'[c],
         t = "open" => pc'[c] = "openWait"
  PROVE  OneAnswer(c)'
<1> DEFINE m == [type |-> t, gpadl |-> h]
<1>1. NothingAsked(c) /\ NothingAnswered(c)
  BY QuietNothing
<1>2. toHost[c] \in Seq(Messages) /\ toHost'[c] = Append(toHost[c], m)
  BY DEF StateOK
<1>3. DOMAIN toHost[c] = 1 .. Len(toHost[c]) /\ Len(toHost[c]) \in Nat
  BY <1>2, LenProperties
<1>4. m.type = t /\ m.gpadl = h
  OBVIOUS
<1> HIDE DEF m
<1>5. /\ DOMAIN toHost'[c] = 1 .. Len(toHost[c]) + 1
      /\ \A i \in 1 .. Len(toHost[c]) : toHost'[c][i] = toHost[c][i]
      /\ toHost'[c][Len(toHost[c]) + 1] = m
  BY <1>2
<1>6. \A i \in DOMAIN toHost'[c] :
        toHost'[c][i].type \in {"gpadl", "open"} =>
          i = Len(toHost[c]) + 1 /\ toHost'[c][i] = m
  BY <1>1, <1>3, <1>5 DEF NothingAsked
<1>7. AskedOnce(c)'
  BY <1>4, <1>6 DEF AskedOnce
<1>8. Asked(c, t)'
  BY <1>3, <1>4, <1>5 DEF Asked
<1>9. AnswerAlone(c)'
  BY <1>1 DEF AnswerAlone, NothingAnswered
<1> QED
  BY <1>7, <1>8, <1>9 DEF OneAnswer, WokenAlone, SomeAnswer

LEMMA StopsWait ==
  ASSUME NEW c \in Channels, OneAnswer(c), event[c],
         pc[c] \in {"shareWait", "openWait"}
  PROVE  NothingAsked(c) /\ NothingAnswered(c)
BY DEF OneAnswer, AskedOnce, AnswerAlone, WokenAlone, Asked, NothingAsked, NothingAnswered

\* An answer reaches the thread it is for.
LEMMA WokenByAnswer ==
  ASSUME NEW c \in Channels, StateOK, OneAnswer(c), NEW a \in answers, a.chan = c,
         a.type \in {"gpadl", "open"}, pc' = pc, gpadl' = gpadl, toHost' = toHost,
         answers' = answers \ {a}, event'[c] = TRUE
  PROVE  OneAnswer(c)'
<1>1. /\ a.type = "gpadl" => pc[c] = "shareWait" /\ ~Asked(c, "gpadl") /\ a.gpadl = gpadl[c]
      /\ a.type = "open" => pc[c] = "openWait" /\ ~Asked(c, "open") /\ a.gpadl = NoHandle
  BY DEF OneAnswer, AnswerAlone
<1>2. ASSUME NEW b \in answers', b.chan = c
      PROVE  b.type \notin {"gpadl", "open"}
  <2>1. b \in Requests /\ a \in Requests /\ b # a /\ b \in answers
    BY <1>2 DEF StateOK
  <2>2. b.type # a.type \/ b.gpadl # a.gpadl
    BY <1>2, <2>1 DEF Requests
  <2>3. /\ b.type = "gpadl" => pc[c] = "shareWait" /\ b.gpadl = gpadl[c]
        /\ b.type = "open" => pc[c] = "openWait" /\ b.gpadl = NoHandle
    BY <1>2, <2>1 DEF OneAnswer, AnswerAlone
  <2> QED BY <1>1, <2>2, <2>3
<1>3. \A t : Asked(c, t)' <=> Asked(c, t)
  BY DEF Asked
<1>4. AskedOnce(c)'
  BY DEF OneAnswer, AskedOnce
<1>5. AnswerAlone(c)'
  BY <1>2 DEF AnswerAlone
<1>6. WokenAlone(c)' /\ SomeAnswer(c)'
  BY <1>1, <1>3 DEF WokenAlone, SomeAnswer
<1> QED
  BY <1>4, <1>5, <1>6 DEF OneAnswer

LEMMA OthersKeep ==
  ASSUME AnswerInv, NEW c \in Channels, OneAnswer(c)',
         \A d \in Channels \ {c} : /\ pc'[d] = pc[d] /\ gpadl'[d] = gpadl[d]
                                   /\ event'[d] = event[d] /\ toHost'[d] = toHost[d]
                                   /\ SameAnswers(d)
  PROVE  AnswerInv'
<1>1. ASSUME NEW d \in Channels \ {c} PROVE OneAnswer(d)'
  BY <1>1, Undisturbed DEF AnswerInv
<1> QED
  BY <1>1 DEF AnswerInv

\* A step of c after which it waits for no answer, and before which nothing
\* was under way for it.
LEMMA QuietStep ==
  ASSUME AnswerInv, NEW c \in Channels, NothingAsked(c), NothingAnswered(c), Quiet(c)',
         pc'[c] \in {"header", "body", "openPost"} => ~event'[c],
         toHost' = toHost, answers' = answers,
         \A d \in Channels \ {c} : pc'[d] = pc[d] /\ gpadl'[d] = gpadl[d] /\ event'[d] = event[d]
  PROVE  AnswerInv'
<1>1. NothingAsked(c)' /\ NothingAnswered(c)'
  BY DEF NothingAsked, NothingAnswered
<1>2. OneAnswer(c)'
  BY <1>1, StaysQuiet
<1> QED
  BY <1>2, OthersKeep DEF SameAnswers

\* The same for a step that posts a message without an answer to wait for
\* here.
LEMMA QuietPost ==
  ASSUME StateOK, AnswerInv, NEW c \in Channels, Quiet(c), Quiet(c)',
         pc'[c] \notin {"header", "body", "openPost"},
         NEW t \in {"teardown", "close"}, NEW h, Accepted(c, t, h), answers' = answers,
         \A d \in Channels \ {c} : pc'[d] = pc[d] /\ gpadl'[d] = gpadl[d] /\ event'[d] = event[d]
  PROVE  AnswerInv'
<1> DEFINE m == [type |-> t, gpadl |-> h]
<1>1. NothingAsked(c) /\ NothingAnswered(c)
  BY QuietNothing DEF AnswerInv
<1>2. /\ toHost[c] \in Seq(Messages) /\ toHost'[c] = Append(toHost[c], m)
      /\ \A d \in Channels \ {c} : toHost'[d] = toHost[d]
  BY DEF StateOK, Accepted
<1>3. m.type \notin {"gpadl", "open"}
  OBVIOUS
<1> HIDE DEF m
<1>4. \A i \in DOMAIN toHost'[c] :
        toHost'[c][i] = m \/ (i \in DOMAIN toHost[c] /\ toHost'[c][i] = toHost[c][i])
  BY <1>2
<1>5. NothingAsked(c)' /\ NothingAnswered(c)'
  BY <1>1, <1>3, <1>4 DEF NothingAsked, NothingAnswered
<1>6. OneAnswer(c)'
  BY <1>5, StaysQuiet
<1> QED
  BY <1>2, <1>6, OthersKeep DEF SameAnswers

LEMMA AskStep ==
  ASSUME StateOK, AnswerInv, NEW c \in Channels, Quiet(c), ~event[c], event' = event,
         answers' = answers, gpadl' = gpadl, NEW t \in {"gpadl", "open"}, NEW h,
         Accepted(c, t, h),
         t = "gpadl" => pc'[c] = "shareWait" /\ h = gpadl[c],
         t = "open" => pc'[c] = "openWait",
         \A d \in Channels \ {c} : pc'[d] = pc[d]
  PROVE  AnswerInv'
<1>1. /\ toHost'[c] = Append(toHost[c], [type |-> t, gpadl |-> h])
      /\ \A d \in Channels \ {c} : toHost'[d] = toHost[d]
  BY DEF StateOK, Accepted
<1>2. OneAnswer(c)'
  BY <1>1, StartsWait DEF AnswerInv
<1> QED
  BY <1>1, <1>2, OthersKeep DEF SameAnswers

-----------------------------------------------------------------------------
LEMMA HostAnswers ==
  ASSUME StateOK, AnswerInv, NEW c \in Channels, HostActs(c)
  PROVE  AnswerInv'
<1> USE DEF local, driver
<1> DEFINE q == toHost[c]
           m == Head(q)
<1>1. /\ q \in Seq(Messages) /\ q # <<>> /\ Len(q) \in Nat \ {0} /\ DOMAIN q = 1 .. Len(q)
      /\ toHost' = [toHost EXCEPT ![c] = Tail(@)]
  BY LenProperties DEF HostActs, StateOK
<1>2. /\ DOMAIN Tail(q) = 1 .. Len(q) - 1
      /\ \A i \in 1 .. Len(q) - 1 : Tail(q)[i] = q[i + 1] /\ i + 1 \in DOMAIN q
      /\ 1 \in DOMAIN q /\ m = q[1]
  BY <1>1
<1>3. /\ pc' = pc /\ gpadl' = gpadl /\ event' = event
      /\ toHost'[c] = Tail(q) /\ \A d \in Channels \ {c} : toHost'[d] = toHost[d]
  BY <1>1 DEF HostActs, StateOK
<1>4. /\ m.type = "gpadl" => Answer("gpadl", c, m.gpadl)
      /\ m.type = "open" => Answer("open", c, NoHandle)
      /\ m.type \notin {"gpadl", "open"} =>
           Answer("teardown", c, m.gpadl) \/ answers' = answers
  BY DEF HostActs
<1>5. AskedOnce(c) /\ AnswerAlone(c) /\ WokenAlone(c) /\ SomeAnswer(c)
  BY DEF AnswerInv, OneAnswer
<1> HIDE DEF m, q
<1>6. \A d \in Channels \ {c} : SameAnswers(d)
  BY <1>4 DEF SameAnswers, Answer
<1>7. CASE m.type \in {"gpadl", "open"}
  <2> DEFINE h == IF m.type = "gpadl" THEN m.gpadl ELSE NoHandle
             new == [type |-> m.type, chan |-> c, gpadl |-> h]
  <2>1. answers' = answers \cup {new} /\ new.type = m.type /\ new.chan = c /\ new.gpadl = h
    BY <1>4, <1>7 DEF Answer
  <2>2. /\ m.type = "gpadl" => pc[c] = "shareWait" /\ m.gpadl = gpadl[c]
        /\ m.type = "open" => pc[c] = "openWait"
        /\ \A i \in DOMAIN q : q[i].type = m.type => i = 1
    BY <1>2, <1>5, <1>7 DEF AskedOnce, q
  <2>3. \A i \in DOMAIN q : q[i].type \in {"gpadl", "open"} => i = 1
    BY <1>5, <1>7, <2>2 DEF AskedOnce, q
  <2>4. NothingAsked(c)'
    <3> SUFFICES ASSUME NEW i \in 1 .. Len(q) - 1 PROVE Tail(q)[i].type \notin {"gpadl", "open"}
      BY <1>2, <1>3 DEF NothingAsked
    <3>1. i + 1 # 1 /\ i + 1 \in DOMAIN q /\ Tail(q)[i] = q[i + 1]
      BY <1>1, <1>2
    <3> QED BY <3>1, <2>3
  <2>5. Asked(c, m.type)
    BY <1>2 DEF Asked, q
  <2>6. ~event[c]
    BY <1>5, <1>7, <2>2, <2>5 DEF WokenAlone
  <2>7. \A b \in answers : b.chan = c => b.type \notin {"gpadl", "open"}
    BY <1>5, <1>7, <2>2, <2>5 DEF AnswerAlone
  <2>8. AskedOnce(c)'
    BY <2>4 DEF AskedOnce, NothingAsked
  <2>9. \A t \in {"gpadl", "open"} : ~Asked(c, t)'
    BY <2>4 DEF Asked, NothingAsked
  <2> HIDE DEF new
  <2>10. AnswerAlone(c)'
    <3> SUFFICES ASSUME NEW b \in answers', b.chan = c
                 PROVE  /\ b.type = "gpadl" => pc[c] = "shareWait" /\ b.gpadl = gpadl[c] /\ ~event[c]
                                                 /\ ~Asked(c, "gpadl")'
                        /\ b.type = "open" => pc[c] = "openWait" /\ b.gpadl = NoHandle /\ ~event[c]
                                                /\ ~Asked(c, "open")'
      BY <1>3 DEF AnswerAlone
    <3>1. CASE b = new
      BY <3>1, <2>1, <2>2, <2>6, <2>9
    <3>2. CASE b # new
      BY <3>2, <2>1, <2>7
    <3> QED BY <3>1, <3>2
  <2>11. \A t : t = m.type => Answered(c, t)'
    BY <2>1 DEF Answered
  <2>12. WokenAlone(c)' /\ SomeAnswer(c)'
    BY <1>3, <1>7, <2>2, <2>6, <2>11 DEF WokenAlone, SomeAnswer
  <2>13. OneAnswer(c)'
    BY <2>8, <2>10, <2>12 DEF OneAnswer
  <2> QED BY <1>3, <1>6, <2>13, OthersKeep
<1>8. CASE m.type \notin {"gpadl", "open"}
  <2>1. SameAnswers(c)
    BY <1>4, <1>8 DEF SameAnswers, Answer
  <2>2. \A t \in {"gpadl", "open"} : Asked(c, t)' <=> Asked(c, t)
    <3> SUFFICES ASSUME NEW t \in {"gpadl", "open"} PROVE Asked(c, t)' <=> Asked(c, t)
      OBVIOUS
    <3>1. Asked(c, t)' => Asked(c, t)
      BY <1>2, <1>3 DEF Asked, q
    <3>2. ASSUME NEW i \in DOMAIN q, q[i].type = t PROVE Asked(c, t)'
      <4>1. i # 1
        BY <1>2, <1>8, <3>2
      <4>2. PICK k \in 1 .. Len(q) - 1 : k + 1 = i
        BY <1>1, <4>1
      <4> QED BY <1>2, <1>3, <3>2, <4>2 DEF Asked
    <3> QED BY <3>1, <3>2 DEF Asked, q
  <2>3. \A t \in {"gpadl", "open"} : Answered(c, t)' <=> Answered(c, t)
    BY <2>1 DEF Answered, SameAnswers
  <2>4. AskedOnce(c)'
    <3>1. ASSUME NEW i \in 1 .. Len(q) - 1
          PROVE  /\ Tail(q)[i].type = "gpadl" => pc[c] = "shareWait" /\ Tail(q)[i].gpadl = gpadl[c]
                 /\ Tail(q)[i].type = "open" => pc[c] = "openWait"
      BY <1>2, <1>5 DEF AskedOnce, q
    <3>2. ASSUME NEW i \in 1 .. Len(q) - 1, NEW j \in 1 .. Len(q) - 1,
                 Tail(q)[i].type = Tail(q)[j].type, Tail(q)[i].type \in {"gpadl", "open"}
          PROVE  i = j
      <4>1. i + 1 = j + 1
        BY <1>2, <1>5, <3>2 DEF AskedOnce, q
      <4> QED BY <1>1, <4>1
    <3> QED BY <1>2, <1>3, <3>1, <3>2 DEF AskedOnce
  <2>5. AnswerAlone(c)'
    BY <1>3, <1>5, <2>1, <2>2 DEF AnswerAlone, SameAnswers
  <2>6. WokenAlone(c)' /\ SomeAnswer(c)'
    BY <1>3, <1>5, <2>2, <2>3 DEF WokenAlone, SomeAnswer
  <2>7. OneAnswer(c)'
    BY <2>4, <2>5, <2>6 DEF OneAnswer
  <2> QED BY <1>3, <1>6, <2>7, OthersKeep
<1> QED
  BY <1>7, <1>8

-----------------------------------------------------------------------------
LEMMA FromQuiet ==
  ASSUME AnswerInv, NEW c \in Channels, Quiet(c), Quiet(c)',
         pc'[c] \in {"header", "body", "openPost"} => ~event'[c],
         toHost' = toHost, answers' = answers,
         \A d \in Channels \ {c} : pc'[d] = pc[d] /\ gpadl'[d] = gpadl[d] /\ event'[d] = event[d]
  PROVE  AnswerInv'
<1>1. NothingAsked(c) /\ NothingAnswered(c)
  BY QuietNothing DEF AnswerInv
<1> QED
  BY <1>1, QuietStep

\* An answer to a GPADL or an open is handled: it finds the entry of its
\* thread, and no other.
LEMMA AnswerHandled ==
  ASSUME StateOK, ListInv, AnswerInv, ~Panicked, NEW a \in answers,
         OnOpenResult(a) \/ OnGpadlCreated(a)
  PROVE  AnswerInv'
<1> DEFINE c == a.chan
           matches == {i \in DOMAIN list : /\ list[i].type = a.type /\ list[i].chan = a.chan
                                           /\ a.type = "gpadl" => list[i].gpadl = a.gpadl}
<1> USE DEF local, driver
<1>1. c \in Channels /\ a \in Requests
  BY DEF StateOK, Requests
<1>2. a.type \in {"gpadl", "open"} /\ Wake(a, matches)
  BY DEF OnOpenResult, OnGpadlCreated
<1>3. /\ a.type = "gpadl" => pc[c] = "shareWait" /\ a.gpadl = gpadl[c]
      /\ a.type = "open" => pc[c] = "openWait"
  BY <1>1 DEF AnswerInv, OneAnswer, AnswerAlone
<1>4. PICK i \in DOMAIN list : list[i].chan = c
  <2>1. Registered(c) /\ pc[c] # "panic"
    BY <1>2, <1>3 DEF Registered
  <2> QED BY <1>1, <2>1 DEF ListInv, EntryWhileRegistered, Entries
<1>5. i \in matches
  <2>1. list[i] \in Entries /\ pc[list[i].chan] # "panic"
    BY <1>1, <1>4 DEF Entries, Panicked
  <2>2. \/ list[i].type = "gpadl" /\ list[i].gpadl = gpadl[c] /\ pc[c] \in Sharing
        \/ list[i].type = "open" /\ pc[c] \in Opening
        \/ list[i].type = "teardown" /\ pc[c] \in TearingDown
    BY <1>4, <2>1 DEF ListInv, EntryOfCall
  <2> QED BY <1>2, <1>3, <1>4, <2>2 DEF Sharing, Opening, TearingDown
<1>6. matches \in SUBSET Nat
  <2>1. DOMAIN list = 1 .. Len(list)
    BY LenProperties DEF StateOK
  <2> QED BY <2>1
<1>7. Min(matches) \in matches
  BY <1>5, <1>6, Least
<1>8. event' = [event EXCEPT ![c] = TRUE] /\ event \in [Channels -> BOOLEAN]
  BY <1>2, <1>5, <1>7 DEF Wake, StateOK
<1>9. /\ pc' = pc /\ gpadl' = gpadl /\ toHost' = toHost /\ answers' = answers \ {a}
  BY <1>2 DEF Wake
<1>10. OneAnswer(c)'
  <2>1. event'[c] = TRUE
    BY <1>1, <1>8
  <2> HIDE DEF c
  <2>2. a.chan = c
    BY DEF c
  <2>3. c \in Channels /\ OneAnswer(c)
    BY <1>1 DEF AnswerInv
  <2> DEFINE d == a.chan
  <2>4. \A e : e = c => OneAnswer(e)'
    BY <1>2, <1>9, <2>1, <2>2, <2>3, WokenByAnswer
  <2> QED BY <2>4 DEF c
<1>11. \A d \in Channels \ {c} : SameAnswers(d) /\ event'[d] = event[d]
  BY <1>8, <1>9 DEF SameAnswers
<1> HIDE DEF c, matches
<1> QED
  BY <1>1, <1>9, <1>10, <1>11, OthersKeep DEF c

\* The answer to a teardown wakes a thread that tears a GPADL down, or none.
LEMMA TorndownHandled ==
  ASSUME StateOK, ListInv, AnswerInv, ~Panicked, NEW a \in answers, OnGpadlTorndown(a)
  PROVE  AnswerInv'
<1> DEFINE matches == {i \in DOMAIN list : list[i].type = "teardown" /\ list[i].gpadl = a.gpadl}
<1> USE DEF local, driver
<1>1. /\ a.type = "teardown" /\ answers' = answers \ {a}
      /\ pc' = pc /\ gpadl' = gpadl /\ toHost' = toHost
  BY DEF OnGpadlTorndown, Wake
<1>2. \A d \in Channels : SameAnswers(d)
  BY <1>1 DEF SameAnswers
<1>3. CASE matches = {}
  <2>1. event' = event
    BY <1>3 DEF OnGpadlTorndown, Wake
  <2> QED BY <1>1, <1>2, <2>1, Undisturbed DEF AnswerInv
<1>4. CASE matches # {}
  <2>1. matches \in SUBSET Nat
    <3>1. DOMAIN list = 1 .. Len(list)
      BY LenProperties DEF StateOK
    <3> QED BY <3>1
  <2>2. PICK i \in matches : event' = [event EXCEPT ![list[i].chan] = TRUE]
    BY <1>4, <2>1, Least DEF OnGpadlTorndown, Wake
  <2>3. PICK c \in Channels : c = list[i].chan /\ pc[c] \in TearingDown
    <3>1. list[i] \in Entries /\ list[i].type = "teardown"
      BY DEF Entries
    <3>2. list[i].chan \in Channels
      BY <3>1, EntryChannels
    <3> QED BY <3>1, <3>2 DEF ListInv, EntryOfCall, Panicked
  <2>4. Quiet(c) /\ Quiet(c)' /\ pc'[c] \notin {"header", "body", "openPost"}
    BY <1>1, <2>3 DEF Quiet, TearingDown
  <2>5. NothingAsked(c)' /\ NothingAnswered(c)'
    <3>1. NothingAsked(c) /\ NothingAnswered(c)
      BY <2>4, QuietNothing DEF AnswerInv
    <3> QED BY <1>1, <3>1 DEF NothingAsked, NothingAnswered
  <2>6. OneAnswer(c)'
    BY <2>4, <2>5, StaysQuiet
  <2>7. \A d \in Channels \ {c} : event'[d] = event[d]
    BY <2>2, <2>3 DEF StateOK
  <2> QED BY <1>1, <1>2, <2>6, <2>7, OthersKeep
<1> QED
  BY <1>3, <1>4

LEMMA AnswersKept == StateOK /\ ListInv /\ AnswerInv /\ Next => AnswerInv'
<1> SUFFICES ASSUME StateOK, ListInv, AnswerInv, Next PROVE AnswerInv'
  OBVIOUS
<1>p. ~Panicked
  BY DEF Next
<1>t. /\ pc \in [Channels -> Steps] /\ gpadl \in [Channels -> Handles]
      /\ event \in [Channels -> BOOLEAN]
  BY DEF StateOK
<1>w. \A c \in Channels : pc[c] \in {"header", "body", "openPost"} => ~event[c]
  BY DEF AnswerInv, OneAnswer, WokenAlone
<1> USE DEF local, driver, host, Goto
<1>1. ASSUME NEW c \in Channels, Open(c) PROVE AnswerInv'
  <2>1. /\ Quiet(c) /\ Quiet(c)' /\ toHost' = toHost /\ answers' = answers
        /\ pc'[c] \in {"header", "body", "openPost"} => ~event'[c]
        /\ \A d \in Channels \ {c} : pc'[d] = pc[d] /\ gpadl'[d] = gpadl[d] /\ event'[d] = event[d]
    BY <1>t, <1>w, <1>1 DEF Open, Quiet
  <2> QED BY <2>1, FromQuiet
<1>2. ASSUME NEW c \in Channels, InitializeBuffer(c) PROVE AnswerInv'
  <2>1. /\ Quiet(c) /\ Quiet(c)' /\ toHost' = toHost /\ answers' = answers
        /\ pc'[c] \in {"header", "body", "openPost"} => ~event'[c]
        /\ \A d \in Channels \ {c} : pc'[d] = pc[d] /\ gpadl'[d] = gpadl[d] /\ event'[d] = event[d]
    BY <1>t, <1>w, <1>2 DEF InitializeBuffer, Quiet
  <2> QED BY <2>1, FromQuiet
<1>3. ASSUME NEW c \in Channels, DestroyBuffer(c) PROVE AnswerInv'
  <2>1. /\ Quiet(c) /\ Quiet(c)' /\ toHost' = toHost /\ answers' = answers
        /\ pc'[c] \in {"header", "body", "openPost"} => ~event'[c]
        /\ \A d \in Channels \ {c} : pc'[d] = pc[d] /\ gpadl'[d] = gpadl[d] /\ event'[d] = event[d]
    BY <1>t, <1>w, <1>3 DEF DestroyBuffer, Quiet
  <2> QED BY <2>1, FromQuiet
<1>4. ASSUME NEW c \in Channels, Close(c) PROVE AnswerInv'
  <2>1. CASE Accepted(c, "close", NoHandle)
    <3>1. /\ Quiet(c) /\ Quiet(c)' /\ pc'[c] \notin {"header", "body", "openPost"}
          /\ Accepted(c, "close", NoHandle) /\ answers' = answers
          /\ \A d \in Channels \ {c} : pc'[d] = pc[d] /\ gpadl'[d] = gpadl[d] /\ event'[d] = event[d]
      BY <1>t, <1>4, <2>1 DEF Close, Quiet
    <3> QED BY <3>1, QuietPost
  <2>2. CASE toHost' = toHost
    <3>1. /\ Quiet(c) /\ Quiet(c)' /\ toHost' = toHost /\ answers' = answers
          /\ pc'[c] \in {"header", "body", "openPost"} => ~event'[c]
          /\ \A d \in Channels \ {c} : pc'[d] = pc[d] /\ gpadl'[d] = gpadl[d] /\ event'[d] = event[d]
      BY <1>t, <1>w, <1>4, <2>2 DEF Close, Quiet
    <3> QED BY <3>1, FromQuiet
  <2> QED BY <1>4, <2>1, <2>2 DEF Close, Refused
<1>5. ASSUME NEW c \in Channels, TakeHandle(c) PROVE AnswerInv'
  <2>1. /\ Quiet(c) /\ Quiet(c)' /\ toHost' = toHost /\ answers' = answers
        /\ pc'[c] \in {"header", "body", "openPost"} => ~event'[c]
        /\ \A d \in Channels \ {c} : pc'[d] = pc[d] /\ gpadl'[d] = gpadl[d] /\ event'[d] = event[d]
    BY <1>t, <1>w, <1>5 DEF TakeHandle, Quiet
  <2> QED BY <2>1, FromQuiet
<1>6. ASSUME NEW c \in Channels, CountHandle(c) PROVE AnswerInv'
  <2>1. /\ Quiet(c) /\ Quiet(c)' /\ toHost' = toHost /\ answers' = answers
        /\ pc'[c] \in {"header", "body", "openPost"} => ~event'[c]
        /\ \A d \in Channels \ {c} : pc'[d] = pc[d] /\ gpadl'[d] = gpadl[d] /\ event'[d] = event[d]
    BY <1>t, <1>w, <1>6 DEF CountHandle, Quiet
  <2> QED BY <2>1, FromQuiet
<1>7. ASSUME NEW c \in Channels, RegisterGpadl(c) PROVE AnswerInv'
  <2>1. /\ Quiet(c) /\ Quiet(c)' /\ toHost' = toHost /\ answers' = answers
        /\ pc'[c] \in {"header", "body", "openPost"} => ~event'[c]
        /\ \A d \in Channels \ {c} : pc'[d] = pc[d] /\ gpadl'[d] = gpadl[d] /\ event'[d] = event[d]
    BY <1>t, <1>w, <1>7 DEF RegisterGpadl, Register, Quiet
  <2> QED BY <2>1, FromQuiet
<1>8. ASSUME NEW c \in Channels, PostHeader(c) PROVE AnswerInv'
  <2>1. CASE Accepted(c, "gpadl", gpadl[c]) /\ pc' = [pc EXCEPT ![c] = "shareWait"]
    <3>1. /\ Quiet(c) /\ ~event[c] /\ event' = event /\ answers' = answers /\ gpadl' = gpadl
          /\ pc'[c] = "shareWait" /\ Accepted(c, "gpadl", gpadl[c])
          /\ \A d \in Channels \ {c} : pc'[d] = pc[d]
      BY <1>t, <1>w, <1>8, <2>1 DEF PostHeader, Quiet
    <3> QED BY <3>1, AskStep
  <2>2. CASE toHost' = toHost /\ pc' # [pc EXCEPT ![c] = "shareWait"]
    <3>1. /\ Quiet(c) /\ Quiet(c)' /\ toHost' = toHost /\ answers' = answers
          /\ pc'[c] \in {"header", "body", "openPost"} => ~event'[c]
          /\ \A d \in Channels \ {c} : pc'[d] = pc[d] /\ gpadl'[d] = gpadl[d] /\ event'[d] = event[d]
      BY <1>t, <1>w, <1>8, <2>2 DEF PostHeader, Quiet
    <3> QED BY <3>1, FromQuiet
  <2> QED BY <1>8, <2>1, <2>2, <1>t DEF PostHeader, Refused
<1>9. ASSUME NEW c \in Channels, PostBody(c) PROVE AnswerInv'
  <2>1. CASE Accepted(c, "gpadl", gpadl[c]) /\ pc' = [pc EXCEPT ![c] = "shareWait"]
    <3>1. /\ Quiet(c) /\ ~event[c] /\ event' = event /\ answers' = answers /\ gpadl' = gpadl
          /\ pc'[c] = "shareWait" /\ Accepted(c, "gpadl", gpadl[c])
          /\ \A d \in Channels \ {c} : pc'[d] = pc[d]
      BY <1>t, <1>w, <1>9, <2>1 DEF PostBody, Quiet
    <3> QED BY <3>1, AskStep
  <2>2. CASE toHost' = toHost /\ pc' # [pc EXCEPT ![c] = "shareWait"]
    <3>1. /\ Quiet(c) /\ Quiet(c)' /\ toHost' = toHost /\ answers' = answers
          /\ pc'[c] \in {"header", "body", "openPost"} => ~event'[c]
          /\ \A d \in Channels \ {c} : pc'[d] = pc[d] /\ gpadl'[d] = gpadl[d] /\ event'[d] = event[d]
      BY <1>t, <1>w, <1>9, <2>2 DEF PostBody, Quiet
    <3> QED BY <3>1, FromQuiet
  <2> QED BY <1>9, <2>1, <2>2, <1>t DEF PostBody, Refused
<1>10. ASSUME NEW c \in Channels, RetryBody(c) PROVE AnswerInv'
  <2>1. /\ Quiet(c) /\ Quiet(c)' /\ toHost' = toHost /\ answers' = answers
        /\ pc'[c] \in {"header", "body", "openPost"} => ~event'[c]
        /\ \A d \in Channels \ {c} : pc'[d] = pc[d] /\ gpadl'[d] = gpadl[d] /\ event'[d] = event[d]
    BY <1>t, <1>w, <1>10 DEF RetryBody, Quiet
  <2> QED BY <2>1, FromQuiet
<1>11. ASSUME NEW c \in Channels, BodyRefused(c) PROVE AnswerInv'
  <2>1. /\ Quiet(c) /\ Quiet(c)' /\ toHost' = toHost /\ answers' = answers
        /\ pc'[c] \in {"header", "body", "openPost"} => ~event'[c]
        /\ \A d \in Channels \ {c} : pc'[d] = pc[d] /\ gpadl'[d] = gpadl[d] /\ event'[d] = event[d]
    BY <1>t, <1>w, <1>11 DEF BodyRefused, Refused, Quiet
  <2> QED BY <2>1, FromQuiet
<1>12. ASSUME NEW c \in Channels, Shared(c) PROVE AnswerInv'
  <2>1. /\ event[c] /\ pc[c] \in {"shareWait", "openWait"} /\ Quiet(c)'
        /\ toHost' = toHost /\ answers' = answers
        /\ pc'[c] \in {"header", "body", "openPost"} => ~event'[c]
        /\ \A d \in Channels \ {c} : pc'[d] = pc[d] /\ gpadl'[d] = gpadl[d] /\ event'[d] = event[d]
    BY <1>t, <1>12 DEF Shared, Quiet
  <2>2. NothingAsked(c) /\ NothingAnswered(c)
    BY <2>1, StopsWait DEF AnswerInv
  <2> QED BY <2>1, <2>2, QuietStep
<1>13. ASSUME NEW c \in Channels, ShareReturns(c) PROVE AnswerInv'
  <2>1. /\ Quiet(c) /\ Quiet(c)' /\ toHost' = toHost /\ answers' = answers
        /\ pc'[c] \in {"header", "body", "openPost"} => ~event'[c]
        /\ \A d \in Channels \ {c} : pc'[d] = pc[d] /\ gpadl'[d] = gpadl[d] /\ event'[d] = event[d]
    BY <1>t, <1>w, <1>13 DEF ShareReturns, Quiet
  <2> QED BY <2>1, FromQuiet
<1>14. ASSUME NEW c \in Channels, NoRingHandle(c) PROVE AnswerInv'
  <2>1. /\ Quiet(c) /\ Quiet(c)' /\ toHost' = toHost /\ answers' = answers
        /\ pc'[c] \in {"header", "body", "openPost"} => ~event'[c]
        /\ \A d \in Channels \ {c} : pc'[d] = pc[d] /\ gpadl'[d] = gpadl[d] /\ event'[d] = event[d]
    BY <1>t, <1>w, <1>14 DEF NoRingHandle, Quiet
  <2> QED BY <2>1, FromQuiet
<1>15. ASSUME NEW c \in Channels, RegisterOpen(c) PROVE AnswerInv'
  <2>1. /\ Quiet(c) /\ Quiet(c)' /\ toHost' = toHost /\ answers' = answers
        /\ pc'[c] \in {"header", "body", "openPost"} => ~event'[c]
        /\ \A d \in Channels \ {c} : pc'[d] = pc[d] /\ gpadl'[d] = gpadl[d] /\ event'[d] = event[d]
    BY <1>t, <1>w, <1>15 DEF RegisterOpen, Register, Quiet
  <2> QED BY <2>1, FromQuiet
<1>16. ASSUME NEW c \in Channels, PostOpen(c) PROVE AnswerInv'
  <2>1. CASE Accepted(c, "open", handle[c].ring) /\ pc' = [pc EXCEPT ![c] = "openWait"]
    <3>1. /\ Quiet(c) /\ ~event[c] /\ event' = event /\ answers' = answers /\ gpadl' = gpadl
          /\ pc'[c] = "openWait" /\ Accepted(c, "open", handle[c].ring)
          /\ \A d \in Channels \ {c} : pc'[d] = pc[d]
      BY <1>t, <1>w, <1>16, <2>1 DEF PostOpen, Quiet
    <3> QED BY <3>1, AskStep
  <2>2. CASE toHost' = toHost /\ pc' # [pc EXCEPT ![c] = "openWait"]
    <3>1. /\ Quiet(c) /\ Quiet(c)' /\ toHost' = toHost /\ answers' = answers
          /\ pc'[c] \in {"header", "body", "openPost"} => ~event'[c]
          /\ \A d \in Channels \ {c} : pc'[d] = pc[d] /\ gpadl'[d] = gpadl[d] /\ event'[d] = event[d]
      BY <1>t, <1>w, <1>16, <2>2 DEF PostOpen, Quiet
    <3> QED BY <3>1, FromQuiet
  <2> QED BY <1>16, <2>1, <2>2, <1>t DEF PostOpen, Refused
<1>17. ASSUME NEW c \in Channels, OpenAnswered(c) PROVE AnswerInv'
  <2>1. /\ event[c] /\ pc[c] \in {"shareWait", "openWait"} /\ Quiet(c)'
        /\ toHost' = toHost /\ answers' = answers
        /\ pc'[c] \in {"header", "body", "openPost"} => ~event'[c]
        /\ \A d \in Channels \ {c} : pc'[d] = pc[d] /\ gpadl'[d] = gpadl[d] /\ event'[d] = event[d]
    BY <1>t, <1>17 DEF OpenAnswered, Quiet
  <2>2. NothingAsked(c) /\ NothingAnswered(c)
    BY <2>1, StopsWait DEF AnswerInv
  <2> QED BY <2>1, <2>2, QuietStep
<1>18. ASSUME NEW c \in Channels, OpenReturns(c) PROVE AnswerInv'
  <2>1. /\ Quiet(c) /\ Quiet(c)' /\ toHost' = toHost /\ answers' = answers
        /\ pc'[c] \in {"header", "body", "openPost"} => ~event'[c]
        /\ \A d \in Channels \ {c} : pc'[d] = pc[d] /\ gpadl'[d] = gpadl[d] /\ event'[d] = event[d]
    BY <1>t, <1>w, <1>18 DEF OpenReturns, Quiet
  <2> QED BY <2>1, FromQuiet
<1>19. ASSUME NEW c \in Channels, RegisterTeardown(c) PROVE AnswerInv'
  <2>1. /\ Quiet(c) /\ Quiet(c)' /\ toHost' = toHost /\ answers' = answers
        /\ pc'[c] \in {"header", "body", "openPost"} => ~event'[c]
        /\ \A d \in Channels \ {c} : pc'[d] = pc[d] /\ gpadl'[d] = gpadl[d] /\ event'[d] = event[d]
    BY <1>t, <1>w, <1>19 DEF RegisterTeardown, Register, Quiet
  <2> QED BY <2>1, FromQuiet
<1>20. ASSUME NEW c \in Channels, PostTeardown(c) PROVE AnswerInv'
  <2>1. CASE Accepted(c, "teardown", handle[c][call[c]])
    <3>1. /\ Quiet(c) /\ Quiet(c)' /\ pc'[c] \notin {"header", "body", "openPost"}
          /\ Accepted(c, "teardown", handle[c][call[c]]) /\ answers' = answers
          /\ \A d \in Channels \ {c} : pc'[d] = pc[d] /\ gpadl'[d] = gpadl[d] /\ event'[d] = event[d]
      BY <1>t, <1>20, <2>1 DEF PostTeardown, Quiet
    <3> QED BY <3>1, QuietPost
  <2>2. CASE toHost' = toHost
    <3>1. /\ Quiet(c) /\ Quiet(c)' /\ toHost' = toHost /\ answers' = answers
          /\ pc'[c] \in {"header", "body", "openPost"} => ~event'[c]
          /\ \A d \in Channels \ {c} : pc'[d] = pc[d] /\ gpadl'[d] = gpadl[d] /\ event'[d] = event[d]
      BY <1>t, <1>w, <1>20, <2>2 DEF PostTeardown, Quiet
    <3> QED BY <3>1, FromQuiet
  <2> QED BY <1>20, <2>1, <2>2 DEF PostTeardown, Refused
<1>21. ASSUME NEW c \in Channels, Torndown(c) PROVE AnswerInv'
  <2>1. /\ Quiet(c) /\ Quiet(c)' /\ toHost' = toHost /\ answers' = answers
        /\ pc'[c] \in {"header", "body", "openPost"} => ~event'[c]
        /\ \A d \in Channels \ {c} : pc'[d] = pc[d] /\ gpadl'[d] = gpadl[d] /\ event'[d] = event[d]
    BY <1>t, <1>w, <1>21 DEF Torndown, Quiet
  <2> QED BY <2>1, FromQuiet
<1>22. ASSUME NEW c \in Channels, TeardownReturns(c) PROVE AnswerInv'
  <2>1. /\ Quiet(c) /\ Quiet(c)' /\ toHost' = toHost /\ answers' = answers
        /\ pc'[c] \in {"header", "body", "openPost"} => ~event'[c]
        /\ \A d \in Channels \ {c} : pc'[d] = pc[d] /\ gpadl'[d] = gpadl[d] /\ event'[d] = event[d]
    BY <1>t, <1>w, <1>22 DEF TeardownReturns, Quiet
  <2> QED BY <2>1, FromQuiet
<1>23. ASSUME NEW c \in Channels, HostActs(c) PROVE AnswerInv'
  BY <1>23, HostAnswers
<1>24. ASSUME NEW a \in answers, OnOpenResult(a) PROVE AnswerInv'
  BY <1>p, <1>24, AnswerHandled
<1>25. ASSUME NEW a \in answers, OnGpadlCreated(a) PROVE AnswerInv'
  BY <1>p, <1>25, AnswerHandled
<1>26. ASSUME NEW a \in answers, OnGpadlTorndown(a) PROVE AnswerInv'
  BY <1>p, <1>26, TorndownHandled
<1> QED
  BY <1>1, <1>2, <1>3, <1>4, <1>5, <1>6, <1>7, <1>8, <1>9, <1>10, <1>11, <1>12, <1>13,
     <1>14, <1>15, <1>16, <1>17, <1>18, <1>19, <1>20, <1>21, <1>22, <1>23, <1>24, <1>25, <1>26
  DEF Next, Driver, Establish, OpenChannel, Teardown, Worker

-----------------------------------------------------------------------------
LEMMA Start == Init => IInv
<1> SUFFICES ASSUME Init PROVE IInv
  OBVIOUS
<1>1. StateOK
  BY HandleAssumption, BoundsAssumption DEF Init, StateOK, Handles, Steps, Buffers, NoHandle
<1>2. DOMAIN list = {} /\ Entries = {}
  BY DEF Init, Entries
<1>3. ListInv
  BY <1>2 DEF Init, ListInv, OneEntryEach, EntryWhileRegistered, EntryOfCall, Registered
<1>4. ASSUME NEW c \in Channels PROVE OneAnswer(c)
  <2>1. DOMAIN toHost[c] = {} /\ answers = {} /\ pc[c] = "idle"
    BY DEF Init
  <2> QED BY <2>1 DEF OneAnswer, AskedOnce, AnswerAlone, WokenAlone, SomeAnswer
<1> QED
  BY <1>1, <1>3, <1>4 DEF IInv, AnswerInv

LEMMA Stuttering == IInv /\ UNCHANGED vars => IInv'
<1> SUFFICES ASSUME IInv, UNCHANGED vars PROVE IInv'
  OBVIOUS
<1> USE DEF vars, local, driver, host
<1>1. StateOK'
  BY DEF IInv, StateOK
<1>2. Entries' = Entries /\ list' = list /\ pc' = pc /\ gpadl' = gpadl
  BY DEF Entries
<1>3. ListInv'
  BY <1>2 DEF IInv, ListInv, OneEntryEach, EntryWhileRegistered, EntryOfCall, Registered
<1>4. \A c \in Channels : SameAnswers(c)
  BY DEF SameAnswers
<1>5. AnswerInv'
  BY <1>4, Undisturbed DEF IInv, AnswerInv
<1> QED
  BY <1>1, <1>3, <1>5 DEF IInv

LEMMA Inductive == Spec => []IInv
<1>1. IInv /\ Next => IInv'
  BY TypesKept, ListKept, AnswersKept DEF IInv, ListInv
<1> QED
  BY <1>1, Start, Stuttering, PTL DEF Spec

\* Types; and each thread has exactly one entry in ChannelMsgList from the
\* registration of its request until its call returns.
THEOREM TypeCorrect == Spec => []TypeOK
<1>1. IInv => TypeOK
  <2> SUFFICES ASSUME IInv, NEW c \in Channels, pc[c] # "panic"
               PROVE  Cardinality({i \in DOMAIN list : list[i].chan = c})
                        = IF Registered(c) THEN 1 ELSE 0
    BY DEF IInv, TypeOK
  <2>1. CASE Registered(c)
    <3>1. PICK i \in DOMAIN list : list[i].chan = c
      BY <2>1 DEF IInv, ListInv, EntryWhileRegistered, Entries
    <3>2. {j \in DOMAIN list : list[j].chan = c} = {i}
      BY <3>1 DEF IInv, ListInv, OneEntryEach
    <3> QED BY <2>1, <3>2, FS_Singleton
  <2>2. CASE ~Registered(c)
    <3>1. {j \in DOMAIN list : list[j].chan = c} = {}
      BY <2>2 DEF IInv, ListInv, EntryWhileRegistered, Entries
    <3> QED BY <2>2, <3>1, FS_EmptySet
  <2> QED BY <2>1, <2>2
<1> QED
  BY <1>1, Inductive, PTL

\* A thread that waits in VmbusChannelEstablishGpadl or VmbusChannelOpen has
\* exactly one answer to come, though two channels may use the same handle.
THEOREM AnswersComeOnce == Spec => []AnswerToCome
<1>1. ASSUME IInv, NEW c \in Channels, NEW t \in {"gpadl", "open"},
             t = "gpadl" => pc[c] = "shareWait", t = "open" => pc[c] = "openWait"
      PROVE  IsSingleton(Places(c, t))
  <2>1. AskedOnce(c) /\ AnswerAlone(c) /\ WokenAlone(c) /\ SomeAnswer(c)
    BY <1>1 DEF IInv, AnswerInv, OneAnswer
  <2>2. Places(c, t) = {p \in {"asked", "answered", "woken"} :
                          \/ p = "asked" /\ Asked(c, t)
                          \/ p = "answered" /\ Answered(c, t)
                          \/ p = "woken" /\ event[c]}
    BY DEF Places, Asked, Answered
  <2>3. Asked(c, t) \/ event[c] \/ Answered(c, t)
    BY <1>1, <2>1 DEF SomeAnswer
  <2>4. ~(Asked(c, t) /\ event[c])
    BY <1>1, <2>1 DEF WokenAlone
  <2>5. ~(Answered(c, t) /\ (Asked(c, t) \/ event[c]))
    BY <1>1, <2>1 DEF AnswerAlone, Answered
  <2>6. CASE Asked(c, t)
    <3>1. Places(c, t) = {"asked"}
      BY <2>2, <2>4, <2>5, <2>6
    <3> QED BY <3>1 DEF IsSingleton
  <2>7. CASE Answered(c, t)
    <3>1. Places(c, t) = {"answered"}
      BY <2>2, <2>4, <2>5, <2>7
    <3> QED BY <3>1 DEF IsSingleton
  <2>8. CASE event[c]
    <3>1. Places(c, t) = {"woken"}
      BY <2>2, <2>4, <2>5, <2>8
    <3> QED BY <3>1 DEF IsSingleton
  <2> QED BY <2>3, <2>6, <2>7, <2>8
<1>2. IInv => AnswerToCome
  BY <1>1 DEF AnswerToCome
<1> QED
  BY <1>2, Inductive, PTL

-----------------------------------------------------------------------------
(* Teardowns.  The answer to a teardown names the GPADL alone, so what can *)
(* be said takes the handles to be names.  What belongs to a channel first:*)
(* its handles, its buffers and where its thread is with them.             *)

Establishing == {"take", "count", "share"} \cup Sharing

OwnHandles(c) ==
  /\ NoHandle \notin made[c]
  /\ \A b \in Buffers : handle[c][b] \in made[c] \cup {NoHandle}
  /\ pc[c] \in {"count", "share"} \cup Sharing => gpadl[c] \in made[c]
  /\ life[c] = "open" \/ pc[c] \in Opening => handle[c]["ring"] # NoHandle
  /\ pc[c] \in {"teardown"} \cup TearingDown => handle[c][call[c]] # NoHandle

\* A buffer that is being shared has no handle before the answer is there, and none if
\* the request was refused.
OwnBuffers(c) ==
  /\ pc[c] \in Establishing => call[c] \in pages[c]
  /\ pc[c] \in Establishing \ {"shareEnd"} \/ (pc[c] = "shareEnd" /\ failed[c]) =>
       handle[c][call[c]] = NoHandle
  /\ pc[c] \in {"body", "shareWait"} => ~ failed[c]
  /\ "buffer" \notin pages[c] => handle[c]["buffer"] = NoHandle
  /\ life[c] = "new" =>
       /\ pc[c] = "idle" => pages[c] = {}
       /\ call[c] = "ring" /\ pc[c] \notin {"teardown"} \cup TearingDown

\* The entry of a teardown names what is torn down.
TeardownEntry ==
  \A e \in Entries :
    pc[e.chan] \in TearingDown => e.gpadl = handle[e.chan][call[e.chan]]

\* What the host still has to do, or did, is the teardown the thread waits for.
TornOnce(c) ==
  \A i \in DOMAIN toHost[c] :
    toHost[c][i].type = "teardown" =>
      /\ pc[c] = "teardownWait" /\ ~ failed[c] /\ toHost[c][i].gpadl = handle[c][call[c]]
      /\ \A j \in DOMAIN toHost[c] : toHost[c][j].type = "teardown" => i = j

Unmapped(c) == [chan |-> c, gpadl |-> handle[c][call[c]]] \notin mapped

TornAnswerAlone(c) ==
  \A a \in answers : a.chan = c /\ a.type = "teardown" =>
    /\ pc[c] = "teardownWait" /\ ~ failed[c] /\ a.gpadl = handle[c][call[c]]
    /\ ~ event[c] /\ ~ Asked(c, "teardown") /\ Unmapped(c)

TornWokenAlone(c) ==
  /\ pc[c] = "teardownPost" => ~ event[c]
  /\ pc[c] = "teardownWait" /\ event[c] =>
       ~ failed[c] /\ ~ Asked(c, "teardown") /\ Unmapped(c)
  /\ pc[c] = "teardownEnd" => Unmapped(c)

SomeTorn(c) ==
  pc[c] = "teardownWait" /\ ~ failed[c] =>
    Asked(c, "teardown") \/ event[c] \/ Answered(c, "teardown")

OneTorn(c) == TornOnce(c) /\ TornAnswerAlone(c) /\ TornWokenAlone(c) /\ SomeTorn(c)

\* A GPADL the host has is that of a buffer that is allocated, or about to be one's.
Live(c, h) ==
  \/ \E b \in pages[c] : h = handle[c][b]
  \/ pc[c] = "shareWait" /\ h = gpadl[c]

MappedLive == \A g \in mapped : Live(g.chan, g.gpadl) /\ g.gpadl # NoHandle

OwnInv == \A c \in Channels : OwnHandles(c) /\ OwnBuffers(c)
TornAll == \A c \in Channels : OneTorn(c)
TornInv == TornAll /\ MappedLive
MInv == OwnInv /\ TeardownEntry /\ (HandleNamesOneGpadl => TornInv)

\* The rest of a channel stays as it is.
SameOwn(c) ==
  /\ UNCHANGED <<pc[c], call[c], gpadl[c], failed[c]>>
  /\ UNCHANGED <<handle[c], pages[c], made[c], life[c]>>

LEMMA OwnSteady ==
  ASSUME OwnInv, NEW c \in Channels, OwnHandles(c)', OwnBuffers(c)',
         \A d \in Channels \ {c} : SameOwn(d)
  PROVE  OwnInv'
BY DEF OwnInv, OwnHandles, OwnBuffers, SameOwn

\* Every step keeps what belongs to a channel together.
LEMMA OwnKept == IInv /\ OwnInv /\ Next => OwnInv'
<1> SUFFICES ASSUME IInv, OwnInv, Next PROVE OwnInv'
  OBVIOUS
<1>t. /\ pc \in [Channels -> Steps] /\ call \in [Channels -> Buffers]
      /\ gpadl \in [Channels -> Handles] /\ failed \in [Channels -> BOOLEAN]
      /\ handle \in [Channels -> [Buffers -> Handles]]
      /\ pages \in [Channels -> SUBSET Buffers]
      /\ made \in [Channels -> SUBSET Handles]
      /\ life \in [Channels -> {"new", "open", "closed"}]
  BY DEF IInv, StateOK
<1>n. nextHandle \in Handles /\ nextHandle # NoHandle
  BY HandleAssumption DEF IInv, StateOK, NoHandle
<1>o. \A c \in Channels : OwnHandles(c) /\ OwnBuffers(c)
  BY DEF OwnInv
<1> USE DEF local, driver, host, Goto
<1>1. ASSUME NEW c \in Channels, Open(c) PROVE OwnInv'
  <2>1. \A d \in Channels \ {c} : SameOwn(d)
    BY <1>t, <1>1 DEF Open, SameOwn
  <2>2. OwnHandles(c)'
    BY <1>t, <1>o, <1>1 DEF Open, OwnHandles, Sharing, Opening, TearingDown, Buffers
  <2>3. OwnBuffers(c)'
    BY <1>t, <1>o, <1>1 DEF Open, OwnHandles, OwnBuffers, Establishing, Sharing, TearingDown,
       Buffers
  <2> QED
    BY <2>1, <2>2, <2>3, OwnSteady
<1>2. ASSUME NEW c \in Channels, InitializeBuffer(c) PROVE OwnInv'
  <2>1. \A d \in Channels \ {c} : SameOwn(d)
    BY <1>t, <1>2 DEF InitializeBuffer, SameOwn
  <2>2. OwnHandles(c)'
    BY <1>t, <1>o, <1>2 DEF InitializeBuffer, OwnHandles, Sharing, Opening, TearingDown, Buffers
  <2>3. OwnBuffers(c)'
    BY <1>t, <1>o, <1>2 DEF InitializeBuffer, OwnHandles, OwnBuffers, Establishing, Sharing, TearingDown,
       Buffers
  <2> QED
    BY <2>1, <2>2, <2>3, OwnSteady
<1>3. ASSUME NEW c \in Channels, DestroyBuffer(c) PROVE OwnInv'
  <2>1. \A d \in Channels \ {c} : SameOwn(d)
    BY <1>t, <1>3 DEF DestroyBuffer, SameOwn
  <2>2. OwnHandles(c)'
    BY <1>t, <1>o, <1>3 DEF DestroyBuffer, OwnHandles, Sharing, Opening, TearingDown, Buffers
  <2>3. OwnBuffers(c)'
    BY <1>t, <1>o, <1>3 DEF DestroyBuffer, OwnHandles, OwnBuffers, Establishing, Sharing, TearingDown,
       Buffers
  <2> QED
    BY <2>1, <2>2, <2>3, OwnSteady
<1>4. ASSUME NEW c \in Channels, Close(c) PROVE OwnInv'
  <2>1. \A d \in Channels \ {c} : SameOwn(d)
    BY <1>t, <1>4 DEF Close, SameOwn
  <2>2. OwnHandles(c)'
    BY <1>t, <1>o, <1>4 DEF Close, OwnHandles, Sharing, Opening, TearingDown, Buffers
  <2>3. OwnBuffers(c)'
    BY <1>t, <1>o, <1>4 DEF Close, OwnHandles, OwnBuffers, Establishing, Sharing, TearingDown,
       Buffers
  <2> QED
    BY <2>1, <2>2, <2>3, OwnSteady
<1>5. ASSUME NEW c \in Channels, TakeHandle(c) PROVE OwnInv'
  <2>1. \A d \in Channels \ {c} : SameOwn(d)
    BY <1>t, <1>5 DEF TakeHandle, SameOwn
  <2>2. OwnHandles(c)'
    BY <1>t, <1>n, <1>o, <1>5 DEF TakeHandle, OwnHandles, Sharing, Opening, TearingDown, Buffers
  <2>3. OwnBuffers(c)'
    BY <1>t, <1>o, <1>5 DEF TakeHandle, OwnHandles, OwnBuffers, Establishing, Sharing, TearingDown,
       Buffers
  <2> QED
    BY <2>1, <2>2, <2>3, OwnSteady
<1>6. ASSUME NEW c \in Channels, CountHandle(c) PROVE OwnInv'
  <2>1. \A d \in Channels \ {c} : SameOwn(d)
    BY <1>t, <1>6 DEF CountHandle, SameOwn
  <2>2. OwnHandles(c)'
    BY <1>t, <1>o, <1>6 DEF CountHandle, OwnHandles, Sharing, Opening, TearingDown, Buffers
  <2>3. OwnBuffers(c)'
    BY <1>t, <1>o, <1>6 DEF CountHandle, OwnHandles, OwnBuffers, Establishing, Sharing, TearingDown,
       Buffers
  <2> QED
    BY <2>1, <2>2, <2>3, OwnSteady
<1>7. ASSUME NEW c \in Channels, RegisterGpadl(c) PROVE OwnInv'
  <2>1. \A d \in Channels \ {c} : SameOwn(d)
    BY <1>t, <1>7 DEF RegisterGpadl, SameOwn
  <2>2. OwnHandles(c)'
    BY <1>t, <1>o, <1>7 DEF RegisterGpadl, OwnHandles, Sharing, Opening, TearingDown, Buffers
  <2>3. OwnBuffers(c)'
    BY <1>t, <1>o, <1>7 DEF RegisterGpadl, OwnHandles, OwnBuffers, Establishing, Sharing, TearingDown,
       Buffers
  <2> QED
    BY <2>1, <2>2, <2>3, OwnSteady
<1>8. ASSUME NEW c \in Channels, PostHeader(c) PROVE OwnInv'
  <2>1. \A d \in Channels \ {c} : SameOwn(d)
    BY <1>t, <1>8 DEF PostHeader, SameOwn
  <2>2. OwnHandles(c)'
    BY <1>t, <1>o, <1>8 DEF PostHeader, OwnHandles, Sharing, Opening, TearingDown, Buffers
  <2>3. OwnBuffers(c)'
    BY <1>t, <1>o, <1>8 DEF PostHeader, OwnHandles, OwnBuffers, Establishing, Sharing, TearingDown,
       Buffers
  <2> QED
    BY <2>1, <2>2, <2>3, OwnSteady
<1>9. ASSUME NEW c \in Channels, PostBody(c) PROVE OwnInv'
  <2>1. \A d \in Channels \ {c} : SameOwn(d)
    BY <1>t, <1>9 DEF PostBody, SameOwn
  <2>2. OwnHandles(c)'
    BY <1>t, <1>o, <1>9 DEF PostBody, OwnHandles, Sharing, Opening, TearingDown, Buffers
  <2>3. OwnBuffers(c)'
    BY <1>t, <1>o, <1>9 DEF PostBody, OwnHandles, OwnBuffers, Establishing, Sharing, TearingDown,
       Buffers
  <2> QED
    BY <2>1, <2>2, <2>3, OwnSteady
<1>10. ASSUME NEW c \in Channels, RetryBody(c) PROVE OwnInv'
  <2>1. \A d \in Channels \ {c} : SameOwn(d)
    BY <1>t, <1>10 DEF RetryBody, SameOwn
  <2>2. OwnHandles(c)'
    BY <1>t, <1>o, <1>10 DEF RetryBody, OwnHandles, Sharing, Opening, TearingDown, Buffers
  <2>3. OwnBuffers(c)'
    BY <1>t, <1>o, <1>10 DEF RetryBody, OwnHandles, OwnBuffers, Establishing, Sharing, TearingDown,
       Buffers
  <2> QED
    BY <2>1, <2>2, <2>3, OwnSteady
<1>11. ASSUME NEW c \in Channels, BodyRefused(c) PROVE OwnInv'
  <2>1. \A d \in Channels \ {c} : SameOwn(d)
    BY <1>t, <1>11 DEF BodyRefused, SameOwn
  <2>2. OwnHandles(c)'
    BY <1>t, <1>o, <1>11 DEF BodyRefused, OwnHandles, Sharing, Opening, TearingDown, Buffers
  <2>3. OwnBuffers(c)'
    BY <1>t, <1>o, <1>11 DEF BodyRefused, OwnHandles, OwnBuffers, Establishing, Sharing, TearingDown,
       Buffers
  <2> QED
    BY <2>1, <2>2, <2>3, OwnSteady
<1>12. ASSUME NEW c \in Channels, Shared(c) PROVE OwnInv'
  <2>1. \A d \in Channels \ {c} : SameOwn(d)
    BY <1>t, <1>12 DEF Shared, SameOwn
  <2>2. OwnHandles(c)'
    BY <1>t, <1>o, <1>12 DEF Shared, OwnHandles, Sharing, Opening, TearingDown, Buffers
  <2>3. OwnBuffers(c)'
    BY <1>t, <1>o, <1>12 DEF Shared, OwnHandles, OwnBuffers, Establishing, Sharing, TearingDown,
       Buffers
  <2> QED
    BY <2>1, <2>2, <2>3, OwnSteady
<1>13. ASSUME NEW c \in Channels, ShareReturns(c) PROVE OwnInv'
  <2>1. \A d \in Channels \ {c} : SameOwn(d)
    BY <1>t, <1>13 DEF ShareReturns, SameOwn
  <2>2. OwnHandles(c)'
    BY <1>t, <1>o, <1>13 DEF ShareReturns, OwnHandles, Sharing, Opening, TearingDown, Buffers
  <2>3. OwnBuffers(c)'
    BY <1>t, <1>o, <1>13 DEF ShareReturns, OwnHandles, OwnBuffers, Establishing, Sharing, TearingDown,
       Buffers
  <2> QED
    BY <2>1, <2>2, <2>3, OwnSteady
<1>14. ASSUME NEW c \in Channels, NoRingHandle(c) PROVE OwnInv'
  <2>1. \A d \in Channels \ {c} : SameOwn(d)
    BY <1>t, <1>14 DEF NoRingHandle, SameOwn
  <2>2. OwnHandles(c)'
    BY <1>t, <1>o, <1>14 DEF NoRingHandle, OwnHandles, Sharing, Opening, TearingDown, Buffers
  <2>3. OwnBuffers(c)'
    BY <1>t, <1>o, <1>14 DEF NoRingHandle, OwnHandles, OwnBuffers, Establishing, Sharing, TearingDown,
       Buffers
  <2> QED
    BY <2>1, <2>2, <2>3, OwnSteady
<1>15. ASSUME NEW c \in Channels, RegisterOpen(c) PROVE OwnInv'
  <2>1. \A d \in Channels \ {c} : SameOwn(d)
    BY <1>t, <1>15 DEF RegisterOpen, SameOwn
  <2>2. OwnHandles(c)'
    BY <1>t, <1>o, <1>15 DEF RegisterOpen, OwnHandles, Sharing, Opening, TearingDown, Buffers
  <2>3. OwnBuffers(c)'
    BY <1>t, <1>o, <1>15 DEF RegisterOpen, OwnHandles, OwnBuffers, Establishing, Sharing, TearingDown,
       Buffers
  <2> QED
    BY <2>1, <2>2, <2>3, OwnSteady
<1>16. ASSUME NEW c \in Channels, PostOpen(c) PROVE OwnInv'
  <2>1. \A d \in Channels \ {c} : SameOwn(d)
    BY <1>t, <1>16 DEF PostOpen, SameOwn
  <2>2. OwnHandles(c)'
    BY <1>t, <1>o, <1>16 DEF PostOpen, OwnHandles, Sharing, Opening, TearingDown, Buffers
  <2>3. OwnBuffers(c)'
    BY <1>t, <1>o, <1>16 DEF PostOpen, OwnHandles, OwnBuffers, Establishing, Sharing, TearingDown,
       Buffers
  <2> QED
    BY <2>1, <2>2, <2>3, OwnSteady
<1>17. ASSUME NEW c \in Channels, OpenAnswered(c) PROVE OwnInv'
  <2>1. \A d \in Channels \ {c} : SameOwn(d)
    BY <1>t, <1>17 DEF OpenAnswered, SameOwn
  <2>2. OwnHandles(c)'
    BY <1>t, <1>o, <1>17 DEF OpenAnswered, OwnHandles, Sharing, Opening, TearingDown, Buffers
  <2>3. OwnBuffers(c)'
    BY <1>t, <1>o, <1>17 DEF OpenAnswered, OwnHandles, OwnBuffers, Establishing, Sharing, TearingDown,
       Buffers
  <2> QED
    BY <2>1, <2>2, <2>3, OwnSteady
<1>18. ASSUME NEW c \in Channels, OpenReturns(c) PROVE OwnInv'
  <2>1. \A d \in Channels \ {c} : SameOwn(d)
    BY <1>t, <1>18 DEF OpenReturns, SameOwn
  <2>2. OwnHandles(c)'
    BY <1>t, <1>o, <1>18 DEF OpenReturns, OwnHandles, Sharing, Opening, TearingDown, Buffers
  <2>3. OwnBuffers(c)'
    BY <1>t, <1>o, <1>18 DEF OpenReturns, OwnHandles, OwnBuffers, Establishing, Sharing, TearingDown,
       Buffers
  <2> QED
    BY <2>1, <2>2, <2>3, OwnSteady
<1>19. ASSUME NEW c \in Channels, RegisterTeardown(c) PROVE OwnInv'
  <2>1. \A d \in Channels \ {c} : SameOwn(d)
    BY <1>t, <1>19 DEF RegisterTeardown, SameOwn
  <2>2. OwnHandles(c)'
    BY <1>t, <1>o, <1>19 DEF RegisterTeardown, OwnHandles, Sharing, Opening, TearingDown, Buffers
  <2>3. OwnBuffers(c)'
    BY <1>t, <1>o, <1>19 DEF RegisterTeardown, OwnHandles, OwnBuffers, Establishing, Sharing, TearingDown,
       Buffers
  <2> QED
    BY <2>1, <2>2, <2>3, OwnSteady
<1>20. ASSUME NEW c \in Channels, PostTeardown(c) PROVE OwnInv'
  <2>1. \A d \in Channels \ {c} : SameOwn(d)
    BY <1>t, <1>20 DEF PostTeardown, SameOwn
  <2>2. OwnHandles(c)'
    BY <1>t, <1>o, <1>20 DEF PostTeardown, OwnHandles, Sharing, Opening, TearingDown, Buffers
  <2>3. OwnBuffers(c)'
    BY <1>t, <1>o, <1>20 DEF PostTeardown, OwnHandles, OwnBuffers, Establishing, Sharing, TearingDown,
       Buffers
  <2> QED
    BY <2>1, <2>2, <2>3, OwnSteady
<1>21. ASSUME NEW c \in Channels, Torndown(c) PROVE OwnInv'
  <2>1. \A d \in Channels \ {c} : SameOwn(d)
    BY <1>t, <1>21 DEF Torndown, SameOwn
  <2>2. OwnHandles(c)'
    BY <1>t, <1>o, <1>21 DEF Torndown, OwnHandles, Sharing, Opening, TearingDown, Buffers
  <2>3. OwnBuffers(c)'
    BY <1>t, <1>o, <1>21 DEF Torndown, OwnHandles, OwnBuffers, Establishing, Sharing, TearingDown,
       Buffers
  <2> QED
    BY <2>1, <2>2, <2>3, OwnSteady
<1>22. ASSUME NEW c \in Channels, TeardownReturns(c) PROVE OwnInv'
  <2>1. \A d \in Channels \ {c} : SameOwn(d)
    BY <1>t, <1>22 DEF TeardownReturns, SameOwn
  <2>2. OwnHandles(c)'
    BY <1>t, <1>o, <1>22 DEF TeardownReturns, OwnHandles, Sharing, Opening, TearingDown, Buffers
  <2>3. OwnBuffers(c)'
    BY <1>t, <1>o, <1>22 DEF TeardownReturns, OwnHandles, OwnBuffers, Establishing, Sharing, TearingDown,
       Buffers
  <2> QED
    BY <2>1, <2>2, <2>3, OwnSteady
<1>23. ASSUME NEW c \in Channels, HostActs(c) PROVE OwnInv'
  <2>1. UNCHANGED <<pc, call, gpadl, failed, handle, pages, made, life>>
    BY <1>23 DEF HostActs
  <2> QED
    BY <1>o, <2>1 DEF OwnInv, OwnHandles, OwnBuffers
<1>24. ASSUME NEW a \in answers, OnOpenResult(a) PROVE OwnInv'
  <2>1. UNCHANGED <<pc, call, gpadl, failed, handle, pages, made, life>>
    BY <1>24 DEF OnOpenResult, Wake
  <2> QED
    BY <1>o, <2>1 DEF OwnInv, OwnHandles, OwnBuffers
<1>25. ASSUME NEW a \in answers, OnGpadlCreated(a) PROVE OwnInv'
  <2>1. UNCHANGED <<pc, call, gpadl, failed, handle, pages, made, life>>
    BY <1>25 DEF OnGpadlCreated, Wake
  <2> QED
    BY <1>o, <2>1 DEF OwnInv, OwnHandles, OwnBuffers
<1>26. ASSUME NEW a \in answers, OnGpadlTorndown(a) PROVE OwnInv'
  <2>1. UNCHANGED <<pc, call, gpadl, failed, handle, pages, made, life>>
    BY <1>26 DEF OnGpadlTorndown, Wake
  <2> QED
    BY <1>o, <2>1 DEF OwnInv, OwnHandles, OwnBuffers
<1> QED
  BY <1>1, <1>2, <1>3, <1>4, <1>5, <1>6, <1>7, <1>8, <1>9, <1>10, <1>11, <1>12, <1>13,
     <1>14, <1>15, <1>16, <1>17, <1>18, <1>19, <1>20, <1>21, <1>22, <1>23, <1>24, <1>25, <1>26
  DEF Next, Driver, Establish, OpenChannel, Teardown, Worker


-----------------------------------------------------------------------------
SameTear(c) == pc[c] \in TearingDown /\ handle'[c] = handle[c] /\ call'[c] = call[c]

LEMMA EntriesNamed ==
  ASSUME StateOK, TeardownEntry, Entries' \subseteq Entries,
         \A d \in Channels : pc'[d] \in TearingDown => SameTear(d)
  PROVE  TeardownEntry'
BY EntryChannels DEF TeardownEntry, SameTear

\* Every step leaves the entry of a teardown as it was registered.
LEMMA EntryKept == IInv /\ TeardownEntry /\ Next => TeardownEntry'
<1> SUFFICES ASSUME IInv, TeardownEntry, Next PROVE TeardownEntry'
  OBVIOUS
<1>p. \A c \in Channels : pc[c] # "panic"
  BY DEF Next, Panicked
<1>t. /\ StateOK /\ ListInv /\ pc \in [Channels -> Steps]
      /\ handle \in [Channels -> [Buffers -> Handles]] /\ call \in [Channels -> Buffers]
  BY DEF IInv, StateOK
<1> USE DEF local, driver, host, Goto
<1>1. ASSUME NEW c \in Channels, Open(c) PROVE TeardownEntry'
  <2>1. list' = list /\ \A d \in Channels : pc'[d] \in TearingDown => SameTear(d)
    BY <1>t, <1>1 DEF Open, SameTear, TearingDown
  <2> QED
    BY <1>t, <2>1, EntriesNamed DEF Entries
<1>2. ASSUME NEW c \in Channels, InitializeBuffer(c) PROVE TeardownEntry'
  <2>1. list' = list /\ \A d \in Channels : pc'[d] \in TearingDown => SameTear(d)
    BY <1>t, <1>2 DEF InitializeBuffer, SameTear, TearingDown
  <2> QED
    BY <1>t, <2>1, EntriesNamed DEF Entries
<1>3. ASSUME NEW c \in Channels, DestroyBuffer(c) PROVE TeardownEntry'
  <2>1. list' = list /\ \A d \in Channels : pc'[d] \in TearingDown => SameTear(d)
    BY <1>t, <1>3 DEF DestroyBuffer, SameTear, TearingDown
  <2> QED
    BY <1>t, <2>1, EntriesNamed DEF Entries
<1>4. ASSUME NEW c \in Channels, Close(c) PROVE TeardownEntry'
  <2>1. list' = list /\ \A d \in Channels : pc'[d] \in TearingDown => SameTear(d)
    BY <1>t, <1>4 DEF Close, SameTear, TearingDown
  <2> QED
    BY <1>t, <2>1, EntriesNamed DEF Entries
<1>5. ASSUME NEW c \in Channels, TakeHandle(c) PROVE TeardownEntry'
  <2>1. list' = list /\ \A d \in Channels : pc'[d] \in TearingDown => SameTear(d)
    BY <1>t, <1>5 DEF TakeHandle, SameTear, TearingDown
  <2> QED
    BY <1>t, <2>1, EntriesNamed DEF Entries
<1>6. ASSUME NEW c \in Channels, CountHandle(c) PROVE TeardownEntry'
  <2>1. list' = list /\ \A d \in Channels : pc'[d] \in TearingDown => SameTear(d)
    BY <1>t, <1>6 DEF CountHandle, SameTear, TearingDown
  <2> QED
    BY <1>t, <2>1, EntriesNamed DEF Entries
<1>7. ASSUME NEW c \in Channels, RegisterGpadl(c) PROVE TeardownEntry'
  <2>1. /\ Register("gpadl", c, gpadl[c]) /\ ~ Registered(c)
        /\ \A d \in Channels \ {c} : pc'[d] \in TearingDown => SameTear(d)
        /\ pc'[c] \in TearingDown => gpadl[c] = handle'[c][call'[c]]
    BY <1>t, <1>7 DEF RegisterGpadl, SameTear, TearingDown, Registered
  <2>2. Entries' = Entries \cup {[type |-> "gpadl", chan |-> c, gpadl |-> gpadl[c]]}
    BY <1>p, <1>t, <2>1, RegisterEntries
  <2>3. \A e \in Entries : e.chan \in Channels \ {c}
    BY <1>p, <1>t, <2>1, EntryChannels DEF ListInv, EntryWhileRegistered
  <2> QED
    BY <2>1, <2>2, <2>3 DEF TeardownEntry, SameTear
<1>8. ASSUME NEW c \in Channels, PostHeader(c) PROVE TeardownEntry'
  <2>1. list' = list /\ \A d \in Channels : pc'[d] \in TearingDown => SameTear(d)
    BY <1>t, <1>8 DEF PostHeader, SameTear, TearingDown
  <2> QED
    BY <1>t, <2>1, EntriesNamed DEF Entries
<1>9. ASSUME NEW c \in Channels, PostBody(c) PROVE TeardownEntry'
  <2>1. list' = list /\ \A d \in Channels : pc'[d] \in TearingDown => SameTear(d)
    BY <1>t, <1>9 DEF PostBody, SameTear, TearingDown
  <2> QED
    BY <1>t, <2>1, EntriesNamed DEF Entries
<1>10. ASSUME NEW c \in Channels, RetryBody(c) PROVE TeardownEntry'
  <2>1. list' = list /\ \A d \in Channels : pc'[d] \in TearingDown => SameTear(d)
    BY <1>t, <1>10 DEF RetryBody, SameTear, TearingDown
  <2> QED
    BY <1>t, <2>1, EntriesNamed DEF Entries
<1>11. ASSUME NEW c \in Channels, BodyRefused(c) PROVE TeardownEntry'
  <2>1. list' = list /\ \A d \in Channels : pc'[d] \in TearingDown => SameTear(d)
    BY <1>t, <1>11 DEF BodyRefused, SameTear, TearingDown
  <2> QED
    BY <1>t, <2>1, EntriesNamed DEF Entries
<1>12. ASSUME NEW c \in Channels, Shared(c) PROVE TeardownEntry'
  <2>1. list' = list /\ \A d \in Channels : pc'[d] \in TearingDown => SameTear(d)
    BY <1>t, <1>12 DEF Shared, SameTear, TearingDown
  <2> QED
    BY <1>t, <2>1, EntriesNamed DEF Entries
<1>13. ASSUME NEW c \in Channels, ShareReturns(c) PROVE TeardownEntry'
  <2>1. Unlink(c) /\ Registered(c) /\ \A d \in Channels : pc'[d] \in TearingDown => SameTear(d)
    BY <1>t, <1>13 DEF ShareReturns, SameTear, TearingDown, Registered
  <2>2. Entries' \subseteq Entries
    BY <1>p, <1>t, <2>1, UnlinkEntries
  <2> QED
    BY <1>t, <2>1, <2>2, EntriesNamed
<1>14. ASSUME NEW c \in Channels, NoRingHandle(c) PROVE TeardownEntry'
  <2>1. list' = list /\ \A d \in Channels : pc'[d] \in TearingDown => SameTear(d)
    BY <1>t, <1>14 DEF NoRingHandle, SameTear, TearingDown
  <2> QED
    BY <1>t, <2>1, EntriesNamed DEF Entries
<1>15. ASSUME NEW c \in Channels, RegisterOpen(c) PROVE TeardownEntry'
  <2>1. /\ Register("open", c, NoHandle) /\ ~ Registered(c)
        /\ \A d \in Channels \ {c} : pc'[d] \in TearingDown => SameTear(d)
        /\ pc'[c] \in TearingDown => NoHandle = handle'[c][call'[c]]
    BY <1>t, <1>15 DEF RegisterOpen, SameTear, TearingDown, Registered
  <2>2. Entries' = Entries \cup {[type |-> "open", chan |-> c, gpadl |-> NoHandle]}
    BY <1>p, <1>t, <2>1, RegisterEntries
  <2>3. \A e \in Entries : e.chan \in Channels \ {c}
    BY <1>p, <1>t, <2>1, EntryChannels DEF ListInv, EntryWhileRegistered
  <2> QED
    BY <2>1, <2>2, <2>3 DEF TeardownEntry, SameTear
<1>16. ASSUME NEW c \in Channels, PostOpen(c) PROVE TeardownEntry'
  <2>1. list' = list /\ \A d \in Channels : pc'[d] \in TearingDown => SameTear(d)
    BY <1>t, <1>16 DEF PostOpen, SameTear, TearingDown
  <2> QED
    BY <1>t, <2>1, EntriesNamed DEF Entries
<1>17. ASSUME NEW c \in Channels, OpenAnswered(c) PROVE TeardownEntry'
  <2>1. list' = list /\ \A d \in Channels : pc'[d] \in TearingDown => SameTear(d)
    BY <1>t, <1>17 DEF OpenAnswered, SameTear, TearingDown
  <2> QED
    BY <1>t, <2>1, EntriesNamed DEF Entries
<1>18. ASSUME NEW c \in Channels, OpenReturns(c) PROVE TeardownEntry'
  <2>1. Unlink(c) /\ Registered(c) /\ \A d \in Channels : pc'[d] \in TearingDown => SameTear(d)
    BY <1>t, <1>18 DEF OpenReturns, SameTear, TearingDown, Registered
  <2>2. Entries' \subseteq Entries
    BY <1>p, <1>t, <2>1, UnlinkEntries
  <2> QED
    BY <1>t, <2>1, <2>2, EntriesNamed
<1>19. ASSUME NEW c \in Channels, RegisterTeardown(c) PROVE TeardownEntry'
  <2>1. /\ Register("teardown", c, handle[c][call[c]]) /\ ~ Registered(c)
        /\ \A d \in Channels \ {c} : pc'[d] \in TearingDown => SameTear(d)
        /\ pc'[c] \in TearingDown => handle[c][call[c]] = handle'[c][call'[c]]
    BY <1>t, <1>19 DEF RegisterTeardown, SameTear, TearingDown, Registered
  <2>2. Entries' = Entries \cup {[type |-> "teardown", chan |-> c, gpadl |-> handle[c][call[c]]]}
    BY <1>p, <1>t, <2>1, RegisterEntries
  <2>3. \A e \in Entries : e.chan \in Channels \ {c}
    BY <1>p, <1>t, <2>1, EntryChannels DEF ListInv, EntryWhileRegistered
  <2> QED
    BY <2>1, <2>2, <2>3 DEF TeardownEntry, SameTear
<1>20. ASSUME NEW c \in Channels, PostTeardown(c) PROVE TeardownEntry'
  <2>1. list' = list /\ \A d \in Channels : pc'[d] \in TearingDown => SameTear(d)
    BY <1>t, <1>20 DEF PostTeardown, SameTear, TearingDown
  <2> QED
    BY <1>t, <2>1, EntriesNamed DEF Entries
<1>21. ASSUME NEW c \in Channels, Torndown(c) PROVE TeardownEntry'
  <2>1. list' = list /\ \A d \in Channels : pc'[d] \in TearingDown => SameTear(d)
    BY <1>t, <1>21 DEF Torndown, SameTear, TearingDown
  <2> QED
    BY <1>t, <2>1, EntriesNamed DEF Entries
<1>22. ASSUME NEW c \in Channels, TeardownReturns(c) PROVE TeardownEntry'
  <2>1. Unlink(c) /\ Registered(c) /\ \A d \in Channels : pc'[d] \in TearingDown => SameTear(d)
    BY <1>t, <1>22 DEF TeardownReturns, SameTear, TearingDown, Registered
  <2>2. Entries' \subseteq Entries
    BY <1>p, <1>t, <2>1, UnlinkEntries
  <2> QED
    BY <1>t, <2>1, <2>2, EntriesNamed
<1>23. ASSUME NEW c \in Channels, HostActs(c) PROVE TeardownEntry'
  <2>1. list' = list /\ \A d \in Channels : pc'[d] \in TearingDown => SameTear(d)
    BY <1>t, <1>23 DEF HostActs, SameTear, TearingDown
  <2> QED
    BY <1>t, <2>1, EntriesNamed DEF Entries
<1>24. ASSUME NEW a \in answers, OnOpenResult(a) PROVE TeardownEntry'
  <2>1. list' = list /\ \A d \in Channels : pc'[d] \in TearingDown => SameTear(d)
    BY <1>24 DEF OnOpenResult, Wake, SameTear
  <2> QED
    BY <1>t, <2>1, EntriesNamed DEF Entries
<1>25. ASSUME NEW a \in answers, OnGpadlCreated(a) PROVE TeardownEntry'
  <2>1. list' = list /\ \A d \in Channels : pc'[d] \in TearingDown => SameTear(d)
    BY <1>25 DEF OnGpadlCreated, Wake, SameTear
  <2> QED
    BY <1>t, <2>1, EntriesNamed DEF Entries
<1>26. ASSUME NEW a \in answers, OnGpadlTorndown(a) PROVE TeardownEntry'
  <2>1. list' = list /\ \A d \in Channels : pc'[d] \in TearingDown => SameTear(d)
    BY <1>26 DEF OnGpadlTorndown, Wake, SameTear
  <2> QED
    BY <1>t, <2>1, EntriesNamed DEF Entries
<1> QED
  BY <1>1, <1>2, <1>3, <1>4, <1>5, <1>6, <1>7, <1>8, <1>9, <1>10, <1>11, <1>12, <1>13,
     <1>14, <1>15, <1>16, <1>17, <1>18, <1>19, <1>20, <1>21, <1>22, <1>23, <1>24, <1>25, <1>26
  DEF Next, Driver, Establish, OpenChannel, Teardown, Worker


-----------------------------------------------------------------------------
LEMMA NamesBefore == StateOK /\ Next /\ HandleNamesOneGpadl' => HandleNamesOneGpadl
<1> SUFFICES ASSUME StateOK, Next, HandleNamesOneGpadl' PROVE HandleNamesOneGpadl
  OBVIOUS
<1>1. made' = made \/ \E c \in Channels : made' = [made EXCEPT ![c] = @ \cup {nextHandle}]
  BY DEF Next, Driver, Establish, OpenChannel, Teardown, Worker, Open, InitializeBuffer,
     DestroyBuffer, Close, TakeHandle, CountHandle, RegisterGpadl, PostHeader, PostBody,
     RetryBody, BodyRefused, Shared, ShareReturns, NoRingHandle, RegisterOpen, PostOpen,
     OpenAnswered, OpenReturns, RegisterTeardown, PostTeardown, Torndown, TeardownReturns,
     HostActs, OnOpenResult, OnGpadlCreated, OnGpadlTorndown, Wake
<1>2. made \in [Channels -> SUBSET Handles]
  BY DEF StateOK
<1>3. \A c \in Channels : made[c] \subseteq made'[c]
  BY <1>1, <1>2
<1> QED
  BY <1>3 DEF HandleNamesOneGpadl

\* Nothing about a teardown is under way for c.
NoTeardown(c) ==
  /\ \A i \in DOMAIN toHost[c] : toHost[c][i].type # "teardown"
  /\ \A a \in answers : a.chan = c => a.type # "teardown"

\* Nothing about the teardown of c changes, but that the host may forget a GPADL.
SameThread(c) ==
  /\ pc'[c] = pc[c] /\ event'[c] = event[c] /\ failed'[c] = failed[c]
  /\ handle'[c] = handle[c] /\ call'[c] = call[c]

SameTorn(c) ==
  /\ SameThread(c) /\ toHost'[c] = toHost[c]
  /\ \A a : a.chan = c /\ a.type = "teardown" => (a \in answers' <=> a \in answers)
  /\ \A g \in mapped' : g.chan = c => g \in mapped

LEMMA TornSteady ==
  ASSUME NEW c \in Channels, OneTorn(c), SameTorn(c)
  PROVE  OneTorn(c)'
<1>1. \A t : Asked(c, t)' <=> Asked(c, t)
  BY DEF Asked, SameTorn
<1>2. Answered(c, "teardown")' <=> Answered(c, "teardown")
  BY DEF Answered, SameTorn
<1>3. Unmapped(c) => Unmapped(c)'
  BY DEF Unmapped, SameTorn, SameThread
<1>4. TornOnce(c)'
  BY DEF OneTorn, TornOnce, SameTorn, SameThread
<1>5. TornAnswerAlone(c)'
  BY <1>1, <1>3 DEF OneTorn, TornAnswerAlone, SameTorn, SameThread
<1>6. TornWokenAlone(c)'
  BY <1>1, <1>3 DEF OneTorn, TornWokenAlone, SameTorn, SameThread
<1>7. SomeTorn(c)'
  BY <1>1, <1>2 DEF OneTorn, SomeTorn, SameTorn, SameThread
<1> QED
  BY <1>4, <1>5, <1>6, <1>7 DEF OneTorn

LEMMA TornOthers ==
  ASSUME TornAll, NEW c \in Channels, OneTorn(c)', \A d \in Channels \ {c} : SameTorn(d)
  PROVE  TornAll'
<1>1. ASSUME NEW d \in Channels \ {c} PROVE OneTorn(d)'
  BY <1>1, TornSteady DEF TornAll
<1> QED
  BY <1>1 DEF TornAll

LEMMA NotTearing ==
  ASSUME NEW c \in Channels, OneTorn(c), pc[c] # "teardownWait" \/ failed[c]
  PROVE  NoTeardown(c)
BY DEF OneTorn, TornOnce, TornAnswerAlone, NoTeardown

LEMMA TearsNothing ==
  ASSUME NEW c \in Channels, NoTeardown(c)', pc'[c] \notin TearingDown
  PROVE  OneTorn(c)'
BY DEF NoTeardown, TearingDown, OneTorn, TornOnce, TornAnswerAlone, TornWokenAlone, SomeTorn

LEMMA AcceptedMessages ==
  ASSUME StateOK, NEW c \in Channels, NEW t, NEW h, Accepted(c, t, h)
  PROVE  /\ \A i \in DOMAIN toHost'[c] :
              \/ i = Len(toHost[c]) + 1 /\ toHost'[c][i] = [type |-> t, gpadl |-> h]
              \/ i \in DOMAIN toHost[c] /\ toHost'[c][i] = toHost[c][i]
         /\ Len(toHost[c]) + 1 \in DOMAIN toHost'[c]
         /\ toHost'[c][Len(toHost[c]) + 1] = [type |-> t, gpadl |-> h]
         /\ \A d \in Channels \ {c} : toHost'[d] = toHost[d]
<1> DEFINE m == [type |-> t, gpadl |-> h]
<1>1. toHost[c] \in Seq(Messages) /\ toHost \in [Channels -> Seq(Messages)]
  BY DEF StateOK
<1>2. toHost' = [toHost EXCEPT ![c] = Append(toHost[c], m)]
  BY DEF Accepted
<1> HIDE DEF m
<1>3. toHost'[c] = Append(toHost[c], m) /\ \A d \in Channels \ {c} : toHost'[d] = toHost[d]
  BY <1>1, <1>2
<1>4. /\ DOMAIN Append(toHost[c], m) = 1 .. Len(toHost[c]) + 1
      /\ \A i \in 1 .. Len(toHost[c]) : Append(toHost[c], m)[i] = toHost[c][i]
      /\ Append(toHost[c], m)[Len(toHost[c]) + 1] = m
      /\ DOMAIN toHost[c] = 1 .. Len(toHost[c]) /\ Len(toHost[c]) \in Nat
  BY <1>1, LenProperties
<1> QED
  BY <1>3, <1>4 DEF m

\* A step of c outside of a teardown.
LEMMA OtherStep ==
  ASSUME StateOK, TornAll, NEW c \in Channels, pc[c] # "teardownWait",
         pc'[c] \notin TearingDown, answers' = answers, mapped' = mapped,
         \/ toHost' = toHost
         \/ \E t \in {"gpadl", "open", "close"}, h \in Handles : Accepted(c, t, h),
         \A d \in Channels \ {c} : SameThread(d)
  PROVE  TornAll'
<1>1. NoTeardown(c)
  BY NotTearing DEF TornAll
<1>2. NoTeardown(c)' /\ \A d \in Channels \ {c} : toHost'[d] = toHost[d]
  <2>1. CASE toHost' = toHost
    BY <1>1, <2>1 DEF NoTeardown
  <2>2. ASSUME NEW t \in {"gpadl", "open", "close"}, NEW h \in Handles, Accepted(c, t, h)
        PROVE  NoTeardown(c)' /\ \A d \in Channels \ {c} : toHost'[d] = toHost[d]
    <3>1. /\ \A i \in DOMAIN toHost'[c] :
               \/ toHost'[c][i] = [type |-> t, gpadl |-> h]
               \/ i \in DOMAIN toHost[c] /\ toHost'[c][i] = toHost[c][i]
          /\ \A d \in Channels \ {c} : toHost'[d] = toHost[d]
      BY <2>2, AcceptedMessages
    <3> QED BY <1>1, <3>1 DEF NoTeardown
  <2> QED BY <2>1, <2>2
<1>3. OneTorn(c)'
  BY <1>2, TearsNothing
<1> QED
  BY <1>2, <1>3, TornOthers DEF SameTorn


\* The host acts on a request of c.
LEMMA HostTears ==
  ASSUME StateOK, AnswerInv, TornAll, NEW c \in Channels, HostActs(c)
  PROVE  TornAll'
<1> USE DEF local, driver
<1> DEFINE q == toHost[c]
           m == Head(q)
           g == [chan |-> c, gpadl |-> m.gpadl]
<1>1. /\ q \in Seq(Messages) /\ q # <<>> /\ Len(q) \in Nat \ {0} /\ DOMAIN q = 1 .. Len(q)
      /\ toHost' = [toHost EXCEPT ![c] = Tail(@)]
  BY LenProperties DEF HostActs, StateOK
<1>2. /\ DOMAIN Tail(q) = 1 .. Len(q) - 1
      /\ \A i \in 1 .. Len(q) - 1 : Tail(q)[i] = q[i + 1] /\ i + 1 \in DOMAIN q
      /\ 1 \in DOMAIN q /\ m = q[1]
  BY <1>1
<1>3. /\ pc' = pc /\ event' = event /\ failed' = failed /\ handle' = handle /\ call' = call
      /\ toHost'[c] = Tail(q) /\ \A d \in Channels \ {c} : toHost'[d] = toHost[d]
  BY <1>1 DEF HostActs, StateOK
<1>4. /\ m.type \in {"gpadl", "open", "teardown", "close"}
      /\ m.type = "gpadl" =>
           Answer("gpadl", c, m.gpadl) /\ mapped' \in {mapped, mapped \cup {g}}
      /\ m.type = "open" => Answer("open", c, NoHandle) /\ mapped' = mapped
      /\ m.type = "teardown" => Answer("teardown", c, m.gpadl) /\ mapped' = mapped \ {g}
      /\ m.type = "close" => answers' = answers /\ mapped' = mapped
  BY DEF HostActs
<1>5. TornOnce(c) /\ TornAnswerAlone(c) /\ TornWokenAlone(c) /\ SomeTorn(c) /\ AskedOnce(c)
  BY DEF TornAll, OneTorn, AnswerInv, OneAnswer
<1>g. g.chan = c /\ g.gpadl = m.gpadl
  OBVIOUS
<1> HIDE DEF m, q, g
<1>6. \A d \in Channels \ {c} : SameTorn(d)
  BY <1>3, <1>4, <1>g DEF SameTorn, SameThread, Answer
<1>7. CASE m.type \in {"gpadl", "open"}
  <2>1. pc[c] \in {"shareWait", "openWait"}
    BY <1>2, <1>5, <1>7 DEF AskedOnce, q
  <2>2. NoTeardown(c)
    BY <2>1, NotTearing DEF TornAll
  <2>3. NoTeardown(c)'
    <3>1. \A i \in DOMAIN toHost'[c] : toHost'[c][i].type # "teardown"
      BY <1>2, <1>3, <2>2 DEF NoTeardown, q
    <3>2. \A a \in answers' : a.chan = c => a.type # "teardown"
      BY <1>4, <1>7, <2>2 DEF NoTeardown, Answer
    <3> QED BY <3>1, <3>2 DEF NoTeardown
  <2>4. pc'[c] \notin TearingDown
    BY <1>3, <2>1 DEF TearingDown
  <2>5. OneTorn(c)'
    BY <2>3, <2>4, TearsNothing
  <2> QED BY <1>6, <2>5, TornOthers
<1>8. CASE m.type = "close"
  <2>1. Asked(c, "teardown")' <=> Asked(c, "teardown")
    <3>1. Asked(c, "teardown")' => Asked(c, "teardown")
      BY <1>2, <1>3 DEF Asked, q
    <3>2. ASSUME NEW i \in DOMAIN q, q[i].type = "teardown" PROVE Asked(c, "teardown")'
      <4>1. i # 1
        BY <1>2, <1>8, <3>2
      <4>2. PICK k \in 1 .. Len(q) - 1 : k + 1 = i
        BY <1>1, <4>1
      <4> QED BY <1>2, <1>3, <3>2, <4>2 DEF Asked
    <3> QED BY <3>1, <3>2 DEF Asked, q
  <2>2. TornOnce(c)'
    <3>1. ASSUME NEW i \in 1 .. Len(q) - 1, Tail(q)[i].type = "teardown"
          PROVE  pc[c] = "teardownWait" /\ ~ failed[c] /\ Tail(q)[i].gpadl = handle[c][call[c]]
      BY <1>2, <1>5, <3>1 DEF TornOnce, q
    <3>2. ASSUME NEW i \in 1 .. Len(q) - 1, NEW j \in 1 .. Len(q) - 1,
                 Tail(q)[i].type = "teardown", Tail(q)[j].type = "teardown"
          PROVE  i = j
      <4>1. i + 1 = j + 1
        BY <1>2, <1>5, <3>2 DEF TornOnce, q
      <4> QED BY <1>1, <4>1
    <3> QED BY <1>2, <1>3, <3>1, <3>2 DEF TornOnce
  <2>3. TornAnswerAlone(c)' /\ TornWokenAlone(c)'
    BY <1>3, <1>4, <1>5, <1>8, <2>1 DEF TornAnswerAlone, TornWokenAlone, Unmapped
  <2>4. SomeTorn(c)'
    BY <1>3, <1>4, <1>5, <1>8, <2>1 DEF SomeTorn, Answered
  <2>5. OneTorn(c)'
    BY <2>2, <2>3, <2>4 DEF OneTorn
  <2> QED BY <1>6, <2>5, TornOthers
<1>9. CASE m.type = "teardown"
  <2> DEFINE new == [type |-> "teardown", chan |-> c, gpadl |-> m.gpadl]
  <2>1. answers' = answers \cup {new} /\ new.type = "teardown" /\ new.chan = c /\ new.gpadl = m.gpadl
    BY <1>4, <1>9 DEF Answer
  <2> HIDE DEF new
  <2>2. /\ pc[c] = "teardownWait" /\ ~ failed[c] /\ m.gpadl = handle[c][call[c]]
        /\ \A i \in DOMAIN q : q[i].type = "teardown" => i = 1
    BY <1>2, <1>5, <1>9 DEF TornOnce, q
  <2>3. \A i \in DOMAIN toHost'[c] : toHost'[c][i].type # "teardown"
    <3> SUFFICES ASSUME NEW i \in 1 .. Len(q) - 1 PROVE Tail(q)[i].type # "teardown"
      BY <1>2, <1>3
    <3>1. i + 1 # 1 /\ i + 1 \in DOMAIN q /\ Tail(q)[i] = q[i + 1]
      BY <1>1, <1>2
    <3> QED BY <3>1, <2>2
  <2>4. Asked(c, "teardown")
    BY <1>2, <1>9 DEF Asked, q
  <2>5. ~ event[c] /\ \A b \in answers : b.chan = c => b.type # "teardown"
    BY <1>5, <2>2, <2>4 DEF TornWokenAlone, TornAnswerAlone
  <2>6. Unmapped(c)'
    BY <1>3, <1>4, <1>9, <2>2 DEF Unmapped, g
  <2>7. ~ Asked(c, "teardown")'
    BY <2>3 DEF Asked
  <2>8. TornOnce(c)'
    BY <2>3 DEF TornOnce
  <2>9. TornAnswerAlone(c)'
    <3> SUFFICES ASSUME NEW b \in answers', b.chan = c, b.type = "teardown"
                 PROVE  b.gpadl = handle[c][call[c]]
      BY <1>3, <2>2, <2>5, <2>6, <2>7 DEF TornAnswerAlone
    <3> QED BY <2>1, <2>2, <2>5
  <2>10. TornWokenAlone(c)' /\ SomeTorn(c)'
    BY <1>3, <2>1, <2>2, <2>5 DEF TornWokenAlone, SomeTorn, Answered
  <2>11. OneTorn(c)'
    BY <2>8, <2>9, <2>10 DEF OneTorn
  <2> QED BY <1>6, <2>11, TornOthers
<1> QED
  BY <1>4, <1>7, <1>8, <1>9

\* The worker wakes nobody who tears a GPADL down when the answer is to
\* another request.
LEMMA OtherAnswer ==
  ASSUME StateOK, AnswerInv, TornAll, NEW a \in answers, OnOpenResult(a) \/ OnGpadlCreated(a)
  PROVE  TornAll'
<1> USE DEF local, driver
<1> DEFINE c == a.chan
           matches == {i \in DOMAIN list : /\ list[i].type = a.type /\ list[i].chan = a.chan
                                           /\ a.type = "gpadl" => list[i].gpadl = a.gpadl}
<1>1. c \in Channels
  BY DEF StateOK, Requests
<1>2. a.type \in {"gpadl", "open"} /\ Wake(a, matches)
  BY DEF OnOpenResult, OnGpadlCreated
<1>3. pc[c] \in {"shareWait", "openWait"}
  BY <1>1, <1>2 DEF AnswerInv, OneAnswer, AnswerAlone
<1>4. /\ pc' = pc /\ toHost' = toHost /\ answers' = answers \ {a} /\ failed' = failed
      /\ handle' = handle /\ call' = call /\ mapped' = mapped
  BY <1>2 DEF Wake
<1>5. matches \in SUBSET Nat
  <2>1. DOMAIN list = 1 .. Len(list)
    BY LenProperties DEF StateOK
  <2> QED BY <2>1
<1>6. event' = event \/ event' = [event EXCEPT ![c] = TRUE]
  <2>1. CASE matches = {}
    BY <1>2, <2>1 DEF Wake
  <2>2. CASE matches # {}
    <3>1. Min(matches) \in matches
      BY <1>5, <2>2, Least
    <3> QED BY <1>2, <2>2, <3>1 DEF Wake
  <2> QED BY <2>1, <2>2
<1> HIDE DEF c, matches
<1>7. \A d \in Channels \ {c} : event'[d] = event[d]
  BY <1>1, <1>6 DEF StateOK
<1>8. \A d \in Channels \ {c} : SameTorn(d)
  BY <1>2, <1>4, <1>7 DEF SameTorn, SameThread
<1>9. NoTeardown(c)' /\ pc'[c] \notin TearingDown
  <2>1. NoTeardown(c)
    BY <1>1, <1>3, NotTearing DEF TornAll
  <2> QED BY <1>3, <1>4, <2>1 DEF NoTeardown, TearingDown
<1>10. OneTorn(c)'
  BY <1>1, <1>9, TearsNothing
<1> QED
  BY <1>1, <1>8, <1>10, TornOthers

\* The answer to a teardown finds the thread it is for, when handles are names.
LEMMA TeardownAnswered ==
  ASSUME StateOK, ListInv, OwnInv, TeardownEntry, HandleNamesOneGpadl, TornAll, ~ Panicked,
         NEW a \in answers, OnGpadlTorndown(a)
  PROVE  TornAll'
<1> USE DEF local, driver
<1> DEFINE c == a.chan
           matches == {i \in DOMAIN list : list[i].type = "teardown" /\ list[i].gpadl = a.gpadl}
<1>1. c \in Channels /\ a \in Requests
  BY DEF StateOK, Requests
<1>2. /\ a.type = "teardown" /\ answers' = answers \ {a} /\ pc' = pc /\ toHost' = toHost
      /\ failed' = failed /\ handle' = handle /\ call' = call /\ mapped' = mapped
      /\ Wake(a, matches)
  BY DEF OnGpadlTorndown, Wake
<1>3. /\ pc[c] = "teardownWait" /\ ~ failed[c] /\ a.gpadl = handle[c][call[c]]
      /\ ~ event[c] /\ ~ Asked(c, "teardown") /\ Unmapped(c)
  BY <1>1, <1>2 DEF TornAll, OneTorn, TornAnswerAlone
<1>4. PICK i \in DOMAIN list : list[i].chan = c
  <2>1. Registered(c) /\ pc[c] # "panic"
    BY <1>3 DEF Registered
  <2> QED BY <1>1, <2>1 DEF ListInv, EntryWhileRegistered, Entries
<1>n. \A d \in Channels : pc[d] # "panic"
  BY DEF Panicked
<1>e. \A e \in Entries : pc[e.chan] \in TearingDown => e.gpadl = handle[e.chan][call[e.chan]]
  BY DEF TeardownEntry
<1>5. i \in matches
  <2>1. list[i] \in Entries
    BY DEF Entries
  <2>2. list[i].type = "teardown"
    BY <1>1, <1>3, <1>4, <1>n, <2>1 DEF ListInv, EntryOfCall, Sharing, Opening
  <2>3. list[i].gpadl = a.gpadl
    BY <1>3, <1>4, <1>e, <2>1 DEF TearingDown
  <2> QED BY <2>2, <2>3
<1>6. matches \in SUBSET Nat
  <2>1. DOMAIN list = 1 .. Len(list)
    BY LenProperties DEF StateOK
  <2> QED BY <2>1
<1>7. Min(matches) \in matches
  BY <1>5, <1>6, Least
<1>8. \A k \in matches : list[k].chan = c
  <2> SUFFICES ASSUME NEW k \in matches PROVE list[k].chan = c
    OBVIOUS
  <2> DEFINE d == list[k].chan
  <2>1. list[k] \in Entries /\ list[k].type = "teardown" /\ list[k].gpadl = a.gpadl
    BY DEF Entries
  <2>2. d \in Channels
    BY <2>1, EntryChannels
  <2>3. pc[d] \in TearingDown
    BY <1>n, <2>1, <2>2 DEF ListInv, EntryOfCall
  <2>4. a.gpadl = handle[d][call[d]]
    BY <1>e, <2>1, <2>3
  <2>5. \A x \in Channels : pc[x] \in TearingDown => handle[x][call[x]] \in made[x]
    <3> SUFFICES ASSUME NEW x \in Channels, pc[x] \in TearingDown
                 PROVE  handle[x][call[x]] \in made[x]
      OBVIOUS
    <3>1. OwnHandles(x) /\ call[x] \in Buffers
      BY DEF OwnInv, StateOK
    <3> QED BY <3>1 DEF OwnHandles
  <2>6. a.gpadl \in made[c] /\ a.gpadl \in made[d]
    BY <1>1, <1>3, <2>2, <2>3, <2>4, <2>5 DEF TearingDown
  <2> QED BY <1>1, <2>2, <2>6 DEF HandleNamesOneGpadl
<1>9. event' = [event EXCEPT ![c] = TRUE] /\ event \in [Channels -> BOOLEAN]
  BY <1>2, <1>5, <1>7, <1>8 DEF Wake, StateOK
<1>10. ASSUME NEW b \in answers', b.chan = c PROVE b.type # "teardown"
  <2> SUFFICES ASSUME b.type = "teardown" PROVE FALSE
    OBVIOUS
  <2>1. b \in answers /\ b # a /\ b \in Requests
    BY <1>2, <1>10 DEF StateOK
  <2>2. b.gpadl = a.gpadl
    BY <1>1, <1>3, <1>10, <2>1 DEF TornAll, OneTorn, TornAnswerAlone
  <2> QED BY <1>1, <1>2, <1>10, <2>1, <2>2 DEF Requests
<1>a. a.chan = c
  OBVIOUS
<1> HIDE DEF c, matches
<1>11. \A d \in Channels \ {c} : SameTorn(d)
  <2>1. \A d \in Channels \ {c} : event'[d] = event[d]
    BY <1>1, <1>9
  <2> QED BY <1>2, <1>a, <2>1 DEF SameTorn, SameThread
<1>12. OneTorn(c)'
  <2>1. event'[c] = TRUE
    BY <1>1, <1>9
  <2>2. ~ Asked(c, "teardown")' /\ Unmapped(c)'
    BY <1>2, <1>3 DEF Asked, Unmapped
  <2>3. TornOnce(c)'
    BY <2>2 DEF TornOnce, Asked
  <2>4. TornAnswerAlone(c)'
    BY <1>10 DEF TornAnswerAlone
  <2>5. TornWokenAlone(c)' /\ SomeTorn(c)'
    BY <1>2, <1>3, <2>1, <2>2 DEF TornWokenAlone, SomeTorn
  <2> QED BY <2>3, <2>4, <2>5 DEF OneTorn
<1> QED
  BY <1>1, <1>11, <1>12, TornOthers

\* Every step leaves a thread that waits for a teardown one answer to come.
LEMMA TornKept == IInv /\ OwnInv /\ TeardownEntry /\ HandleNamesOneGpadl /\ TornAll /\ Next => TornAll'
<1> SUFFICES ASSUME IInv, OwnInv, TeardownEntry, HandleNamesOneGpadl, TornAll, Next PROVE TornAll'
  OBVIOUS
<1>p. ~ Panicked
  BY DEF Next
<1>t. /\ StateOK /\ ListInv /\ AnswerInv /\ pc \in [Channels -> Steps]
      /\ event \in [Channels -> BOOLEAN] /\ failed \in [Channels -> BOOLEAN]
      /\ handle \in [Channels -> [Buffers -> Handles]] /\ call \in [Channels -> Buffers]
      /\ gpadl \in [Channels -> Handles]
  BY DEF IInv, StateOK
<1>h. NoHandle \in Handles /\ \A c \in Channels : gpadl[c] \in Handles
        /\ handle[c]["ring"] \in Handles /\ handle[c][call[c]] \in Handles
  BY <1>t DEF Buffers, Handles, NoHandle
<1> USE DEF local, driver, host, Goto
<1>1. ASSUME NEW c \in Channels, Open(c) PROVE TornAll'
  <2>1. /\ pc[c] # "teardownWait" /\ pc'[c] \notin TearingDown
        /\ answers' = answers /\ mapped' = mapped /\ toHost' = toHost
        /\ \A d \in Channels \ {c} : SameThread(d)
    BY <1>t, <1>1 DEF Open, SameThread, TearingDown
  <2> QED
    BY <1>t, <2>1, OtherStep
<1>2. ASSUME NEW c \in Channels, InitializeBuffer(c) PROVE TornAll'
  <2>1. /\ pc[c] # "teardownWait" /\ pc'[c] \notin TearingDown
        /\ answers' = answers /\ mapped' = mapped /\ toHost' = toHost
        /\ \A d \in Channels \ {c} : SameThread(d)
    BY <1>t, <1>2 DEF InitializeBuffer, SameThread, TearingDown
  <2> QED
    BY <1>t, <2>1, OtherStep
<1>3. ASSUME NEW c \in Channels, DestroyBuffer(c) PROVE TornAll'
  <2>1. /\ pc[c] # "teardownWait" /\ pc'[c] \notin TearingDown
        /\ answers' = answers /\ mapped' = mapped /\ toHost' = toHost
        /\ \A d \in Channels \ {c} : SameThread(d)
    BY <1>t, <1>3 DEF DestroyBuffer, SameThread, TearingDown
  <2> QED
    BY <1>t, <2>1, OtherStep
<1>4. ASSUME NEW c \in Channels, Close(c) PROVE TornAll'
  <2>1. /\ pc[c] # "teardownWait" /\ pc'[c] \notin TearingDown
        /\ answers' = answers /\ mapped' = mapped
        /\ \A d \in Channels \ {c} : SameThread(d)
    BY <1>t, <1>4 DEF Close, SameThread, TearingDown
  <2>2. toHost' = toHost \/ Accepted(c, "close", NoHandle)
    BY <1>4 DEF Close, Refused
  <2>3. toHost' = toHost \/ \E t \in {"gpadl", "open", "close"}, h \in Handles : Accepted(c, t, h)
    BY <1>h, <2>2
  <2> QED
    BY <1>t, <2>1, <2>3, OtherStep
<1>5. ASSUME NEW c \in Channels, TakeHandle(c) PROVE TornAll'
  <2>1. /\ pc[c] # "teardownWait" /\ pc'[c] \notin TearingDown
        /\ answers' = answers /\ mapped' = mapped /\ toHost' = toHost
        /\ \A d \in Channels \ {c} : SameThread(d)
    BY <1>t, <1>5 DEF TakeHandle, SameThread, TearingDown
  <2> QED
    BY <1>t, <2>1, OtherStep
<1>6. ASSUME NEW c \in Channels, CountHandle(c) PROVE TornAll'
  <2>1. /\ pc[c] # "teardownWait" /\ pc'[c] \notin TearingDown
        /\ answers' = answers /\ mapped' = mapped /\ toHost' = toHost
        /\ \A d \in Channels \ {c} : SameThread(d)
    BY <1>t, <1>6 DEF CountHandle, SameThread, TearingDown
  <2> QED
    BY <1>t, <2>1, OtherStep
<1>7. ASSUME NEW c \in Channels, RegisterGpadl(c) PROVE TornAll'
  <2>1. /\ pc[c] # "teardownWait" /\ pc'[c] \notin TearingDown
        /\ answers' = answers /\ mapped' = mapped /\ toHost' = toHost
        /\ \A d \in Channels \ {c} : SameThread(d)
    BY <1>t, <1>7 DEF RegisterGpadl, Register, SameThread, TearingDown
  <2> QED
    BY <1>t, <2>1, OtherStep
<1>8. ASSUME NEW c \in Channels, PostHeader(c) PROVE TornAll'
  <2>1. /\ pc[c] # "teardownWait" /\ pc'[c] \notin TearingDown
        /\ answers' = answers /\ mapped' = mapped
        /\ \A d \in Channels \ {c} : SameThread(d)
    BY <1>t, <1>8 DEF PostHeader, SameThread, TearingDown
  <2>2. toHost' = toHost \/ Accepted(c, "gpadl", gpadl[c])
    BY <1>8 DEF PostHeader, Refused
  <2>3. toHost' = toHost \/ \E t \in {"gpadl", "open", "close"}, h \in Handles : Accepted(c, t, h)
    BY <1>h, <2>2
  <2> QED
    BY <1>t, <2>1, <2>3, OtherStep
<1>9. ASSUME NEW c \in Channels, PostBody(c) PROVE TornAll'
  <2>1. /\ pc[c] # "teardownWait" /\ pc'[c] \notin TearingDown
        /\ answers' = answers /\ mapped' = mapped
        /\ \A d \in Channels \ {c} : SameThread(d)
    BY <1>t, <1>9 DEF PostBody, SameThread, TearingDown
  <2>2. toHost' = toHost \/ Accepted(c, "gpadl", gpadl[c])
    BY <1>9 DEF PostBody, Refused
  <2>3. toHost' = toHost \/ \E t \in {"gpadl", "open", "close"}, h \in Handles : Accepted(c, t, h)
    BY <1>h, <2>2
  <2> QED
    BY <1>t, <2>1, <2>3, OtherStep
<1>10. ASSUME NEW c \in Channels, RetryBody(c) PROVE TornAll'
  <2>1. /\ pc[c] # "teardownWait" /\ pc'[c] \notin TearingDown
        /\ answers' = answers /\ mapped' = mapped /\ toHost' = toHost
        /\ \A d \in Channels \ {c} : SameThread(d)
    BY <1>t, <1>10 DEF RetryBody, SameThread, TearingDown
  <2> QED
    BY <1>t, <2>1, OtherStep
<1>11. ASSUME NEW c \in Channels, BodyRefused(c) PROVE TornAll'
  <2>1. /\ pc[c] # "teardownWait" /\ pc'[c] \notin TearingDown
        /\ answers' = answers /\ mapped' = mapped /\ toHost' = toHost
        /\ \A d \in Channels \ {c} : SameThread(d)
    BY <1>t, <1>11 DEF BodyRefused, Refused, SameThread, TearingDown
  <2> QED
    BY <1>t, <2>1, OtherStep
<1>12. ASSUME NEW c \in Channels, Shared(c) PROVE TornAll'
  <2>1. /\ pc[c] # "teardownWait" /\ pc'[c] \notin TearingDown
        /\ answers' = answers /\ mapped' = mapped /\ toHost' = toHost
        /\ \A d \in Channels \ {c} : SameThread(d)
    BY <1>t, <1>12 DEF Shared, SameThread, TearingDown
  <2> QED
    BY <1>t, <2>1, OtherStep
<1>13. ASSUME NEW c \in Channels, ShareReturns(c) PROVE TornAll'
  <2>1. /\ pc[c] # "teardownWait" /\ pc'[c] \notin TearingDown
        /\ answers' = answers /\ mapped' = mapped /\ toHost' = toHost
        /\ \A d \in Channels \ {c} : SameThread(d)
    BY <1>t, <1>13 DEF ShareReturns, SameThread, TearingDown
  <2> QED
    BY <1>t, <2>1, OtherStep
<1>14. ASSUME NEW c \in Channels, NoRingHandle(c) PROVE TornAll'
  <2>1. /\ pc[c] # "teardownWait" /\ pc'[c] \notin TearingDown
        /\ answers' = answers /\ mapped' = mapped /\ toHost' = toHost
        /\ \A d \in Channels \ {c} : SameThread(d)
    BY <1>t, <1>14 DEF NoRingHandle, SameThread, TearingDown
  <2> QED
    BY <1>t, <2>1, OtherStep
<1>15. ASSUME NEW c \in Channels, RegisterOpen(c) PROVE TornAll'
  <2>1. /\ pc[c] # "teardownWait" /\ pc'[c] \notin TearingDown
        /\ answers' = answers /\ mapped' = mapped /\ toHost' = toHost
        /\ \A d \in Channels \ {c} : SameThread(d)
    BY <1>t, <1>15 DEF RegisterOpen, Register, SameThread, TearingDown
  <2> QED
    BY <1>t, <2>1, OtherStep
<1>16. ASSUME NEW c \in Channels, PostOpen(c) PROVE TornAll'
  <2>1. /\ pc[c] # "teardownWait" /\ pc'[c] \notin TearingDown
        /\ answers' = answers /\ mapped' = mapped
        /\ \A d \in Channels \ {c} : SameThread(d)
    BY <1>t, <1>16 DEF PostOpen, SameThread, TearingDown
  <2>2. toHost' = toHost \/ Accepted(c, "open", handle[c].ring)
    BY <1>16 DEF PostOpen, Refused
  <2>3. toHost' = toHost \/ \E t \in {"gpadl", "open", "close"}, h \in Handles : Accepted(c, t, h)
    BY <1>h, <2>2
  <2> QED
    BY <1>t, <2>1, <2>3, OtherStep
<1>17. ASSUME NEW c \in Channels, OpenAnswered(c) PROVE TornAll'
  <2>1. /\ pc[c] # "teardownWait" /\ pc'[c] \notin TearingDown
        /\ answers' = answers /\ mapped' = mapped /\ toHost' = toHost
        /\ \A d \in Channels \ {c} : SameThread(d)
    BY <1>t, <1>17 DEF OpenAnswered, SameThread, TearingDown
  <2> QED
    BY <1>t, <2>1, OtherStep
<1>18. ASSUME NEW c \in Channels, OpenReturns(c) PROVE TornAll'
  <2>1. /\ pc[c] # "teardownWait" /\ pc'[c] \notin TearingDown
        /\ answers' = answers /\ mapped' = mapped /\ toHost' = toHost
        /\ \A d \in Channels \ {c} : SameThread(d)
    BY <1>t, <1>18 DEF OpenReturns, SameThread, TearingDown
  <2> QED
    BY <1>t, <2>1, OtherStep
<1>19. ASSUME NEW c \in Channels, RegisterTeardown(c) PROVE TornAll'
  <2>1. /\ pc[c] = "teardown" /\ pc'[c] = "teardownPost" /\ event'[c] = FALSE
        /\ answers' = answers /\ mapped' = mapped /\ toHost' = toHost
        /\ \A d \in Channels \ {c} : SameThread(d)
    BY <1>t, <1>19 DEF RegisterTeardown, Register, SameThread
  <2>2. NoTeardown(c)
    BY <2>1, NotTearing DEF TornAll
  <2>3. OneTorn(c)'
    BY <2>1, <2>2 DEF NoTeardown, OneTorn, TornOnce, TornAnswerAlone, TornWokenAlone, SomeTorn
  <2> QED
    BY <2>1, <2>3, TornOthers DEF SameTorn
<1>20. ASSUME NEW c \in Channels, PostTeardown(c) PROVE TornAll'
  <2>1. /\ pc[c] = "teardownPost" /\ pc'[c] = "teardownWait" /\ event' = event
        /\ handle' = handle /\ call' = call /\ answers' = answers /\ mapped' = mapped
        /\ \A d \in Channels \ {c} : SameThread(d)
    BY <1>t, <1>20 DEF PostTeardown, SameThread
  <2>2. NoTeardown(c) /\ ~ event[c]
    BY <2>1, NotTearing DEF TornAll, OneTorn, TornWokenAlone
  <2>3. CASE Accepted(c, "teardown", handle[c][call[c]]) /\ failed' = [failed EXCEPT ![c] = FALSE]
    <3> DEFINE h == handle[c][call[c]]
               k == Len(toHost[c]) + 1
    <3>1. Accepted(c, "teardown", h) /\ failed'[c] = FALSE
      BY <1>t, <2>3
    <3>2. handle'[c][call'[c]] = h
      BY <2>1
    <3> HIDE DEF h, k
    <3>3. /\ \A i \in DOMAIN toHost'[c] :
               \/ i = k /\ toHost'[c][i] = [type |-> "teardown", gpadl |-> h]
               \/ i \in DOMAIN toHost[c] /\ toHost'[c][i] = toHost[c][i]
          /\ k \in DOMAIN toHost'[c] /\ toHost'[c][k] = [type |-> "teardown", gpadl |-> h]
          /\ \A d \in Channels \ {c} : toHost'[d] = toHost[d]
      BY <1>t, <3>1, AcceptedMessages DEF k
    <3>4. \A i \in DOMAIN toHost'[c] :
            toHost'[c][i].type = "teardown" => i = k /\ toHost'[c][i].gpadl = h
      BY <2>2, <3>3 DEF NoTeardown
    <3>5. TornOnce(c)'
      BY <2>1, <3>1, <3>2, <3>4 DEF TornOnce
    <3>6. TornAnswerAlone(c)' /\ TornWokenAlone(c)'
      BY <2>1, <2>2 DEF NoTeardown, TornAnswerAlone, TornWokenAlone
    <3>7. SomeTorn(c)'
      BY <3>3 DEF SomeTorn, Asked
    <3>8. OneTorn(c)'
      BY <3>5, <3>6, <3>7 DEF OneTorn
    <3> QED
      BY <2>1, <3>3, <3>8, TornOthers DEF SameTorn
  <2>4. CASE toHost' = toHost /\ failed' = [failed EXCEPT ![c] = TRUE]
    <3>1. failed'[c] = TRUE
      BY <1>t, <2>4
    <3>2. OneTorn(c)'
      BY <2>1, <2>2, <2>4, <3>1 DEF NoTeardown, OneTorn, TornOnce, TornAnswerAlone,
         TornWokenAlone, SomeTorn
    <3> QED
      BY <2>1, <2>4, <3>2, TornOthers DEF SameTorn
  <2> QED
    BY <1>20, <2>3, <2>4 DEF PostTeardown, Refused
<1>21. ASSUME NEW c \in Channels, Torndown(c) PROVE TornAll'
  <2>1. /\ pc[c] = "teardownWait" /\ event[c] /\ pc'[c] = "teardownEnd" /\ handle' = handle
        /\ call' = call /\ answers' = answers /\ mapped' = mapped /\ toHost' = toHost
        /\ \A d \in Channels \ {c} : SameThread(d)
    BY <1>t, <1>21 DEF Torndown, SameThread
  <2>2. OneTorn(c)
    BY DEF TornAll
  <2>3. ~ Asked(c, "teardown") /\ Unmapped(c) /\ \A a \in answers : a.chan = c => a.type # "teardown"
    BY <2>1, <2>2 DEF OneTorn, TornWokenAlone, TornAnswerAlone
  <2>4. Unmapped(c)' /\ \A i \in DOMAIN toHost'[c] : toHost'[c][i].type # "teardown"
    BY <2>1, <2>3 DEF Unmapped, Asked
  <2>5. OneTorn(c)'
    BY <2>1, <2>3, <2>4 DEF OneTorn, TornOnce, TornAnswerAlone, TornWokenAlone, SomeTorn
  <2> QED
    BY <2>1, <2>5, TornOthers DEF SameTorn
<1>22. ASSUME NEW c \in Channels, TeardownReturns(c) PROVE TornAll'
  <2>1. /\ pc[c] # "teardownWait" /\ pc'[c] \notin TearingDown
        /\ answers' = answers /\ mapped' = mapped /\ toHost' = toHost
        /\ \A d \in Channels \ {c} : SameThread(d)
    BY <1>t, <1>22 DEF TeardownReturns, SameThread, TearingDown
  <2> QED
    BY <1>t, <2>1, OtherStep
<1>23. ASSUME NEW c \in Channels, HostActs(c) PROVE TornAll'
  BY <1>t, <1>23, HostTears
<1>24. ASSUME NEW a \in answers, OnOpenResult(a) PROVE TornAll'
  BY <1>t, <1>24, OtherAnswer
<1>25. ASSUME NEW a \in answers, OnGpadlCreated(a) PROVE TornAll'
  BY <1>t, <1>25, OtherAnswer
<1>26. ASSUME NEW a \in answers, OnGpadlTorndown(a) PROVE TornAll'
  BY <1>p, <1>t, <1>26, TeardownAnswered
<1> QED
  BY <1>1, <1>2, <1>3, <1>4, <1>5, <1>6, <1>7, <1>8, <1>9, <1>10, <1>11, <1>12, <1>13,
     <1>14, <1>15, <1>16, <1>17, <1>18, <1>19, <1>20, <1>21, <1>22, <1>23, <1>24, <1>25, <1>26
  DEF Next, Driver, Establish, OpenChannel, Teardown, Worker


-----------------------------------------------------------------------------
SameLive(c) ==
  pc'[c] = pc[c] /\ gpadl'[c] = gpadl[c] /\ handle'[c] = handle[c] /\ pages'[c] = pages[c]

LEMMA LiveStep ==
  ASSUME StateOK, MappedLive, mapped' \subseteq mapped, NEW c \in Channels,
         \A d \in Channels \ {c} : SameLive(d),
         \A h \in Handles :
           h # NoHandle /\ [chan |-> c, gpadl |-> h] \in mapped /\ Live(c, h) => Live(c, h)'
  PROVE  MappedLive'
<1> SUFFICES ASSUME NEW g \in mapped' PROVE Live(g.chan, g.gpadl)' /\ g.gpadl # NoHandle
  BY DEF MappedLive
<1>1. /\ g \in mapped /\ g.chan \in Channels /\ g.gpadl \in Handles
      /\ g = [chan |-> g.chan, gpadl |-> g.gpadl]
  BY DEF StateOK
<1>2. Live(g.chan, g.gpadl) /\ g.gpadl # NoHandle
  BY <1>1 DEF MappedLive
<1>3. CASE g.chan = c
  BY <1>1, <1>2, <1>3
<1>4. CASE g.chan # c
  <2>1. SameLive(g.chan)
    BY <1>1, <1>4
  <2> QED BY <1>2, <2>1 DEF Live, SameLive
<1> QED
  BY <1>3, <1>4

\* Every step leaves a buffer behind each GPADL the host has.
LEMMA LiveKept == IInv /\ OwnInv /\ TornAll /\ MappedLive /\ Next => MappedLive'
<1> SUFFICES ASSUME IInv, OwnInv, TornAll, MappedLive, Next PROVE MappedLive'
  OBVIOUS
<1>t. /\ StateOK /\ pc \in [Channels -> Steps] /\ call \in [Channels -> Buffers]
      /\ gpadl \in [Channels -> Handles] /\ handle \in [Channels -> [Buffers -> Handles]]
      /\ pages \in [Channels -> SUBSET Buffers]
  BY DEF IInv, StateOK
<1>o. \A c \in Channels : OwnHandles(c) /\ OwnBuffers(c)
  BY DEF OwnInv
<1> USE DEF local, driver, host, Goto
<1>1. ASSUME NEW c \in Channels, Open(c) PROVE MappedLive'
  <2>1. mapped' = mapped /\ \A d \in Channels \ {c} : SameLive(d)
    BY <1>t, <1>1 DEF Open, SameLive
  <2>2. ASSUME NEW h \in Handles, h # NoHandle, [chan |-> c, gpadl |-> h] \in mapped, Live(c, h)
        PROVE  Live(c, h)'
    BY <1>t, <1>1, <1>o, <2>2 DEF Open, Live, OwnBuffers
  <2> QED
    BY <1>t, <2>1, <2>2, LiveStep
<1>2. ASSUME NEW c \in Channels, InitializeBuffer(c) PROVE MappedLive'
  <2>1. mapped' = mapped /\ \A d \in Channels \ {c} : SameLive(d)
    BY <1>t, <1>2 DEF InitializeBuffer, SameLive
  <2>2. ASSUME NEW h \in Handles, h # NoHandle, [chan |-> c, gpadl |-> h] \in mapped, Live(c, h)
        PROVE  Live(c, h)'
    BY <1>t, <1>2, <2>2 DEF InitializeBuffer, Live
  <2> QED
    BY <1>t, <2>1, <2>2, LiveStep
<1>3. ASSUME NEW c \in Channels, DestroyBuffer(c) PROVE MappedLive'
  <2>1. mapped' = mapped /\ \A d \in Channels \ {c} : SameLive(d)
    BY <1>t, <1>3 DEF DestroyBuffer, SameLive
  <2>2. ASSUME NEW h \in Handles, h # NoHandle, [chan |-> c, gpadl |-> h] \in mapped, Live(c, h)
        PROVE  Live(c, h)'
    BY <1>t, <1>3, <2>2 DEF DestroyBuffer, Live
  <2> QED
    BY <1>t, <2>1, <2>2, LiveStep
<1>4. ASSUME NEW c \in Channels, Close(c) PROVE MappedLive'
  <2>1. mapped' = mapped /\ \A d \in Channels \ {c} : SameLive(d)
    BY <1>t, <1>4 DEF Close, Refused, SameLive
  <2>2. ASSUME NEW h \in Handles, h # NoHandle, [chan |-> c, gpadl |-> h] \in mapped, Live(c, h)
        PROVE  Live(c, h)'
    BY <1>t, <1>4, <2>2 DEF Close, Live
  <2> QED
    BY <1>t, <2>1, <2>2, LiveStep
<1>5. ASSUME NEW c \in Channels, TakeHandle(c) PROVE MappedLive'
  <2>1. mapped' = mapped /\ \A d \in Channels \ {c} : SameLive(d)
    BY <1>t, <1>5 DEF TakeHandle, SameLive
  <2>2. ASSUME NEW h \in Handles, h # NoHandle, [chan |-> c, gpadl |-> h] \in mapped, Live(c, h)
        PROVE  Live(c, h)'
    BY <1>t, <1>5, <2>2 DEF TakeHandle, Live
  <2> QED
    BY <1>t, <2>1, <2>2, LiveStep
<1>6. ASSUME NEW c \in Channels, CountHandle(c) PROVE MappedLive'
  <2>1. mapped' = mapped /\ \A d \in Channels \ {c} : SameLive(d)
    BY <1>t, <1>6 DEF CountHandle, SameLive
  <2>2. ASSUME NEW h \in Handles, h # NoHandle, [chan |-> c, gpadl |-> h] \in mapped, Live(c, h)
        PROVE  Live(c, h)'
    BY <1>t, <1>6, <2>2 DEF CountHandle, Live
  <2> QED
    BY <1>t, <2>1, <2>2, LiveStep
<1>7. ASSUME NEW c \in Channels, RegisterGpadl(c) PROVE MappedLive'
  <2>1. mapped' = mapped /\ \A d \in Channels \ {c} : SameLive(d)
    BY <1>t, <1>7 DEF RegisterGpadl, Register, SameLive
  <2>2. ASSUME NEW h \in Handles, h # NoHandle, [chan |-> c, gpadl |-> h] \in mapped, Live(c, h)
        PROVE  Live(c, h)'
    BY <1>t, <1>7, <2>2 DEF RegisterGpadl, Live
  <2> QED
    BY <1>t, <2>1, <2>2, LiveStep
<1>8. ASSUME NEW c \in Channels, PostHeader(c) PROVE MappedLive'
  <2>1. mapped' = mapped /\ \A d \in Channels \ {c} : SameLive(d)
    BY <1>t, <1>8 DEF PostHeader, Refused, SameLive
  <2>2. ASSUME NEW h \in Handles, h # NoHandle, [chan |-> c, gpadl |-> h] \in mapped, Live(c, h)
        PROVE  Live(c, h)'
    BY <1>t, <1>8, <2>2 DEF PostHeader, Live
  <2> QED
    BY <1>t, <2>1, <2>2, LiveStep
<1>9. ASSUME NEW c \in Channels, PostBody(c) PROVE MappedLive'
  <2>1. mapped' = mapped /\ \A d \in Channels \ {c} : SameLive(d)
    BY <1>t, <1>9 DEF PostBody, Refused, SameLive
  <2>2. ASSUME NEW h \in Handles, h # NoHandle, [chan |-> c, gpadl |-> h] \in mapped, Live(c, h)
        PROVE  Live(c, h)'
    BY <1>t, <1>9, <2>2 DEF PostBody, Live
  <2> QED
    BY <1>t, <2>1, <2>2, LiveStep
<1>10. ASSUME NEW c \in Channels, RetryBody(c) PROVE MappedLive'
  <2>1. mapped' = mapped /\ \A d \in Channels \ {c} : SameLive(d)
    BY <1>t, <1>10 DEF RetryBody, SameLive
  <2>2. ASSUME NEW h \in Handles, h # NoHandle, [chan |-> c, gpadl |-> h] \in mapped, Live(c, h)
        PROVE  Live(c, h)'
    BY <1>t, <1>10, <2>2 DEF RetryBody, Live
  <2> QED
    BY <1>t, <2>1, <2>2, LiveStep
<1>11. ASSUME NEW c \in Channels, BodyRefused(c) PROVE MappedLive'
  <2>1. mapped' = mapped /\ \A d \in Channels \ {c} : SameLive(d)
    BY <1>t, <1>11 DEF BodyRefused, Refused, SameLive
  <2>2. ASSUME NEW h \in Handles, h # NoHandle, [chan |-> c, gpadl |-> h] \in mapped, Live(c, h)
        PROVE  Live(c, h)'
    BY <1>t, <1>11, <2>2 DEF BodyRefused, Live
  <2> QED
    BY <1>t, <2>1, <2>2, LiveStep
<1>12. ASSUME NEW c \in Channels, Shared(c) PROVE MappedLive'
  <2>1. mapped' = mapped /\ \A d \in Channels \ {c} : SameLive(d)
    BY <1>t, <1>12 DEF Shared, SameLive
  <2>2. ASSUME NEW h \in Handles, h # NoHandle, [chan |-> c, gpadl |-> h] \in mapped, Live(c, h)
        PROVE  Live(c, h)'
    BY <1>t, <1>12, <1>o, <2>2 DEF Shared, Live, OwnBuffers, Establishing, Sharing, Buffers
  <2> QED
    BY <1>t, <2>1, <2>2, LiveStep
<1>13. ASSUME NEW c \in Channels, ShareReturns(c) PROVE MappedLive'
  <2>1. mapped' = mapped /\ \A d \in Channels \ {c} : SameLive(d)
    BY <1>t, <1>13 DEF ShareReturns, SameLive
  <2>2. ASSUME NEW h \in Handles, h # NoHandle, [chan |-> c, gpadl |-> h] \in mapped, Live(c, h)
        PROVE  Live(c, h)'
    BY <1>t, <1>13, <1>o, <2>2 DEF ShareReturns, Live, OwnBuffers, Establishing, Sharing, Buffers
  <2> QED
    BY <1>t, <2>1, <2>2, LiveStep
<1>14. ASSUME NEW c \in Channels, NoRingHandle(c) PROVE MappedLive'
  <2>1. mapped' = mapped /\ \A d \in Channels \ {c} : SameLive(d)
    BY <1>t, <1>14 DEF NoRingHandle, SameLive
  <2>2. ASSUME NEW h \in Handles, h # NoHandle, [chan |-> c, gpadl |-> h] \in mapped, Live(c, h)
        PROVE  Live(c, h)'
    BY <1>t, <1>14, <2>2 DEF NoRingHandle, Live
  <2> QED
    BY <1>t, <2>1, <2>2, LiveStep
<1>15. ASSUME NEW c \in Channels, RegisterOpen(c) PROVE MappedLive'
  <2>1. mapped' = mapped /\ \A d \in Channels \ {c} : SameLive(d)
    BY <1>t, <1>15 DEF RegisterOpen, Register, SameLive
  <2>2. ASSUME NEW h \in Handles, h # NoHandle, [chan |-> c, gpadl |-> h] \in mapped, Live(c, h)
        PROVE  Live(c, h)'
    BY <1>t, <1>15, <2>2 DEF RegisterOpen, Live
  <2> QED
    BY <1>t, <2>1, <2>2, LiveStep
<1>16. ASSUME NEW c \in Channels, PostOpen(c) PROVE MappedLive'
  <2>1. mapped' = mapped /\ \A d \in Channels \ {c} : SameLive(d)
    BY <1>t, <1>16 DEF PostOpen, Refused, SameLive
  <2>2. ASSUME NEW h \in Handles, h # NoHandle, [chan |-> c, gpadl |-> h] \in mapped, Live(c, h)
        PROVE  Live(c, h)'
    BY <1>t, <1>16, <2>2 DEF PostOpen, Live
  <2> QED
    BY <1>t, <2>1, <2>2, LiveStep
<1>17. ASSUME NEW c \in Channels, OpenAnswered(c) PROVE MappedLive'
  <2>1. mapped' = mapped /\ \A d \in Channels \ {c} : SameLive(d)
    BY <1>t, <1>17 DEF OpenAnswered, SameLive
  <2>2. ASSUME NEW h \in Handles, h # NoHandle, [chan |-> c, gpadl |-> h] \in mapped, Live(c, h)
        PROVE  Live(c, h)'
    BY <1>t, <1>17, <2>2 DEF OpenAnswered, Live
  <2> QED
    BY <1>t, <2>1, <2>2, LiveStep
<1>18. ASSUME NEW c \in Channels, OpenReturns(c) PROVE MappedLive'
  <2>1. mapped' = mapped /\ \A d \in Channels \ {c} : SameLive(d)
    BY <1>t, <1>18 DEF OpenReturns, SameLive
  <2>2. ASSUME NEW h \in Handles, h # NoHandle, [chan |-> c, gpadl |-> h] \in mapped, Live(c, h)
        PROVE  Live(c, h)'
    BY <1>t, <1>18, <2>2 DEF OpenReturns, Live
  <2> QED
    BY <1>t, <2>1, <2>2, LiveStep
<1>19. ASSUME NEW c \in Channels, RegisterTeardown(c) PROVE MappedLive'
  <2>1. mapped' = mapped /\ \A d \in Channels \ {c} : SameLive(d)
    BY <1>t, <1>19 DEF RegisterTeardown, Register, SameLive
  <2>2. ASSUME NEW h \in Handles, h # NoHandle, [chan |-> c, gpadl |-> h] \in mapped, Live(c, h)
        PROVE  Live(c, h)'
    BY <1>t, <1>19, <2>2 DEF RegisterTeardown, Live
  <2> QED
    BY <1>t, <2>1, <2>2, LiveStep
<1>20. ASSUME NEW c \in Channels, PostTeardown(c) PROVE MappedLive'
  <2>1. mapped' = mapped /\ \A d \in Channels \ {c} : SameLive(d)
    BY <1>t, <1>20 DEF PostTeardown, Refused, SameLive
  <2>2. ASSUME NEW h \in Handles, h # NoHandle, [chan |-> c, gpadl |-> h] \in mapped, Live(c, h)
        PROVE  Live(c, h)'
    BY <1>t, <1>20, <2>2 DEF PostTeardown, Live
  <2> QED
    BY <1>t, <2>1, <2>2, LiveStep
<1>21. ASSUME NEW c \in Channels, Torndown(c) PROVE MappedLive'
  <2>1. mapped' = mapped /\ \A d \in Channels \ {c} : SameLive(d)
    BY <1>t, <1>21 DEF Torndown, SameLive
  <2>2. ASSUME NEW h \in Handles, h # NoHandle, [chan |-> c, gpadl |-> h] \in mapped, Live(c, h)
        PROVE  Live(c, h)'
    BY <1>t, <1>21, <2>2 DEF Torndown, Live
  <2> QED
    BY <1>t, <2>1, <2>2, LiveStep
<1>22. ASSUME NEW c \in Channels, TeardownReturns(c) PROVE MappedLive'
  <2>1. mapped' = mapped /\ \A d \in Channels \ {c} : SameLive(d)
    BY <1>t, <1>22 DEF TeardownReturns, SameLive
  <2>2. [chan |-> c, gpadl |-> handle[c][call[c]]] \notin mapped
    BY <1>22 DEF TornAll, OneTorn, TornWokenAlone, Unmapped, TeardownReturns
  <2>3. ASSUME NEW h \in Handles, h # NoHandle, [chan |-> c, gpadl |-> h] \in mapped, Live(c, h)
        PROVE  Live(c, h)'
    <3>1. PICK b \in pages[c] : h = handle[c][b]
      BY <1>22, <2>3 DEF TeardownReturns, Live
    <3>2. b # call[c] /\ b \in Buffers /\ call[c] \in Buffers
      BY <1>t, <2>2, <2>3, <3>1
    <3>3. b \in pages'[c]
      BY <1>t, <1>22, <3>1, <3>2 DEF TeardownReturns
    <3>4. handle'[c][b] = handle[c][b]
      BY <1>t, <1>22, <3>2 DEF TeardownReturns
    <3> QED
      BY <3>1, <3>3, <3>4 DEF Live
  <2> QED
    BY <1>t, <2>1, <2>3, LiveStep
<1>23. ASSUME NEW c \in Channels, HostActs(c) PROVE MappedLive'
  <2> DEFINE m == Head(toHost[c])
             g == [chan |-> c, gpadl |-> m.gpadl]
  <2>1. pc' = pc /\ gpadl' = gpadl /\ handle' = handle /\ pages' = pages
    BY <1>23 DEF HostActs
  <2>2. mapped' \subseteq mapped \/ (m.type = "gpadl" /\ mapped' = mapped \cup {g})
    BY <1>23 DEF HostActs
  <2>3. m = toHost[c][1] /\ 1 \in DOMAIN toHost[c]
    <3>1. toHost[c] \in Seq(Messages) /\ toHost[c] # <<>>
      BY <1>23 DEF IInv, StateOK, HostActs
    <3> QED BY <3>1
  <2>4. g.chan = c /\ g.gpadl = m.gpadl
    OBVIOUS
  <2> HIDE DEF m, g
  <2>5. m.type = "gpadl" => pc[c] = "shareWait" /\ m.gpadl = gpadl[c]
    BY <2>3 DEF IInv, AnswerInv, OneAnswer, AskedOnce
  <2>6. m.type = "gpadl" => Live(c, m.gpadl) /\ m.gpadl # NoHandle
    BY <1>o, <2>5 DEF OwnHandles, Sharing, Live
  <2> QED
    BY <2>1, <2>2, <2>4, <2>6 DEF MappedLive, Live
<1>24. ASSUME NEW a \in answers, OnOpenResult(a) PROVE MappedLive'
  <2>1. mapped' = mapped /\ pc' = pc /\ gpadl' = gpadl /\ handle' = handle /\ pages' = pages
    BY <1>24 DEF OnOpenResult, Wake
  <2> QED
    BY <2>1 DEF MappedLive, Live
<1>25. ASSUME NEW a \in answers, OnGpadlCreated(a) PROVE MappedLive'
  <2>1. mapped' = mapped /\ pc' = pc /\ gpadl' = gpadl /\ handle' = handle /\ pages' = pages
    BY <1>25 DEF OnGpadlCreated, Wake
  <2> QED
    BY <2>1 DEF MappedLive, Live
<1>26. ASSUME NEW a \in answers, OnGpadlTorndown(a) PROVE MappedLive'
  <2>1. mapped' = mapped /\ pc' = pc /\ gpadl' = gpadl /\ handle' = handle /\ pages' = pages
    BY <1>26 DEF OnGpadlTorndown, Wake
  <2> QED
    BY <2>1 DEF MappedLive, Live
<1> QED
  BY <1>1, <1>2, <1>3, <1>4, <1>5, <1>6, <1>7, <1>8, <1>9, <1>10, <1>11, <1>12, <1>13,
     <1>14, <1>15, <1>16, <1>17, <1>18, <1>19, <1>20, <1>21, <1>22, <1>23, <1>24, <1>25, <1>26
  DEF Next, Driver, Establish, OpenChannel, Teardown, Worker

-----------------------------------------------------------------------------
LEMMA TeardownsStart == Init => MInv
<1> SUFFICES ASSUME Init PROVE MInv
  OBVIOUS
<1>1. ASSUME NEW c \in Channels PROVE OwnHandles(c) /\ OwnBuffers(c)
  <2>1. /\ pc[c] = "idle" /\ life[c] = "new" /\ made[c] = {} /\ pages[c] = {} /\ call[c] = "ring"
        /\ \A b \in Buffers : handle[c][b] = NoHandle
    BY DEF Init
  <2> QED BY <2>1 DEF OwnHandles, OwnBuffers, Establishing, Sharing, Opening, TearingDown, Buffers
<1>2. TeardownEntry
  <2>1. Entries = {}
    BY DEF Init, Entries
  <2> QED BY <2>1 DEF TeardownEntry
<1>3. ASSUME NEW c \in Channels PROVE OneTorn(c)
  <2>1. DOMAIN toHost[c] = {} /\ answers = {} /\ pc[c] = "idle"
    BY DEF Init
  <2> QED BY <2>1 DEF OneTorn, TornOnce, TornAnswerAlone, TornWokenAlone, SomeTorn
<1>4. MappedLive
  BY DEF Init, MappedLive
<1> QED
  BY <1>1, <1>2, <1>3, <1>4 DEF MInv, OwnInv, TornInv, TornAll

LEMMA TeardownsStutter == MInv /\ UNCHANGED vars => MInv'
<1> SUFFICES ASSUME MInv, UNCHANGED vars PROVE MInv'
  OBVIOUS
<1> USE DEF vars, local, driver, host
<1>1. OwnInv'
  BY DEF MInv, OwnInv, OwnHandles, OwnBuffers
<1>2. TeardownEntry'
  BY DEF MInv, TeardownEntry, Entries
<1>3. ASSUME TornAll PROVE TornAll'
  <2>1. \A c \in Channels : SameTorn(c)
    BY DEF SameTorn, SameThread
  <2> QED BY <1>3, <2>1, TornSteady DEF TornAll
<1>4. MappedLive => MappedLive'
  BY DEF MappedLive, Live
<1>5. HandleNamesOneGpadl' => HandleNamesOneGpadl
  BY DEF HandleNamesOneGpadl
<1> QED
  BY <1>1, <1>2, <1>3, <1>4, <1>5 DEF MInv, TornInv

LEMMA TeardownsInductive == Spec => []MInv
<1>1. IInv /\ MInv /\ Next => MInv'
  <2> SUFFICES ASSUME IInv, MInv, Next PROVE MInv'
    OBVIOUS
  <2>1. OwnInv' /\ TeardownEntry'
    BY OwnKept, EntryKept DEF MInv
  <2>2. ASSUME HandleNamesOneGpadl' PROVE TornInv'
    <3>1. HandleNamesOneGpadl
      BY <2>2, NamesBefore DEF IInv
    <3>2. TornAll /\ MappedLive
      BY <3>1 DEF MInv, TornInv
    <3>3. TornAll'
      BY <3>1, <3>2, TornKept DEF MInv
    <3>4. MappedLive'
      BY <3>2, LiveKept DEF MInv
    <3> QED BY <3>3, <3>4 DEF TornInv
  <2> QED BY <2>1, <2>2 DEF MInv
<1> QED
  BY <1>1, Inductive, TeardownsStart, TeardownsStutter, PTL DEF Spec

\* A thread that waits in VmbusChannelTeardownGpadl for a teardown it posted
\* has exactly one answer to come, as long as no two channels took the same
\* handle: VmbusChannelOnGpadlTorndown has nothing else to tell them apart.
THEOREM TeardownsAnswered == Spec => []TorndownToCome
<1>1. ASSUME MInv, HandleNamesOneGpadl, NEW c \in Channels, pc[c] = "teardownWait", ~ failed[c]
      PROVE  IsSingleton(Places(c, "teardown"))
  <2>1. TornAnswerAlone(c) /\ TornWokenAlone(c) /\ SomeTorn(c)
    BY <1>1 DEF MInv, TornInv, TornAll, OneTorn
  <2>2. Places(c, "teardown") = {p \in {"asked", "answered", "woken"} :
                                   \/ p = "asked" /\ Asked(c, "teardown")
                                   \/ p = "answered" /\ Answered(c, "teardown")
                                   \/ p = "woken" /\ event[c]}
    BY DEF Places, Asked, Answered
  <2>3. Asked(c, "teardown") \/ event[c] \/ Answered(c, "teardown")
    BY <1>1, <2>1 DEF SomeTorn
  <2>4. ~(Asked(c, "teardown") /\ event[c])
    BY <1>1, <2>1 DEF TornWokenAlone
  <2>5. ~(Answered(c, "teardown") /\ (Asked(c, "teardown") \/ event[c]))
    BY <1>1, <2>1 DEF TornAnswerAlone, Answered
  <2>6. CASE Asked(c, "teardown")
    <3>1. Places(c, "teardown") = {"asked"}
      BY <2>2, <2>4, <2>5, <2>6
    <3> QED BY <3>1 DEF IsSingleton
  <2>7. CASE Answered(c, "teardown")
    <3>1. Places(c, "teardown") = {"answered"}
      BY <2>2, <2>4, <2>5, <2>7
    <3> QED BY <3>1 DEF IsSingleton
  <2>8. CASE event[c]
    <3>1. Places(c, "teardown") = {"woken"}
      BY <2>2, <2>4, <2>5, <2>8
    <3> QED BY <3>1 DEF IsSingleton
  <2> QED BY <2>3, <2>6, <2>7, <2>8
<1>2. MInv => TorndownToCome
  BY <1>1 DEF TorndownToCome
<1> QED
  BY <1>2, TeardownsInductive, PTL

\* Under the same condition no pages are freed, by VmbusChannelClose or by
\* NetVscDestroyReceiveBuffer, while the host has a GPADL of them.
THEOREM HostReachesAllocated == Spec => []MappedIsAllocated
<1>1. ASSUME IInv, MInv, HandleNamesOneGpadl, NEW g \in mapped
      PROVE  \E b \in pages[g.chan] :
               g.gpadl = handle[g.chan][b] \/ (call[g.chan] = b /\ g.gpadl = gpadl[g.chan])
  <2>1. g.chan \in Channels
    BY <1>1 DEF IInv, StateOK
  <2>2. Live(g.chan, g.gpadl) /\ OwnBuffers(g.chan)
    BY <1>1, <2>1 DEF MInv, TornInv, MappedLive, OwnInv
  <2> QED BY <2>2 DEF Live, OwnBuffers, Establishing, Sharing
<1>2. IInv /\ MInv => MappedIsAllocated
  BY <1>1 DEF MappedIsAllocated
<1> QED
  BY <1>2, Inductive, TeardownsInductive, PTL
=============================================================================
