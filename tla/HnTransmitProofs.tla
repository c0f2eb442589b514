-------------------------- MODULE HnTransmitProofs --------------------------
(***************************************************************************)
(* For any number of interfaces and mbufs, sizes of the ring and counts of *)
(* tries: an mbuf is at one place until it is freed, once; the completion  *)
(* of what the host has finds its mbuf; the order of the queue is broken   *)
(* only by what was put back; BPF sees what was sent, once; nothing waits  *)
(* in a queue or in a ring without a reason the properties name.           *)
(***************************************************************************)
EXTENDS HnTransmit, SequenceTheorems, FiniteSetTheorems, TLAPS

Ats == {"idle", "loop", "send", "give up", "tap",
        "load send", "store send", "load trigger", "store trigger"}
Completions == {"none", "xmit", "filter"}

TxType == [at : Ats, m : 0 .. NMbufs, retries : 0 .. Tries]
PacketType == [completion : Completions, saved : Completions, tid : 0 .. NMbufs]

Types ==
  /\ arrived \in 0 .. NMbufs /\ stops \in 0 .. MaxStops
  /\ ifq \in [Ifs -> Seq(Mbufs)] /\ drvq \in [Ifs -> Seq(Mbufs)]
  /\ ring \in [Ifs -> Seq(Mbufs)]
  /\ running \in [Ifs -> BOOLEAN] /\ oactive \in [Ifs -> BOOLEAN]
  /\ starting \in [Ifs -> Nat] /\ \A i \in Ifs : starting[i] <= arrived
  /\ tx \in [Ifs -> TxType]
  /\ pending \in [Words -> SUBSET Ifs] /\ word \in [Ifs -> SUBSET Ifs]
  /\ called \in BOOLEAN
  /\ packet \in [Mbufs -> PacketType]
  /\ freed \in [Mbufs -> 0 .. 1]
  /\ taken \subseteq Mbufs /\ putBack \subseteq Mbufs
  /\ draining \subseteq Ifs /\ skipped \subseteq Ifs /\ overwritten \subseteq Ifs
  /\ seen \subseteq Mbufs

\* No sequence has an mbuf twice.
Once(s) == \A j, k \in DOMAIN s : s[j] = s[k] => j = k
Apart ==
  \A i \in Ifs :
    /\ Once(ifq[i]) /\ Once(drvq[i]) /\ Once(ring[i])
    /\ ToSet(ifq[i]) \cap ToSet(drvq[i]) = {}

\* The places of OwnedOnce, with that of what the host has and that of what is freed.
Places == [q : {"queue", "held", "ring"}, i : Ifs] \cup [q : {"host", "freed"}, i : {0}]
Place(q, i) == [q |-> q, i |-> i]

\* owned[p]: the mbufs at p.
owned ==
  [p \in Places |-> CASE p.q = "queue" -> Queued(p.i) [] p.q = "held" -> Held(p.i)
                      [] p.q = "ring" -> Sent(p.i)    [] p.q = "host" -> taken
                      [] OTHER -> {m \in Mbufs : freed[m] = 1}]

\* Each member of M is at one place, and nothing else is anywhere.
Splits(P, M) ==
  /\ \A p \in Places : P[p] \subseteq M
  /\ \A m \in M : \E p \in Places : \A q \in Places : m \in P[q] <=> q = p

Owned == Splits(owned, 1 .. arrived)

\* The packet of the mbuf hn_start_locked holds, whatever was tried.
Ready(m) == packet[m] \in [completion : {"xmit"}, saved : {"none", "xmit"}, tid : {m}]
HeldIsReady == \A i \in Ifs : \A m \in Held(i) : Ready(m)

\* The trigger is for those whose offer has a monitor.
OnlyMonitored ==
  \A i \in Ifs : tx[i].at \in {"load trigger", "store trigger"} => i \in Monitored

\* That of an mbuf the host has or finds in a ring.
Whole(m) == packet[m] = [completion |-> "filter", saved |-> "xmit", tid |-> m]
SentIsWhole ==
  /\ \A m \in taken : Whole(m)
  /\ \A i \in Ifs : \A m \in Sent(i) : Whole(m)

IInv ==
  /\ Types /\ Apart /\ Owned /\ HeldIsReady /\ SentIsWhole /\ OnlyMonitored
  /\ PutBackGoesFirst /\ SeenOnce /\ WaitsOnlyForOactive /\ SentIsSignalled

-----------------------------------------------------------------------------
(* Sequences without doubles.                                              *)

\* The sizes are numbers, and 1 at least where the code has room for one.
LEMMA Sizes ==
  /\ NIfs \in Nat /\ Tries \in Nat \ {0} /\ RingSize \in Nat \ {0}
  /\ NMbufs \in Nat /\ DrvMax \in Nat /\ MaxStops \in Nat
BY SizesAssumption, BoundsAssumption

\* Append adds an element.
LEMMA AppendAdds ==
  ASSUME NEW S, NEW s \in Seq(S), NEW x \in S
  PROVE  /\ ToSet(Append(s, x)) = ToSet(s) \cup {x}
         /\ Once(s) /\ x \notin ToSet(s) => Once(Append(s, x))
<1>1. /\ Append(s, x) \in Seq(S) /\ Len(Append(s, x)) = Len(s) + 1
      /\ \A j \in 1 .. Len(s) : Append(s, x)[j] = s[j]
      /\ Append(s, x)[Len(s) + 1] = x /\ Len(s) \in Nat
  BY AppendProperties
<1>2. DOMAIN s = 1 .. Len(s) /\ DOMAIN Append(s, x) = 1 .. Len(s) + 1
  BY <1>1
<1>3. 1 .. Len(s) + 1 = (1 .. Len(s)) \cup {Len(s) + 1}
  BY <1>1
<1>4. ToSet(Append(s, x)) = ToSet(s) \cup {x}
  BY <1>1, <1>2, <1>3 DEF ToSet
<1>5. ASSUME Once(s), x \notin ToSet(s) PROVE Once(Append(s, x))
  BY <1>1, <1>2, <1>3, <1>5 DEF ToSet, Once
<1> QED
  BY <1>4, <1>5

\* Prepended adds one too, before the others.
LEMMA PrependAdds ==
  ASSUME NEW S, NEW s \in Seq(S), NEW x \in S
  PROVE  /\ Prepended(s, x) \in Seq(S) /\ Len(Prepended(s, x)) = Len(s) + 1
         /\ Prepended(s, x)[1] = x
         /\ \A j \in 2 .. Len(s) + 1 : Prepended(s, x)[j] = s[j - 1]
         /\ ToSet(Prepended(s, x)) = ToSet(s) \cup {x}
         /\ Once(s) /\ x \notin ToSet(s) => Once(Prepended(s, x))
<1> DEFINE t == Prepended(s, x)
<1>1. /\ t \in Seq(S) /\ Len(t) = Len(s) + 1 /\ Len(s) \in Nat
      /\ t[1] = x /\ \A j \in 2 .. Len(s) + 1 : t[j] = s[j - 1]
  BY DEF Prepended
<1>2. DOMAIN s = 1 .. Len(s) /\ DOMAIN t = 1 .. Len(s) + 1
  BY <1>1
<1> HIDE DEF t
<1>3. ToSet(t) = ToSet(s) \cup {x}
  <2>1. ASSUME NEW y \in ToSet(t) PROVE y \in ToSet(s) \cup {x}
    <3>1. PICK j \in 1 .. Len(s) + 1 : y = t[j]
      BY <1>2, <2>1 DEF ToSet
    <3>2. CASE j = 1
      BY <1>1, <3>1, <3>2
    <3>3. CASE j # 1
      <4>1. j \in 2 .. Len(s) + 1 /\ j - 1 \in DOMAIN s
        BY <1>1, <1>2, <3>3
      <4> QED
        BY <1>1, <3>1, <4>1 DEF ToSet
    <3> QED
      BY <3>2, <3>3
  <2>2. ASSUME NEW y \in ToSet(s) PROVE y \in ToSet(t)
    <3>1. PICK j \in DOMAIN s : y = s[j]
      BY <2>2 DEF ToSet
    <3>2. j + 1 \in 2 .. Len(s) + 1 /\ j + 1 \in DOMAIN t /\ (j + 1) - 1 = j
      BY <1>1, <1>2
    <3>3. t[j + 1] = s[j]
      BY <1>1, <3>2
    <3> QED
      BY <3>1, <3>2, <3>3 DEF ToSet
  <2>3. x \in ToSet(t)
    <3>1. 1 \in DOMAIN t
      BY <1>1, <1>2
    <3> QED
      BY <1>1, <3>1 DEF ToSet
  <2> QED
    BY <2>1, <2>2, <2>3
<1>4. ASSUME Once(s), x \notin ToSet(s) PROVE Once(t)
  <2>1. \A j \in 2 .. Len(s) + 1 : j - 1 \in DOMAIN s /\ t[j] = s[j - 1] /\ t[j] # x
    BY <1>1, <1>2, <1>4 DEF ToSet
  <2>2. SUFFICES ASSUME NEW j \in 1 .. Len(s) + 1, NEW k \in 1 .. Len(s) + 1, t[j] = t[k]
                 PROVE  j = k
    BY <1>2 DEF Once
  <2>3. CASE j = 1 /\ k = 1
    BY <2>3
  <2>4. CASE j = 1 /\ k # 1
    <3>1. k \in 2 .. Len(s) + 1
      BY <1>1, <2>4
    <3> QED
      BY <1>1, <2>1, <2>2, <2>4, <3>1
  <2>5. CASE j # 1 /\ k = 1
    <3>1. j \in 2 .. Len(s) + 1
      BY <1>1, <2>5
    <3> QED
      BY <1>1, <2>1, <2>2, <2>5, <3>1
  <2>6. CASE j # 1 /\ k # 1
    <3>1. j \in 2 .. Len(s) + 1 /\ k \in 2 .. Len(s) + 1
      BY <1>1, <2>6
    <3>2. s[j - 1] = s[k - 1] /\ j - 1 \in DOMAIN s /\ k - 1 \in DOMAIN s
      BY <2>1, <2>2, <3>1
    <3>3. j - 1 = k - 1
      BY <1>4, <3>2 DEF Once
    <3> QED
      BY <1>1, <3>1, <3>3
  <2> QED
    BY <2>3, <2>4, <2>5, <2>6
<1> QED
  BY <1>1, <1>3, <1>4 DEF t

\* Without doubles, a sequence is no longer than there are mbufs.
LEMMA OnceIsShort ==
  ASSUME NEW s \in Seq(Mbufs), Once(s)
  PROVE  s \in BoundedSeq(Mbufs, NMbufs)
<1>1. Len(s) \in Nat /\ s \in [1 .. Len(s) -> Mbufs] /\ DOMAIN s = 1 .. Len(s)
  BY LenProperties
<1>2. s \in Injection(1 .. Len(s), Mbufs)
  BY <1>1 DEF Injection, IsInjective, Once
<1>3. IsFiniteSet(Mbufs) /\ Cardinality(Mbufs) = NMbufs
  BY FS_Interval, Sizes DEF Mbufs
<1>4. Cardinality(1 .. Len(s)) = Len(s)
  BY <1>1, FS_Interval
<1>5. Len(s) <= NMbufs
  BY <1>2, <1>3, <1>4, FS_Injection
<1>6. Len(s) \in 0 .. NMbufs
  BY <1>1, <1>5, Sizes
<1> QED
  BY <1>1, <1>6 DEF BoundedSeq, SeqOf

\* A sequence cut into its head, what follows up to n, and the rest.
LEMMA CutAt ==
  ASSUME NEW S, NEW s \in Seq(S), s # <<>>, Once(s), NEW n \in 1 .. Len(s)
  PROVE  LET a == SubSeq(s, 2, n)
             b == SubSeq(s, n + 1, Len(s))
         IN /\ Head(s) = s[1] /\ Head(s) \in ToSet(s)
            /\ a \in Seq(S) /\ b \in Seq(S) /\ Once(a) /\ Once(b)
            /\ ToSet(a) \cap ToSet(b) = {} /\ ToSet(a) \cup ToSet(b) = ToSet(s) \ {Head(s)}
            /\ \A j \in DOMAIN b : n + j \in DOMAIN s /\ b[j] = s[n + j]
<1> DEFINE a == SubSeq(s, 2, n)
           b == SubSeq(s, n + 1, Len(s))
<1>1. /\ Len(s) \in Nat /\ n \in Nat /\ 1 <= n /\ n <= Len(s) /\ DOMAIN s = 1 .. Len(s)
      /\ Head(s) = s[1] /\ 1 \in DOMAIN s
      /\ \A j \in 1 .. Len(s) : s[j] \in S
  BY LenProperties
<1>2. a \in Seq(S) /\ Len(a) = n - 1 /\ \A j \in 1 .. n - 1 : a[j] = s[j + 1]
  <2>1. /\ a \in Seq(S) /\ Len(a) = IF 2 <= n THEN n - 2 + 1 ELSE 0
        /\ \A j \in 1 .. n - 2 + 1 : a[j] = s[2 + j - 1]
    BY <1>1, SubSeqProperties
  <2> HIDE DEF a, b
  <2>2. Len(a) = n - 1
    BY <1>1, <2>1
  <2>3. ASSUME NEW j \in 1 .. n - 1 PROVE a[j] = s[j + 1]
    <3>1. j \in 1 .. n - 2 + 1 /\ 2 + j - 1 = j + 1
      BY <1>1
    <3> QED
      BY <2>1, <3>1
  <2> QED
    BY <2>1, <2>2, <2>3
<1>3. b \in Seq(S) /\ Len(b) = Len(s) - n /\ \A j \in 1 .. Len(s) - n : b[j] = s[n + j]
  <2>1. /\ b \in Seq(S) /\ Len(b) = IF n + 1 <= Len(s) THEN Len(s) - (n + 1) + 1 ELSE 0
        /\ \A j \in 1 .. Len(s) - (n + 1) + 1 : b[j] = s[(n + 1) + j - 1]
    BY <1>1, SubSeqProperties
  <2> HIDE DEF a, b
  <2>2. Len(b) = Len(s) - n
    <3> DEFINE l == Len(s)
    <3>1. Len(b) = IF n + 1 <= l THEN l - (n + 1) + 1 ELSE 0
      BY <2>1
    <3>2. l \in Nat /\ n \in Nat /\ n <= l
      BY <1>1
    <3> HIDE DEF l
    <3>3. Len(b) = l - n
      BY <3>1, <3>2
    <3> QED
      BY <3>3 DEF l
  <2>3. ASSUME NEW j \in 1 .. Len(s) - n PROVE b[j] = s[n + j]
    <3>1. j \in 1 .. Len(s) - (n + 1) + 1 /\ (n + 1) + j - 1 = n + j
      BY <1>1
    <3> QED
      BY <2>1, <3>1
  <2> QED
    BY <2>1, <2>2, <2>3
<1> HIDE DEF a, b
<1>4. DOMAIN a = 1 .. n - 1 /\ DOMAIN b = 1 .. Len(s) - n
  BY <1>2, <1>3, LenProperties
<1>5. /\ \A j \in DOMAIN a : j + 1 \in DOMAIN s /\ j + 1 # 1 /\ j + 1 <= n
      /\ \A j \in DOMAIN b : n + j \in DOMAIN s /\ n + j # 1 /\ n + j > n
  BY <1>1, <1>4
<1>6. Once(a) /\ Once(b)
  <2>1. ASSUME NEW j \in DOMAIN a, NEW k \in DOMAIN a, a[j] = a[k] PROVE j = k
    <3>1. j + 1 = k + 1
      BY <1>2, <1>4, <1>5, <2>1 DEF Once
    <3> QED
      BY <1>4, <3>1
  <2>2. ASSUME NEW j \in DOMAIN b, NEW k \in DOMAIN b, b[j] = b[k] PROVE j = k
    <3>1. n + j = n + k
      BY <1>3, <1>4, <1>5, <2>2 DEF Once
    <3> QED
      BY <1>1, <1>4, <3>1
  <2> QED
    BY <2>1, <2>2 DEF Once
<1>7. ToSet(a) \cap ToSet(b) = {}
  <2> SUFFICES ASSUME NEW j \in DOMAIN a, NEW k \in DOMAIN b, a[j] = b[k] PROVE FALSE
    BY DEF ToSet
  <2>1. j + 1 = n + k
    BY <1>2, <1>3, <1>4, <1>5 DEF Once
  <2> QED
    BY <1>1, <1>4, <1>5, <2>1
<1>8. ToSet(a) \cup ToSet(b) = ToSet(s) \ {s[1]}
  <2>1. ASSUME NEW j \in DOMAIN a PROVE a[j] \in ToSet(s) /\ a[j] # s[1]
    BY <1>1, <1>2, <1>4, <1>5 DEF ToSet, Once
  <2>2. ASSUME NEW j \in DOMAIN b PROVE b[j] \in ToSet(s) /\ b[j] # s[1]
    BY <1>1, <1>3, <1>4, <1>5 DEF ToSet, Once
  <2>3. ASSUME NEW j \in DOMAIN s, s[j] # s[1] PROVE s[j] \in ToSet(a) \cup ToSet(b)
    <3>1. CASE j <= n
      <4>1. j - 1 \in DOMAIN a /\ (j - 1) + 1 = j
        BY <1>1, <1>4, <2>3, <3>1
      <4>2. a[j - 1] = s[j]
        BY <1>2, <1>4, <4>1
      <4> QED
        BY <4>1, <4>2 DEF ToSet
    <3>2. CASE ~ (j <= n)
      <4>1. j - n \in DOMAIN b /\ n + (j - n) = j
        BY <1>1, <1>4, <3>2
      <4>2. b[j - n] = s[j]
        BY <1>3, <1>4, <4>1
      <4> QED
        BY <4>1, <4>2 DEF ToSet
    <3> QED
      BY <3>1, <3>2
  <2> QED
    BY <2>1, <2>2, <2>3 DEF ToSet
<1>9. Head(s) \in ToSet(s)
  BY <1>1 DEF ToSet
<1> QED
  BY <1>1, <1>2, <1>3, <1>4, <1>5, <1>6, <1>7, <1>8, <1>9 DEF a, b

\* IFQ_DRV_DEQUEUE takes one mbuf out of the two parts of the queue, and of the
\* stack's part some more from its front.
LEMMA DequeueTakes ==
  ASSUME NEW i \in Ifs, ifq[i] \in Seq(Mbufs), drvq[i] \in Seq(Mbufs),
         Once(ifq[i]), Once(drvq[i]), ToSet(ifq[i]) \cap ToSet(drvq[i]) = {}, ~ Empty(i)
  PROVE  LET d == Dequeued(i)
         IN /\ d.m \in Queued(i) /\ d.m \in Mbufs
            /\ d.ifq \in Seq(Mbufs) /\ d.drv \in Seq(Mbufs)
            /\ Once(d.ifq) /\ Once(d.drv) /\ ToSet(d.ifq) \cap ToSet(d.drv) = {}
            /\ ToSet(d.ifq) \cup ToSet(d.drv) = Queued(i) \ {d.m}
            /\ \E n \in Nat : \A j \in DOMAIN d.ifq :
                 n + j \in DOMAIN ifq[i] /\ d.ifq[j] = ifq[i][n + j]
<1> DEFINE d == Dequeued(i)
<1>1. CASE drvq[i] # <<>>
  <2> DEFINE s == drvq[i]
  <2>1. /\ d.m = Head(s) /\ d.drv = Tail(s) /\ d.ifq = ifq[i]
    BY <1>1 DEF Dequeued
  <2>2. Len(s) \in 1 .. Len(s) /\ Len(s) \in Nat /\ Tail(s) = SubSeq(s, 2, Len(s))
    BY <1>1, EmptySeq, TailIsSubSeq
  <2>3. SubSeq(s, Len(s) + 1, Len(s)) = <<>>
    BY <2>2, SubSeqEmpty
  <2>4. ToSet(<<>>) = {}
    BY DEF ToSet
  <2>5. /\ Head(s) = s[1] /\ Head(s) \in ToSet(s) /\ Head(s) \in Mbufs
        /\ Tail(s) \in Seq(Mbufs) /\ Once(Tail(s)) /\ ToSet(Tail(s)) = ToSet(s) \ {Head(s)}
    <3>1. s \in Seq(Mbufs) /\ s # <<>> /\ Once(s)
      BY <1>1
    <3> HIDE DEF s
    <3>2. /\ Head(s) = s[1] /\ Head(s) \in ToSet(s)
          /\ Tail(s) \in Seq(Mbufs) /\ Once(Tail(s))
          /\ ToSet(Tail(s)) \cup ToSet(<<>>) = ToSet(s) \ {Head(s)}
      <4> DEFINE l == Len(s)
      <4>1. l \in 1 .. Len(s) /\ Tail(s) = SubSeq(s, 2, l) /\ <<>> = SubSeq(s, l + 1, Len(s))
        BY <2>2, <2>3
      <4> HIDE DEF l
      <4>2. /\ Head(s) = s[1] /\ Head(s) \in ToSet(s)
            /\ SubSeq(s, 2, l) \in Seq(Mbufs) /\ Once(SubSeq(s, 2, l))
            /\ ToSet(SubSeq(s, 2, l)) \cup ToSet(SubSeq(s, l + 1, Len(s)))
                 = ToSet(s) \ {Head(s)}
        BY <3>1, <4>1, CutAt, Zenon
      <4> QED
        BY <4>1, <4>2
    <3>3. Head(s) \in Mbufs
      BY <3>1, HeadTailProperties
    <3> QED
      BY <2>4, <3>2, <3>3
  <2>6. \A j \in DOMAIN ifq[i] : 0 + j \in DOMAIN ifq[i] /\ ifq[i][j] = ifq[i][0 + j]
    <3>1. DOMAIN ifq[i] = 1 .. Len(ifq[i]) /\ Len(ifq[i]) \in Nat
      BY LenProperties
    <3>2. \A j \in DOMAIN ifq[i] : 0 + j = j
      BY <3>1
    <3> QED
      BY <3>2
  <2> QED
    BY <2>1, <2>5, <2>6 DEF Queued
<1>2. CASE drvq[i] = <<>>
  <2> DEFINE s == ifq[i]
             n == Min({Len(s), DrvMax + 1})
  <2>1. s # <<>> /\ Len(s) \in Nat /\ Len(s) >= 1
    BY <1>2, EmptySeq DEF Empty
  <2>2. n \in 1 .. Len(s)
    <3>1. \E x \in {Len(s), DrvMax + 1} : \A y \in {Len(s), DrvMax + 1} : x <= y
      BY <2>1, Sizes
    <3>2. n \in {Len(s), DrvMax + 1} /\ n <= Len(s) /\ n <= DrvMax + 1
      BY <3>1 DEF Min
    <3> QED
      BY <2>1, <3>2, Sizes
  <2>3. d.m = Head(s) /\ d.drv = SubSeq(s, 2, n) /\ d.ifq = SubSeq(s, n + 1, Len(s))
    BY <1>2 DEF Dequeued
  <2>4. Queued(i) = ToSet(s)
    BY <1>2 DEF Queued, ToSet
  <2>5. Head(s) \in Mbufs
    BY <2>1, HeadTailProperties
  <2> HIDE DEF n, d
  <2>6. n \in Nat
    BY <2>1, <2>2
  <2>7. /\ Head(s) \in ToSet(s)
        /\ d.ifq \in Seq(Mbufs) /\ d.drv \in Seq(Mbufs) /\ Once(d.ifq) /\ Once(d.drv)
        /\ ToSet(d.ifq) \cap ToSet(d.drv) = {}
        /\ ToSet(d.ifq) \cup ToSet(d.drv) = ToSet(s) \ {Head(s)}
        /\ \A j \in DOMAIN d.ifq : n + j \in DOMAIN s /\ d.ifq[j] = s[n + j]
    BY <2>1, <2>2, <2>3, CutAt
  <2> QED
    BY <2>3, <2>4, <2>5, <2>6, <2>7 DEF d
<1> QED
  BY <1>1, <1>2

-----------------------------------------------------------------------------
(* Who owns an mbuf.                                                       *)

\* What is where, place by place.
LEMMA OwnedAt ==
  /\ \A i \in Ifs :
       /\ owned[Place("queue", i)] = Queued(i) /\ owned[Place("held", i)] = Held(i)
       /\ owned[Place("ring", i)] = Sent(i)
  /\ owned[Place("host", 0)] = taken /\ owned[Place("freed", 0)] = {m \in Mbufs : freed[m] = 1}
<1>1. \A i \in Ifs, q \in {"queue", "held", "ring"} :
        Place(q, i) \in Places /\ Place(q, i).q = q /\ Place(q, i).i = i
  BY DEF Places, Place
<1>2. \A q \in {"host", "freed"} : Place(q, 0) \in Places /\ Place(q, 0).q = q
  BY DEF Places, Place
<1>3. \A i \in Ifs :
       /\ owned[Place("queue", i)] = Queued(i) /\ owned[Place("held", i)] = Held(i)
       /\ owned[Place("ring", i)] = Sent(i)
  BY <1>1 DEF owned
<1>4. owned[Place("host", 0)] = taken /\ owned[Place("freed", 0)] = {m \in Mbufs : freed[m] = 1}
  BY <1>2 DEF owned
<1> QED
  BY <1>3, <1>4

\* The same after a step.
LEMMA OwnedAtNext ==
  /\ \A i \in Ifs :
       /\ owned'[Place("queue", i)] = Queued(i)' /\ owned'[Place("held", i)] = Held(i)'
       /\ owned'[Place("ring", i)] = Sent(i)'
  /\ owned'[Place("host", 0)] = taken'
  /\ owned'[Place("freed", 0)] = {m \in Mbufs : freed'[m] = 1}
<1>1. (/\ \A i \in Ifs :
            /\ owned[Place("queue", i)] = Queued(i) /\ owned[Place("held", i)] = Held(i)
            /\ owned[Place("ring", i)] = Sent(i)
       /\ owned[Place("host", 0)] = taken
       /\ owned[Place("freed", 0)] = {m \in Mbufs : freed[m] = 1})'
  BY OwnedAt, PTL
<1> QED
  BY <1>1

\* The places, and that they are different.
LEMMA PlacesAre ==
  /\ \A p \in Places :
       \/ \E i \in Ifs : p \in {Place("queue", i), Place("held", i), Place("ring", i)}
       \/ p \in {Place("host", 0), Place("freed", 0)}
  /\ \A i \in Ifs : {Place("queue", i), Place("held", i), Place("ring", i)} \subseteq Places
  /\ {Place("host", 0), Place("freed", 0)} \subseteq Places
  /\ \A q, r, i, k : Place(q, i) = Place(r, k) => q = r /\ i = k
BY DEF Places, Place

\* What the invariant says of an mbuf that is somewhere.
LEMMA OnePlace ==
  ASSUME Types, Owned
  PROVE  /\ \A i \in Ifs : /\ Queued(i) \subseteq 1 .. arrived /\ Held(i) \subseteq 1 .. arrived
                           /\ Sent(i) \subseteq 1 .. arrived
         /\ taken \subseteq 1 .. arrived
         /\ \A m \in Mbufs : freed[m] = 1 => m \in 1 .. arrived
         /\ \A i, k \in Ifs : i # k => /\ Queued(i) \cap Queued(k) = {}
                                       /\ Held(i) \cap Held(k) = {} /\ Sent(i) \cap Sent(k) = {}
         /\ \A i, k \in Ifs : /\ Queued(i) \cap Held(k) = {} /\ Queued(i) \cap Sent(k) = {}
                              /\ Held(i) \cap Sent(k) = {}
         /\ \A i \in Ifs : (Queued(i) \cup Held(i) \cup Sent(i)) \cap taken = {}
         /\ \A m \in taken : freed[m] = 0
         /\ \A i \in Ifs : \A m \in Held(i) : freed[m] = 0
         /\ 1 .. arrived \subseteq Mbufs /\ arrived \in Nat
<1>1. 1 .. arrived \subseteq Mbufs /\ arrived \in Nat
  BY Sizes DEF Types, Mbufs
<1>2. \A p, q \in Places : p # q => owned[p] \cap owned[q] = {}
  BY DEF Owned, Splits
<1>3. \A p \in Places : owned[p] \subseteq 1 .. arrived
  BY DEF Owned, Splits
<1>4. \A q, r, i, k : (q # r \/ i # k) => Place(q, i) # Place(r, k)
  BY PlacesAre
<1>5. \A i \in Ifs : /\ Queued(i) \subseteq 1 .. arrived /\ Held(i) \subseteq 1 .. arrived
                     /\ Sent(i) \subseteq 1 .. arrived
  BY <1>3, OwnedAt, PlacesAre
<1>6. taken \subseteq 1 .. arrived /\ \A m \in Mbufs : freed[m] = 1 => m \in 1 .. arrived
  BY <1>3, OwnedAt, PlacesAre
<1>7. \A i, k \in Ifs : i # k => /\ Queued(i) \cap Queued(k) = {}
                                 /\ Held(i) \cap Held(k) = {} /\ Sent(i) \cap Sent(k) = {}
  BY <1>2, <1>4, OwnedAt, PlacesAre
<1>8. \A i, k \in Ifs : /\ Queued(i) \cap Held(k) = {} /\ Queued(i) \cap Sent(k) = {}
                        /\ Held(i) \cap Sent(k) = {}
  BY <1>2, <1>4, OwnedAt, PlacesAre
<1>9. \A i \in Ifs : (Queued(i) \cup Held(i) \cup Sent(i)) \cap taken = {}
  BY <1>2, <1>4, OwnedAt, PlacesAre
<1>10. \A m \in taken : freed[m] = 0
  <2> SUFFICES ASSUME NEW m \in taken PROVE freed[m] = 0
    OBVIOUS
  <2>1. owned[Place("host", 0)] \cap owned[Place("freed", 0)] = {}
    BY <1>2, <1>4, PlacesAre
  <2>2. m \notin {x \in Mbufs : freed[x] = 1}
    BY <2>1, OwnedAt
  <2> QED
    BY <2>2 DEF Types
<1>11. \A i \in Ifs : \A m \in Held(i) : freed[m] = 0
  <2> SUFFICES ASSUME NEW i \in Ifs, NEW m \in Held(i) PROVE freed[m] = 0
    OBVIOUS
  <2>1. owned[Place("held", i)] \cap owned[Place("freed", 0)] = {}
    BY <1>2, <1>4, PlacesAre
  <2>2. m \notin {x \in Mbufs : freed[x] = 1}
    BY <2>1, OwnedAt
  <2> QED
    BY <1>1, <1>5, <2>2 DEF Types
<1> QED
  BY <1>1, <1>5, <1>6, <1>7, <1>8, <1>9, <1>10, <1>11

\* Where hn_start_locked is, and what changes when it goes on.
LEMMA TxFacts ==
  ASSUME Types
  PROVE  /\ \A i \in Ifs : tx[i].at \in Ats /\ tx[i].m \in 0 .. NMbufs
                           /\ tx[i].retries \in 0 .. Tries
         /\ \A i \in Ifs, at \in Ats : Goes(i, at) =>
              /\ tx'[i].at = at /\ tx'[i].m = tx[i].m /\ tx'[i].retries = tx[i].retries
              /\ \A k \in Ifs : k # i => tx'[k] = tx[k]
              /\ tx' \in [Ifs -> TxType]
         /\ Idle \in TxType /\ Idle.at = "idle"
<1>1. ASSUME NEW i \in Ifs, NEW at \in Ats, Goes(i, at)
      PROVE  /\ tx'[i].at = at /\ tx'[i].m = tx[i].m /\ tx'[i].retries = tx[i].retries
             /\ \A k \in Ifs : k # i => tx'[k] = tx[k]
             /\ tx' \in [Ifs -> TxType]
  <2>1. tx[i] \in TxType
    BY DEF Types
  <2>2. /\ [tx[i] EXCEPT !.at = at] \in TxType
        /\ [tx[i] EXCEPT !.at = at].at = at /\ [tx[i] EXCEPT !.at = at].m = tx[i].m
        /\ [tx[i] EXCEPT !.at = at].retries = tx[i].retries
    BY <2>1 DEF TxType
  <2>3. tx' = [tx EXCEPT ![i] = [tx[i] EXCEPT !.at = at]]
    BY <1>1 DEF Goes
  <2> QED
    BY <2>1, <2>2, <2>3 DEF Types
<1>2. Idle \in TxType /\ Idle.at = "idle"
  BY Sizes DEF Idle, Ats, TxType
<1>3. \A i \in Ifs : tx[i].at \in Ats /\ tx[i].m \in 0 .. NMbufs /\ tx[i].retries \in 0 .. Tries
  BY DEF Types, TxType
<1> QED
  BY <1>1, <1>2, <1>3

\* A step that leaves queues, rings, hands and the memory as they are.
LEMMA Stays ==
  ASSUME Owned, UNCHANGED <<arrived, ifq, drvq, ring, taken, freed>>,
         \A i \in Ifs : Held(i)' = Held(i)
  PROVE  Owned'
<1>1. \A i \in Ifs : Queued(i)' = Queued(i) /\ Sent(i)' = Sent(i)
  BY DEF Queued, Sent
<1>2. \A p \in Places : p.q \in {"queue", "held", "ring"} => p.i \in Ifs
  BY DEF Places
<1>3. \A p \in Places : p.q \in {"queue", "held", "ring", "host", "freed"}
  BY DEF Places
<1>4. owned' = owned
  BY <1>1, <1>2, <1>3 DEF owned
<1> QED
  BY <1>4 DEF Owned, Splits

\* A step of interface i that changes two places at most.
LEMMA OthersStay ==
  ASSUME NEW i \in Ifs, NEW a, NEW b,
         \A k \in Ifs : k # i =>
           Queued(k)' = Queued(k) /\ Held(k)' = Held(k) /\ Sent(k)' = Sent(k),
         Place("queue", i) \in {a, b} \/ Queued(i)' = Queued(i),
         Place("held", i) \in {a, b} \/ Held(i)' = Held(i),
         Place("ring", i) \in {a, b} \/ Sent(i)' = Sent(i),
         Place("host", 0) \in {a, b} \/ taken' = taken,
         Place("freed", 0) \in {a, b} \/ freed' = freed
  PROVE  \A p \in Places \ {a, b} : owned'[p] = owned[p]
<1> SUFFICES ASSUME NEW p \in Places, p \notin {a, b} PROVE owned'[p] = owned[p]
  OBVIOUS
<1>1. CASE p \in {Place("host", 0), Place("freed", 0)}
  BY <1>1, OwnedAt, OwnedAtNext
<1>2. ASSUME NEW k \in Ifs, p \in {Place("queue", k), Place("held", k), Place("ring", k)}
      PROVE  owned'[p] = owned[p]
  <2>1. CASE k = i
    BY <1>2, <2>1, OwnedAt, OwnedAtNext
  <2>2. CASE k # i
    BY <1>2, <2>2, OwnedAt, OwnedAtNext
  <2> QED
    BY <2>1, <2>2
<1> QED
  BY <1>1, <1>2, PlacesAre

\* A step that moves the mbufs S from place a to place b.
LEMMA Moves ==
  ASSUME Owned, UNCHANGED arrived, NEW a \in Places, NEW b \in Places, NEW S,
         a # b, S \subseteq owned[a],
         owned'[a] = owned[a] \ S, owned'[b] = owned[b] \cup S,
         \A p \in Places \ {a, b} : owned'[p] = owned[p]
  PROVE  Owned'
<1>1. \A p \in Places : owned'[p] \subseteq 1 .. arrived
  BY DEF Owned, Splits
<1>2. ASSUME NEW m \in 1 .. arrived
      PROVE  \E p \in Places : \A q \in Places : m \in owned'[q] <=> q = p
  <2>1. PICK p \in Places : \A q \in Places : m \in owned[q] <=> q = p
    BY DEF Owned, Splits
  <2>2. CASE m \in S
    <3>1. \A q \in Places : m \in owned'[q] <=> q = b
      BY <2>1, <2>2
    <3> QED
      BY <3>1
  <2>3. CASE m \notin S
    <3>1. \A q \in Places : m \in owned'[q] <=> q = p
      BY <2>1, <2>3
    <3> QED
      BY <3>1
  <2> QED
    BY <2>2, <2>3
<1>3. Splits(owned', 1 .. arrived')
  BY <1>1, <1>2 DEF Splits
<1> QED
  BY <1>3 DEF Owned

-----------------------------------------------------------------------------
(* What the steps do that move an mbuf.                                    *)

\* A step of interface i that leaves the mbufs of the others where they are.
OthersKept(i) ==
  \A k \in Ifs : k # i => Queued(k)' = Queued(k) /\ Held(k)' = Held(k) /\ Sent(k)' = Sent(k)

\* Dequeue: from the queue into the hands of hn_start_locked.
LEMMA DequeueDoes ==
  ASSUME IInv, NEW i \in Ifs, Dequeue(i)
  PROVE  \E m \in Mbufs :
           /\ m \in Queued(i) /\ Queued(i)' = Queued(i) \ {m}
           /\ At(i, "loop") /\ tx'[i].at = "send" /\ tx'[i].m = m
           /\ Held(i) = {} /\ Held(i)' = {m} /\ Sent(i)' = Sent(i) /\ OthersKept(i)
           /\ tx' \in [Ifs -> TxType]
           /\ ifq' \in [Ifs -> Seq(Mbufs)] /\ drvq' \in [Ifs -> Seq(Mbufs)]
           /\ Once(ifq'[i]) /\ Once(drvq'[i]) /\ ToSet(ifq'[i]) \cap ToSet(drvq'[i]) = {}
           /\ \E n \in Nat : \A j \in DOMAIN ifq'[i] :
                n + j \in DOMAIN ifq[i] /\ ifq'[i][j] = ifq[i][n + j]
           /\ \A k \in Ifs : k # i => ifq'[k] = ifq[k] /\ drvq'[k] = drvq[k] /\ tx'[k] = tx[k]
           /\ packet' = [packet EXCEPT ![m] =
                           [completion |-> "xmit", saved |-> "none", tid |-> m]]
           /\ UNCHANGED <<arrived, flags, starting, signal, ring, freed, host, history>>
<1> DEFINE d == Dequeued(i)
<1>1. /\ ifq[i] \in Seq(Mbufs) /\ drvq[i] \in Seq(Mbufs) /\ Once(ifq[i]) /\ Once(drvq[i])
      /\ ToSet(ifq[i]) \cap ToSet(drvq[i]) = {} /\ ~ Empty(i)
  BY DEF IInv, Types, Apart, Dequeue
<1>2. /\ d.m \in Queued(i) /\ d.m \in Mbufs
      /\ d.ifq \in Seq(Mbufs) /\ d.drv \in Seq(Mbufs)
      /\ Once(d.ifq) /\ Once(d.drv) /\ ToSet(d.ifq) \cap ToSet(d.drv) = {}
      /\ ToSet(d.ifq) \cup ToSet(d.drv) = Queued(i) \ {d.m}
      /\ \E n \in Nat : \A j \in DOMAIN d.ifq :
           n + j \in DOMAIN ifq[i] /\ d.ifq[j] = ifq[i][n + j]
  BY <1>1, DequeueTakes, Zenon
<1>3. /\ At(i, "loop")
      /\ ifq' = [ifq EXCEPT ![i] = d.ifq] /\ drvq' = [drvq EXCEPT ![i] = d.drv]
      /\ tx' = [tx EXCEPT ![i].at = "send", ![i].m = d.m]
      /\ packet' = [packet EXCEPT ![d.m] =
                      [completion |-> "xmit", saved |-> "none", tid |-> d.m]]
      /\ UNCHANGED <<arrived, flags, starting, signal, ring, freed, host, history>>
  BY DEF Dequeue
<1> HIDE DEF d
<1>4. /\ ifq' \in [Ifs -> Seq(Mbufs)] /\ drvq' \in [Ifs -> Seq(Mbufs)]
      /\ ifq'[i] = d.ifq /\ drvq'[i] = d.drv
      /\ \A k \in Ifs : k # i => ifq'[k] = ifq[k] /\ drvq'[k] = drvq[k]
  BY <1>2, <1>3 DEF IInv, Types
<1>5. /\ tx'[i].at = "send" /\ tx'[i].m = d.m /\ \A k \in Ifs : k # i => tx'[k] = tx[k]
      /\ tx' \in [Ifs -> TxType]
  <2>1. tx[i] \in TxType /\ d.m \in 0 .. NMbufs
    BY <1>2, Sizes DEF IInv, Types, Mbufs
  <2>2. [tx[i] EXCEPT !.at = "send", !.m = d.m]
          \in TxType
    BY <2>1 DEF Ats, TxType
  <2>3. tx' = [tx EXCEPT ![i] = [tx[i] EXCEPT !.at = "send", !.m = d.m]]
    BY <1>3
  <2> QED
    BY <2>1, <2>2, <2>3 DEF IInv, Types, TxType
<1>6. Queued(i)' = Queued(i) \ {d.m}
  BY <1>2, <1>4 DEF Queued
<1>7. \E n \in Nat : \A j \in DOMAIN ifq'[i] :
        n + j \in DOMAIN ifq[i] /\ ifq'[i][j] = ifq[i][n + j]
  BY <1>2, <1>4
<1>8. Once(ifq'[i]) /\ Once(drvq'[i]) /\ ToSet(ifq'[i]) \cap ToSet(drvq'[i]) = {}
  BY <1>2, <1>4
<1>9. Held(i) = {} /\ Held(i)' = {d.m} /\ Sent(i)' = Sent(i) /\ OthersKept(i)
  BY <1>3, <1>4, <1>5 DEF Held, At, Sent, Queued, OthersKept
<1> QED
  <2> d.m \in Mbufs
    BY <1>2
  <2> WITNESS d.m \in Mbufs
  <2> QED
    BY <1>2, <1>3, <1>4, <1>5, <1>6, <1>7, <1>8, <1>9

\* RndisFilterOnSend saves the completion it finds, and takes it back from there.
LEMMA FilterSaves ==
  ASSUME NEW s, NEW m
  PROVE  LET p == [completion |-> "xmit", saved |-> s, tid |-> m]
         IN /\ Filtered(p) = [completion |-> "filter", saved |-> "xmit", tid |-> m]
            /\ Restored(Filtered(p)) = [completion |-> "xmit", saved |-> "xmit", tid |-> m]
<1> DEFINE p == [completion |-> "xmit", saved |-> s, tid |-> m]
<1>1. Filtered(p) = [completion |-> "filter", saved |-> "xmit", tid |-> m]
  <2>1. p.completion = "xmit"
    OBVIOUS
  <2>2. Filtered(p) = [p EXCEPT !.saved = "xmit", !.completion = "filter"]
    BY <2>1 DEF Filtered
  <2> QED
    BY <2>2
<1>2. Restored([completion |-> "filter", saved |-> "xmit", tid |-> m])
        = [completion |-> "xmit", saved |-> "xmit", tid |-> m]
  BY DEF Restored
<1> QED
  BY <1>1, <1>2

\* GiveUp: from there back to the front of the queue.
LEMMA GiveUpDoes ==
  ASSUME IInv, NEW i \in Ifs, GiveUp(i)
  PROVE  LET m == tx[i].m
         IN /\ m \in Mbufs /\ m \notin Queued(i) /\ Queued(i)' = Queued(i) \cup {m}
            /\ Held(i) = {m} /\ Held(i)' = {} /\ Sent(i)' = Sent(i) /\ OthersKept(i)
            /\ tx'[i].at = "loop"
            /\ tx' \in [Ifs -> TxType]
            /\ ifq' \in [Ifs -> Seq(Mbufs)] /\ Once(ifq'[i])
            /\ ToSet(ifq'[i]) = ToSet(ifq[i]) \cup {m}
            /\ Len(ifq[i]) \in Nat /\ DOMAIN ifq[i] = 1 .. Len(ifq[i])
            /\ DOMAIN ifq'[i] = 1 .. Len(ifq[i]) + 1 /\ ifq'[i][1] = m
            /\ \A j \in 2 .. Len(ifq[i]) + 1 : ifq'[i][j] = ifq[i][j - 1]
            /\ \A k \in Ifs : k # i => ifq'[k] = ifq[k] /\ tx'[k] = tx[k]
            /\ oactive' = [oactive EXCEPT ![i] = TRUE]
            /\ packet' = [packet EXCEPT ![m] = NoPacket]
            /\ putBack' = putBack \cup {m}
            /\ UNCHANGED <<arrived, drvq, running, stops, starting, signal, ring, freed, host,
                           seen, skipped, overwritten>>
<1> DEFINE m == tx[i].m
<1>1. At(i, "give up") /\ tx' = [tx EXCEPT ![i].at = "loop", ![i].m = 0]
      /\ ifq' = [ifq EXCEPT ![i] = Prepended(@, m)]
      /\ packet' = [packet EXCEPT ![m] = NoPacket]
      /\ oactive' = [oactive EXCEPT ![i] = TRUE]
      /\ putBack' = putBack \cup {m}
      /\ UNCHANGED <<arrived, drvq, running, stops, starting, signal, ring, freed, host,
                     seen, skipped, overwritten>>
  BY DEF GiveUp, ReleasePacket
<1>2. Held(i) = {m}
  BY <1>1 DEF Held, At
<1>3. m \in Mbufs /\ m \notin Queued(i)
  BY <1>2, OnePlace DEF IInv
<1>4. ifq[i] \in Seq(Mbufs) /\ Once(ifq[i]) /\ m \notin ToSet(ifq[i])
  BY <1>3 DEF IInv, Types, Apart, Queued
<1> HIDE DEF m
<1>5. ifq'[i] = Prepended(ifq[i], m) /\ \A k \in Ifs : k # i => ifq'[k] = ifq[k]
  BY <1>1 DEF IInv, Types
<1>6. /\ Prepended(ifq[i], m) \in Seq(Mbufs)
      /\ Len(Prepended(ifq[i], m)) = Len(ifq[i]) + 1
      /\ Prepended(ifq[i], m)[1] = m /\ Once(Prepended(ifq[i], m))
      /\ \A j \in 2 .. Len(ifq[i]) + 1 : Prepended(ifq[i], m)[j] = ifq[i][j - 1]
      /\ ToSet(Prepended(ifq[i], m)) = ToSet(ifq[i]) \cup {m}
  <2> DEFINE s == ifq[i]
  <2>1. s \in Seq(Mbufs) /\ Once(s) /\ m \notin ToSet(s) /\ m \in Mbufs
    BY <1>3, <1>4
  <2> HIDE DEF s
  <2>2. /\ Prepended(s, m) \in Seq(Mbufs)
        /\ Len(Prepended(s, m)) = Len(s) + 1
        /\ Prepended(s, m)[1] = m /\ Once(Prepended(s, m))
        /\ \A j \in 2 .. Len(s) + 1 : Prepended(s, m)[j] = s[j - 1]
        /\ ToSet(Prepended(s, m)) = ToSet(s) \cup {m}
    <3>1. Prepended(s, m) \in Seq(Mbufs)
      BY <2>1, PrependAdds
    <3>2. Len(Prepended(s, m)) = Len(s) + 1
      BY <2>1, PrependAdds
    <3>3. Prepended(s, m)[1] = m
      BY <2>1, PrependAdds
    <3>4. Once(Prepended(s, m))
      BY <2>1, PrependAdds
    <3>5. \A j \in 2 .. Len(s) + 1 : Prepended(s, m)[j] = s[j - 1]
      BY <2>1, PrependAdds
    <3>6. ToSet(Prepended(s, m)) = ToSet(s) \cup {m}
      BY <2>1, PrependAdds
    <3> QED
      BY <3>1, <3>2, <3>3, <3>4, <3>5, <3>6
  <2> QED
    BY <2>2 DEF s
<1>7. /\ ifq'[i] \in Seq(Mbufs) /\ Len(ifq'[i]) = Len(ifq[i]) + 1
      /\ ifq'[i][1] = m /\ Once(ifq'[i]) /\ ToSet(ifq'[i]) = ToSet(ifq[i]) \cup {m}
      /\ \A j \in 2 .. Len(ifq[i]) + 1 : ifq'[i][j] = ifq[i][j - 1]
  BY <1>5, <1>6, Zenon
<1>8. ifq' \in [Ifs -> Seq(Mbufs)]
  BY <1>1, <1>5, <1>7 DEF IInv, Types
<1>9. /\ Len(ifq[i]) \in Nat /\ DOMAIN ifq[i] = 1 .. Len(ifq[i])
      /\ DOMAIN ifq'[i] = 1 .. Len(ifq[i]) + 1
  BY <1>4, <1>7, LenProperties
<1>10. Queued(i)' = Queued(i) \cup {m}
  BY <1>1, <1>7 DEF Queued
<1>11. /\ tx'[i].at = "loop" /\ \A k \in Ifs : k # i => tx'[k] = tx[k]
       /\ tx' \in [Ifs -> TxType]
  <2>1. tx[i] \in TxType /\ 0 \in 0 .. NMbufs
    BY Sizes DEF IInv, Types, TxType
  <2>2. [tx[i] EXCEPT !.at = "loop", !.m = 0]
          \in TxType
    BY <2>1 DEF Ats, TxType
  <2>3. tx' = [tx EXCEPT ![i] = [tx[i] EXCEPT !.at = "loop", !.m = 0]]
    BY <1>1
  <2> QED
    BY <2>1, <2>2, <2>3 DEF IInv, Types, TxType
<1>12. Held(i)' = {} /\ Sent(i)' = Sent(i) /\ OthersKept(i)
  BY <1>1, <1>5, <1>11 DEF Held, Sent, Queued, OthersKept
<1> QED
  BY <1>1, <1>2, <1>3, <1>5, <1>7, <1>8, <1>9, <1>10, <1>11, <1>12 DEF m

\* Send: from there into the ring.
LEMMA SendDoes ==
  ASSUME IInv, NEW i \in Ifs, Send(i)
  PROVE  LET m == tx[i].m
         IN /\ m \in Mbufs /\ Held(i) = {m} /\ Sent(i)' = Sent(i) \cup {m}
            /\ Held(i)' = {} /\ Queued(i)' = Queued(i) /\ OthersKept(i)
            /\ tx'[i].at = AfterSend(i) /\ tx'[i].m = m
            /\ tx' \in [Ifs -> TxType]
            /\ ring' \in [Ifs -> Seq(Mbufs)] /\ Once(ring'[i])
            /\ \A k \in Ifs : k # i => ring'[k] = ring[k] /\ tx'[k] = tx[k]
            /\ packet' = [packet EXCEPT ![m] =
                            [completion |-> "filter", saved |-> "xmit", tid |-> m]]
            /\ UNCHANGED <<arrived, queue, flags, starting, signal, freed, host, history>>
<1> DEFINE m == tx[i].m
<1>1. /\ At(i, "send") /\ Goes(i, AfterSend(i))
      /\ ring' = [ring EXCEPT ![i] = Append(@, m)]
      /\ packet' = [packet EXCEPT ![m] = Filtered(@)]
      /\ UNCHANGED <<arrived, queue, flags, starting, signal, freed, host, history>>
  BY DEF Send
<1>2. Held(i) = {m}
  BY <1>1 DEF Held, At
<1>3. m \in Mbufs /\ m \notin Sent(i)
  BY <1>2, OnePlace DEF IInv
<1>4. packet[m] \in [completion : {"xmit"}, saved : {"none", "xmit"}, tid : {m}]
  BY <1>2 DEF IInv, HeldIsReady, Ready
<1> HIDE DEF m
<1>5. Filtered(packet[m]) = [completion |-> "filter", saved |-> "xmit", tid |-> m]
  <2>1. PICK s \in {"none", "xmit"} :
          packet[m] = [completion |-> "xmit", saved |-> s, tid |-> m]
    BY <1>4
  <2> QED
    BY <2>1, FilterSaves, Zenon
<1>6. packet' = [packet EXCEPT ![m] = [completion |-> "filter", saved |-> "xmit", tid |-> m]]
  BY <1>1, <1>5
<1>7. ring[i] \in Seq(Mbufs) /\ Once(ring[i]) /\ m \notin ToSet(ring[i])
  BY <1>3 DEF IInv, Types, Apart, Sent
<1>8. /\ Append(ring[i], m) \in Seq(Mbufs) /\ Once(Append(ring[i], m))
      /\ ToSet(Append(ring[i], m)) = ToSet(ring[i]) \cup {m}
  BY <1>3, <1>7, AppendAdds, AppendProperties
<1>9. ring'[i] = Append(ring[i], m) /\ \A k \in Ifs : k # i => ring'[k] = ring[k]
  BY <1>1 DEF IInv, Types
<1>10. ring' \in [Ifs -> Seq(Mbufs)]
  BY <1>1, <1>8 DEF IInv, Types
<1>11. Sent(i)' = Sent(i) \cup {m} /\ Once(ring'[i])
  BY <1>8, <1>9 DEF Sent
<1>12. /\ tx'[i].at = AfterSend(i) /\ tx'[i].m = tx[i].m
       /\ tx' \in [Ifs -> TxType]
       /\ \A k \in Ifs : k # i => tx'[k] = tx[k]
  BY <1>1, TxFacts DEF IInv, Ats, AfterSend
<1>13. Held(i)' = {} /\ Queued(i)' = Queued(i) /\ OthersKept(i)
  BY <1>1, <1>9, <1>12 DEF AfterSend, Held, Sent, Queued, OthersKept, queue
<1> QED
  BY <1>1, <1>2, <1>3, <1>6, <1>9, <1>10, <1>11, <1>12, <1>13 DEF m

\* SendFails leaves the packet as Dequeue made it, but for what OnSend saved.
LEMMA SendFailsDoes ==
  ASSUME IInv, NEW i \in Ifs, SendFails(i)
  PROVE  LET m == tx[i].m
         IN /\ m \in Mbufs /\ Held(i) = {m} /\ Held(i)' = {m} /\ At(i, "send")
            /\ tx'[i].at \in {"send", "give up"} /\ tx'[i].m = m
            /\ tx' \in [Ifs -> TxType]
            /\ \A k \in Ifs : k # i => tx'[k] = tx[k] /\ Held(k)' = Held(k)
            /\ packet' = [packet EXCEPT ![m] =
                            [completion |-> "xmit", saved |-> "xmit", tid |-> m]]
            /\ UNCHANGED <<arrived, queue, flags, starting, signal, ring, freed, host, history>>
<1> DEFINE m == tx[i].m
           n == Min({tx[i].retries + 1, Tries})
           at == IF n < Tries THEN "send" ELSE "give up"
<1>1. /\ At(i, "send") /\ packet' = [packet EXCEPT ![m] = Restored(Filtered(@))]
      /\ tx' = [tx EXCEPT ![i].retries = n, ![i].at = at]
      /\ UNCHANGED <<arrived, queue, flags, starting, signal, ring, freed, host, history>>
  BY DEF SendFails
<1>2. Held(i) = {m}
  BY <1>1 DEF Held, At
<1>3. m \in Mbufs
  BY <1>2, OnePlace DEF IInv
<1>4. packet[m] \in [completion : {"xmit"}, saved : {"none", "xmit"}, tid : {m}]
  BY <1>2 DEF IInv, HeldIsReady, Ready
<1>5. tx[i] \in TxType
  BY DEF IInv, Types
<1>6. n \in 0 .. Tries
  <2>1. tx[i].retries \in 0 .. Tries /\ Tries \in Nat
    BY <1>5, Sizes DEF TxType
  <2>2. \E x \in {tx[i].retries + 1, Tries} : \A y \in {tx[i].retries + 1, Tries} : x <= y
    BY <2>1
  <2>3. n \in {tx[i].retries + 1, Tries} /\ n <= Tries
    BY <2>2 DEF Min
  <2> QED
    BY <2>1, <2>3
<1>7. at \in {"send", "give up"}
  OBVIOUS
<1> HIDE DEF m, n, at
<1>8. Restored(Filtered(packet[m])) = [completion |-> "xmit", saved |-> "xmit", tid |-> m]
  <2>1. PICK s \in {"none", "xmit"} :
          packet[m] = [completion |-> "xmit", saved |-> s, tid |-> m]
    BY <1>4
  <2> QED
    <3> DEFINE p == [completion |-> "xmit", saved |-> s, tid |-> m]
    <3>1. Restored(Filtered(p)) = [completion |-> "xmit", saved |-> "xmit", tid |-> m]
      BY FilterSaves
    <3> QED
      BY <2>1, <3>1
<1>9. [tx[i] EXCEPT !.retries = n, !.at = at]
        \in TxType
  BY <1>5, <1>6, <1>7 DEF Ats, TxType
<1>10. tx' = [tx EXCEPT ![i] = [tx[i] EXCEPT !.retries = n, !.at = at]]
  BY <1>1
<1>11. /\ tx'[i].at = at /\ tx'[i].m = m /\ \A k \in Ifs : k # i => tx'[k] = tx[k]
       /\ tx' \in [Ifs -> TxType]
  BY <1>5, <1>9, <1>10 DEF IInv, Types, TxType, m
<1>12. Held(i)' = {m} /\ \A k \in Ifs : k # i => Held(k)' = Held(k)
  BY <1>7, <1>11 DEF Held
<1> QED
  BY <1>1, <1>2, <1>3, <1>7, <1>8, <1>11, <1>12 DEF m

\* OnSendCompletion frees the mbuf of a packet the host has.
LEMMA CompletionDoes ==
  ASSUME IInv, NEW m \in Mbufs, OnSendCompletion(m)
  PROVE  /\ m \in taken /\ taken' = taken \ {m} /\ freed[m] = 0
         /\ freed' = [freed EXCEPT ![m] = 1] /\ packet' = [packet EXCEPT ![m] = NoPacket]
         /\ \A k \in Ifs : Queued(k)' = Queued(k) /\ Held(k)' = Held(k) /\ Sent(k)' = Sent(k)
         /\ UNCHANGED <<arrived, queue, flags, starting, tx, signal, ring, draining, history>>
<1>1. m \in taken /\ taken' = taken \ {m} /\ XmitCompletion(m)
      /\ UNCHANGED <<arrived, queue, flags, starting, tx, signal, ring, draining, history>>
  BY DEF OnSendCompletion
<1>2. packet[m].tid = m
  <2>1. packet[m] = [completion |-> "filter", saved |-> "xmit", tid |-> m]
    BY <1>1 DEF IInv, SentIsWhole, Whole
  <2> QED
    BY <2>1
<1>3. m # 0
  BY DEF Mbufs
<1>4. freed[m] = 0 /\ freed[m] + 1 = 1
  BY <1>1, OnePlace DEF IInv
<1>5. \A k \in Ifs : Queued(k)' = Queued(k) /\ Held(k)' = Held(k) /\ Sent(k)' = Sent(k)
  BY <1>1 DEF Queued, Held, Sent, queue
<1> QED
  BY <1>1, <1>2, <1>3, <1>4, <1>5 DEF XmitCompletion

\* What hn_start_locked has sent and not shown yet is an mbuf.
LEMMA GivenIsSent ==
  ASSUME IInv, NEW i \in Ifs, At(i, "tap")
  PROVE  tx[i].m \in Mbufs
<1>1. tx[i].m \in Gone
  BY DEF IInv, SeenOnce, Given
<1>2. Gone \subseteq Mbufs
  BY OnePlace DEF IInv, Types, Gone
<1> QED
  BY <1>1, <1>2

\* What a packet is set to.
LEMMA PacketFacts ==
  /\ NoPacket \in PacketType
  /\ \A m \in Mbufs :
       /\ [completion |-> "xmit", saved |-> "none", tid |-> m] \in PacketType
       /\ [completion |-> "filter", saved |-> "xmit", tid |-> m] \in PacketType
       /\ [completion |-> "xmit", saved |-> "xmit", tid |-> m] \in PacketType
BY Sizes DEF NoPacket, PacketType, Completions, Mbufs

\* A step that sets one packet leaves the others as they are.
LEMMA OnlyOne ==
  ASSUME IInv, NEW m \in Mbufs, NEW r, packet' = [packet EXCEPT ![m] = r]
  PROVE  /\ packet'[m] = r
         /\ \A x \in 1 .. arrived : x # m => (Ready(x) => Ready(x)') /\ (Whole(x) => Whole(x)')
<1>1. packet'[m] = r /\ \A x \in Mbufs : x # m => packet'[x] = packet[x]
  BY DEF IInv, Types
<1>2. 1 .. arrived \subseteq Mbufs
  BY OnePlace DEF IInv
<1> QED
  BY <1>1, <1>2 DEF Ready, Whole

\* Output: a new mbuf at the end of the queue.
LEMMA OutputDoes ==
  ASSUME IInv, NEW i \in Ifs, Output(i)
  PROVE  LET m == arrived + 1
         IN /\ m \in Mbufs /\ m \notin Queued(i) /\ Queued(i)' = Queued(i) \cup {m}
            /\ Held(i)' = Held(i) /\ Sent(i)' = Sent(i) /\ OthersKept(i)
            /\ arrived' = m /\ arrived' \in 0 .. NMbufs /\ 1 .. arrived' = (1 .. arrived) \cup {m}
            /\ ifq' \in [Ifs -> Seq(Mbufs)] /\ Once(ifq'[i])
            /\ ToSet(ifq'[i]) = ToSet(ifq[i]) \cup {m}
            /\ Len(ifq[i]) \in Nat /\ DOMAIN ifq[i] = 1 .. Len(ifq[i])
            /\ DOMAIN ifq'[i] = 1 .. Len(ifq[i]) + 1 /\ ifq'[i][Len(ifq[i]) + 1] = m
            /\ \A j \in 1 .. Len(ifq[i]) : ifq'[i][j] = ifq[i][j]
            /\ \A k \in Ifs : k # i => ifq'[k] = ifq[k]
            /\ UNCHANGED <<drvq, flags, tx, signal, ring, mem, host, putBack, seen, overwritten>>
<1> DEFINE m == arrived + 1
           s == ifq[i]
<1>1. /\ arrived < NMbufs /\ arrived' = m /\ ifq' = [ifq EXCEPT ![i] = Append(@, m)]
      /\ UNCHANGED <<drvq, flags, tx, signal, ring, mem, host, putBack, seen, overwritten>>
  BY DEF Output
<1>2. arrived \in Nat /\ NMbufs \in Nat
  BY Sizes DEF IInv, Types
<1>3. /\ m \in Mbufs /\ m \notin 1 .. arrived /\ m \in 0 .. NMbufs
      /\ 1 .. m = (1 .. arrived) \cup {m}
  BY <1>1, <1>2 DEF Mbufs
<1>4. m \notin Queued(i)
  BY <1>3, OnePlace DEF IInv
<1>5. s \in Seq(Mbufs) /\ Once(s) /\ m \notin ToSet(s)
  BY <1>4 DEF IInv, Types, Apart, Queued
<1> HIDE DEF m, s
<1>6. ToSet(Append(s, m)) = ToSet(s) \cup {m} /\ Once(Append(s, m))
  BY <1>3, <1>5, AppendAdds
<1>7. /\ Append(s, m) \in Seq(Mbufs) /\ Len(s) \in Nat /\ DOMAIN s = 1 .. Len(s)
      /\ DOMAIN Append(s, m) = 1 .. Len(s) + 1 /\ Append(s, m)[Len(s) + 1] = m
      /\ \A j \in 1 .. Len(s) : Append(s, m)[j] = s[j]
  <2>1. Append(s, m) \in Seq(Mbufs) /\ Len(Append(s, m)) = Len(s) + 1
    BY <1>3, <1>5, AppendProperties
  <2>2. Append(s, m)[Len(s) + 1] = m /\ \A j \in 1 .. Len(s) : Append(s, m)[j] = s[j]
    BY <1>3, <1>5, AppendProperties
  <2> QED
    BY <1>5, <2>1, <2>2, LenProperties
<1>8. ifq'[i] = Append(s, m) /\ \A k \in Ifs : k # i => ifq'[k] = ifq[k]
  BY <1>1 DEF IInv, Types, s
<1>9. ifq' \in [Ifs -> Seq(Mbufs)]
  BY <1>1, <1>7, <1>8 DEF IInv, Types
<1>10. Queued(i)' = Queued(i) \cup {m}
  BY <1>1, <1>6, <1>8 DEF Queued, s
<1>11. Held(i)' = Held(i) /\ Sent(i)' = Sent(i) /\ OthersKept(i)
  BY <1>1, <1>8 DEF Held, Sent, Queued, OthersKept
<1> QED
  BY <1>1, <1>3, <1>4, <1>6, <1>7, <1>8, <1>9, <1>10, <1>11 DEF m, s

\* HostReads: all a ring holds goes to the host.
LEMMA HostReadsDoes ==
  ASSUME IInv, NEW i \in Ifs, HostReads(i)
  PROVE  /\ ring' \in [Ifs -> Seq(Mbufs)] /\ ring'[i] = <<>> /\ Once(ring'[i])
         /\ Sent(i)' = {} /\ taken' = taken \cup Sent(i)
         /\ Queued(i)' = Queued(i) /\ Held(i)' = Held(i) /\ OthersKept(i)
         /\ \A k \in Ifs : k # i => ring'[k] = ring[k]
         /\ draining' = draining \ {i}
         /\ UNCHANGED <<arrived, queue, flags, starting, tx, signal, mem, history>>
<1>1. /\ ring' = [ring EXCEPT ![i] = <<>>] /\ taken' = taken \cup Sent(i)
      /\ draining' = draining \ {i}
      /\ UNCHANGED <<arrived, queue, flags, starting, tx, signal, mem, history>>
  BY DEF HostReads, Sent
<1>2. <<>> \in Seq(Mbufs) /\ ToSet(<<>>) = {} /\ Once(<<>>)
  BY EmptySeq DEF ToSet, Once
<1>3. /\ ring' \in [Ifs -> Seq(Mbufs)] /\ ring'[i] = <<>>
      /\ \A k \in Ifs : k # i => ring'[k] = ring[k]
  BY <1>1, <1>2 DEF IInv, Types
<1>4. Queued(i)' = Queued(i) /\ Held(i)' = Held(i) /\ OthersKept(i)
  BY <1>1, <1>3 DEF Held, Sent, Queued, OthersKept, queue
<1> QED
  BY <1>1, <1>2, <1>3, <1>4 DEF Sent

\* Start and LoopEnds hold nothing, before and after.
LEMMA StartDoes ==
  ASSUME Types, NEW i \in Ifs, Start(i)
  PROVE  /\ tx' \in [Ifs -> TxType] /\ At(i, "idle") /\ tx'[i].at = "loop"
         /\ \A k \in Ifs : k # i => tx'[k] = tx[k]
         /\ \A k \in Ifs : Held(k)' = Held(k)
         /\ starting[i] > 0 /\ starting' = [starting EXCEPT ![i] = @ - 1]
         /\ UNCHANGED <<arrived, queue, flags, signal, ring, mem, host, history>>
<1>1. [Idle EXCEPT !.at = "loop"] \in TxType /\ [Idle EXCEPT !.at = "loop"].at = "loop"
  <2>1. Idle \in TxType
    BY TxFacts
  <2> QED
    BY <2>1 DEF TxType, Ats
<1>2. /\ tx' \in [Ifs -> TxType] /\ At(i, "idle") /\ tx'[i].at = "loop"
      /\ \A k \in Ifs : k # i => tx'[k] = tx[k]
  BY <1>1 DEF Start, Types
<1>3. \A k \in Ifs : Held(k)' = Held(k)
  BY <1>2 DEF Held, At
<1> QED
  BY <1>2, <1>3 DEF Start

\* The loop that finds the queue empty ends its call of hn_start_locked.
LEMMA LoopEndsDoes ==
  ASSUME Types, NEW i \in Ifs, LoopEnds(i)
  PROVE  /\ tx' \in [Ifs -> TxType] /\ At(i, "loop") /\ tx'[i].at = "idle" /\ Empty(i)
         /\ \A k \in Ifs : k # i => tx'[k] = tx[k]
         /\ \A k \in Ifs : Held(k)' = Held(k)
         /\ UNCHANGED <<arrived, queue, flags, starting, signal, ring, mem, host, history>>
<1>1. /\ tx' \in [Ifs -> TxType] /\ At(i, "loop") /\ tx'[i].at = "idle"
      /\ \A k \in Ifs : k # i => tx'[k] = tx[k]
  BY TxFacts DEF LoopEnds, Types
<1>2. \A k \in Ifs : Held(k)' = Held(k)
  BY <1>1 DEF Held, At
<1> QED
  BY <1>1, <1>2 DEF LoopEnds

\* BitSet holds nothing either.
LEMMA LoadsDoes ==
  ASSUME Types, NEW i \in Ifs, NEW w \in Words, BitSetLoads(i, w)
  PROVE  /\ tx' \in [Ifs -> TxType] /\ word' \in [Ifs -> SUBSET Ifs]
         /\ tx[i].at = (IF w = "send" THEN "load send" ELSE "load trigger")
         /\ tx'[i].at = (IF w = "send" THEN "store send" ELSE "store trigger")
         /\ tx'[i].m = tx[i].m
         /\ \A k \in Ifs : k # i => tx'[k] = tx[k]
         /\ \A k \in Ifs : Held(k)' = Held(k)
         /\ UNCHANGED <<arrived, queue, flags, starting, pending, called, ring, mem, host,
                        history>>
<1>1. /\ tx[i].at = (IF w = "send" THEN "load send" ELSE "load trigger")
      /\ Goes(i, IF w = "send" THEN "store send" ELSE "store trigger")
      /\ word' = [word EXCEPT ![i] = pending[w]]
      /\ UNCHANGED <<arrived, queue, flags, starting, pending, called, ring, mem, host, history>>
  BY DEF BitSetLoads
<1>2. /\ tx' \in [Ifs -> TxType]
      /\ tx'[i].at = (IF w = "send" THEN "store send" ELSE "store trigger")
      /\ tx'[i].m = tx[i].m
      /\ \A k \in Ifs : k # i => tx'[k] = tx[k]
  BY <1>1, TxFacts DEF Ats
<1>3. \A k \in Ifs : Held(k)' = Held(k)
  BY <1>1, <1>2 DEF Held
<1>4. word' \in [Ifs -> SUBSET Ifs]
  BY <1>1 DEF Types
<1> QED
  BY <1>1, <1>2, <1>3, <1>4

\* The second half of a BitSet leaves its bit in the page: the trigger is next, or
\* the call of hn_start_locked goes back to its loop.
LEMMA StoresDoes ==
  ASSUME Types, NEW i \in Ifs, NEW w \in Words, BitSetStores(i, w)
  PROVE  /\ tx' \in [Ifs -> TxType] /\ word' \in [Ifs -> SUBSET Ifs]
         /\ tx[i].at = (IF w = "send" THEN "store send" ELSE "store trigger")
         /\ tx'[i].at = (IF w = "send" /\ i \in Monitored THEN "load trigger" ELSE "tap")
         /\ tx'[i].m = tx[i].m
         /\ \A k \in Ifs : k # i => tx'[k] = tx[k]
         /\ \A k \in Ifs : Held(k)' = Held(k)
         /\ pending' \in [Words -> SUBSET Ifs] /\ i \in pending'[w]
         /\ \A v \in Words : v # w => pending'[v] = pending[v]
         /\ overwritten' \subseteq Ifs /\ overwritten \subseteq overwritten'
         /\ \A k \in pending[w] : k \in pending'[w] \/ k \in overwritten'
         /\ called' = (called \/ (w = "send" /\ i \notin Monitored))
         /\ UNCHANGED <<arrived, queue, flags, starting, ring, mem, host, putBack, seen, skipped>>
<1>1. /\ tx[i].at = (IF w = "send" THEN "store send" ELSE "store trigger")
      /\ Goes(i, IF w = "send" /\ i \in Monitored THEN "load trigger" ELSE "tap")
      /\ pending' = [pending EXCEPT ![w] = Stored(i)] /\ word' = [word EXCEPT ![i] = {}]
      /\ overwritten' = overwritten \cup (pending[w] \ Stored(i))
      /\ called' = (called \/ (w = "send" /\ i \notin Monitored))
      /\ UNCHANGED <<arrived, queue, flags, starting, ring, mem, host, putBack, seen, skipped>>
  BY DEF BitSetStores
<1>2. /\ tx' \in [Ifs -> TxType]
      /\ tx'[i].at = (IF w = "send" /\ i \in Monitored THEN "load trigger" ELSE "tap")
      /\ tx'[i].m = tx[i].m
      /\ \A k \in Ifs : k # i => tx'[k] = tx[k]
  BY <1>1, TxFacts DEF Ats
<1>3. \A k \in Ifs : Held(k)' = Held(k)
  BY <1>1, <1>2 DEF Held
<1>4. Stored(i) \subseteq Ifs /\ i \in Stored(i)
  BY DEF Types, Stored
<1>5. /\ word' \in [Ifs -> SUBSET Ifs] /\ pending' \in [Words -> SUBSET Ifs]
      /\ pending'[w] = Stored(i) /\ \A v \in Words : v # w => pending'[v] = pending[v]
  BY <1>1, <1>4 DEF Types
<1>6. overwritten' \subseteq Ifs /\ overwritten \subseteq overwritten'
  BY <1>1 DEF Types
<1>7. \A k \in pending[w] : k \in pending'[w] \/ k \in overwritten'
  BY <1>1, <1>5
<1> QED
  BY <1>1, <1>2, <1>3, <1>4, <1>5, <1>6, <1>7

\* The tap reads an mbuf that was given away and goes back to the loop.
LEMMA TapDoes ==
  ASSUME Types, NEW i \in Ifs, Tap(i)
  PROVE  /\ tx' \in [Ifs -> TxType] /\ At(i, "tap") /\ tx'[i].at = "loop"
         /\ \A k \in Ifs : k # i => tx'[k] = tx[k]
         /\ \A k \in Ifs : Held(k)' = Held(k)
         /\ seen' = seen \cup {tx[i].m}
         /\ UNCHANGED <<arrived, queue, flags, starting, signal, ring, mem, host, putBack,
                        skipped, overwritten>>
<1>1. /\ At(i, "tap") /\ tx' = [tx EXCEPT ![i].at = "loop", ![i].m = 0]
      /\ seen' = seen \cup {tx[i].m}
      /\ UNCHANGED <<arrived, queue, flags, starting, signal, ring, mem, host, putBack,
                     skipped, overwritten>>
  BY DEF Tap
<1>2. /\ tx'[i].at = "loop" /\ \A k \in Ifs : k # i => tx'[k] = tx[k]
      /\ tx' \in [Ifs -> TxType]
  <2>1. tx[i] \in TxType /\ 0 \in 0 .. NMbufs
    BY Sizes DEF Types, TxType
  <2>2. [tx[i] EXCEPT !.at = "loop", !.m = 0] \in TxType
    BY <2>1 DEF Ats, TxType
  <2>3. tx' = [tx EXCEPT ![i] = [tx[i] EXCEPT !.at = "loop", !.m = 0]]
    BY <1>1
  <2> QED
    BY <2>1, <2>2, <2>3 DEF Types, TxType
<1>3. \A k \in Ifs : Held(k)' = Held(k)
  BY <1>1, <1>2 DEF Held, At
<1> QED
  BY <1>1, <1>2, <1>3

-----------------------------------------------------------------------------
(* The invariant, conjunct by conjunct.                                    *)

\* At first nothing has come.
LEMMA InitHolds == Init => IInv
<1> SUFFICES ASSUME Init PROVE IInv
  OBVIOUS
<1>1. /\ <<>> \in Seq(Mbufs) /\ ToSet(<<>>) = {} /\ Once(<<>>) /\ DOMAIN <<>> = {}
  BY EmptySeq DEF ToSet, Once
<1>2. Types
  <2>1. NoPacket \in PacketType
    BY Sizes DEF NoPacket, Completions, PacketType
  <2>2. Idle \in TxType
    BY Sizes DEF Idle, Ats, TxType
  <2>3. 0 \in 0 .. NMbufs /\ 0 \in 0 .. MaxStops
    BY Sizes
  <2>4. /\ ifq \in [Ifs -> Seq(Mbufs)] /\ drvq \in [Ifs -> Seq(Mbufs)]
        /\ ring \in [Ifs -> Seq(Mbufs)]
    BY <1>1 DEF Init
  <2>5. /\ tx \in [Ifs -> TxType]
        /\ packet \in [Mbufs -> PacketType]
    BY <2>1, <2>2 DEF Init
  <2>6. /\ starting \in [Ifs -> Nat] /\ \A i \in Ifs : starting[i] <= arrived
        /\ freed \in [Mbufs -> 0 .. 1]
    BY DEF Init
  <2> QED
    BY <2>3, <2>4, <2>5, <2>6 DEF Init, Types
<1>3. Apart
  BY <1>1 DEF Init, Apart
<1>4. Owned
  <2>1. \A i \in Ifs : Queued(i) = {} /\ Held(i) = {} /\ Sent(i) = {}
    BY <1>1 DEF Init, Queued, Held, Sent, Idle
  <2>2. taken = {} /\ {m \in Mbufs : freed[m] = 1} = {} /\ 1 .. arrived = {}
    BY DEF Init
  <2>3. \A p \in Places : owned[p] = {}
    BY <2>1, <2>2, OwnedAt, PlacesAre
  <2> QED
    BY <2>2, <2>3 DEF Owned, Splits
<1>5. HeldIsReady /\ OnlyMonitored
  BY DEF Init, HeldIsReady, Held, OnlyMonitored, Idle
<1>6. SentIsWhole
  <2>1. \A i \in Ifs : Sent(i) = {}
    BY <1>1 DEF Init, Sent
  <2> QED
    BY <2>1 DEF Init, SentIsWhole
<1>7. PutBackGoesFirst
  BY <1>1 DEF Init, PutBackGoesFirst
<1>8. WaitsOnlyForOactive /\ SentIsSignalled
  BY DEF Init, WaitsOnlyForOactive, SentIsSignalled, Empty
<1>9. SeenOnce
  <2>1. Gone = {}
    BY <1>1 DEF Init, Gone, Sent
  <2>2. \A i \in Ifs : Given(i) = {}
    BY DEF Init, Given, Signalling, At, Idle
  <2> QED
    BY <2>1, <2>2 DEF Init, SeenOnce
<1> QED
  BY <1>2, <1>3, <1>4, <1>5, <1>6, <1>7, <1>8, <1>9 DEF IInv

\* Each step keeps the types.
LEMMA TypesKept == IInv /\ [Next]_vars => Types'
<1> SUFFICES ASSUME IInv, [Next]_vars PROVE Types'
  OBVIOUS
<1> USE Sizes DEF IInv, Types
<1>1. ASSUME NEW i \in Ifs, Start(i) PROVE Types'
  <2>1. starting' \in [Ifs -> Nat] /\ \A k \in Ifs : starting'[k] <= arrived
    <3>1. starting[i] > 0 /\ starting' = [starting EXCEPT ![i] = @ - 1] /\ arrived \in Nat
      BY <1>1, StartDoes
    <3>2. starting[i] \in Nat /\ starting[i] - 1 \in Nat /\ starting[i] - 1 <= arrived
      BY <3>1
    <3> QED
      BY <3>1, <3>2
  <2> QED
    BY <1>1, <2>1, StartDoes DEF queue, flags, signal, host, mem, history
<1>2. ASSUME NEW i \in Ifs, Dequeue(i) PROVE Types'
  <2>1. packet' \in [Mbufs -> PacketType]
    <3>1. PICK m \in Mbufs : packet' =
             [packet EXCEPT ![m] = [completion |-> "xmit", saved |-> "none", tid |-> m]]
      BY <1>2, DequeueDoes
    <3> QED
      BY <3>1, PacketFacts
  <2>2. ifq' \in [Ifs -> Seq(Mbufs)] /\ drvq' \in [Ifs -> Seq(Mbufs)] /\ tx' \in [Ifs -> TxType]
    BY <1>2, DequeueDoes
  <2>3. UNCHANGED <<arrived, running, oactive, stops, starting, pending, word, called,
                    ring, freed, draining, taken, putBack, seen, skipped,
                    overwritten>>
    BY <1>2, DequeueDoes DEF queue, flags, signal, mem, host, history
  <2> QED
    BY <2>1, <2>2, <2>3
<1>3. ASSUME NEW i \in Ifs, LoopEnds(i) PROVE Types'
  BY <1>3, LoopEndsDoes DEF queue, flags, signal, host, mem, history
<1>4. ASSUME NEW i \in Ifs, Send(i) PROVE Types'
  <2>1. packet' \in [Mbufs -> PacketType]
    <3>1. PICK m \in Mbufs : packet' =
             [packet EXCEPT ![m] = [completion |-> "filter", saved |-> "xmit", tid |-> m]]
      BY <1>4, SendDoes
    <3> QED
      BY <3>1, PacketFacts
  <2>2. tx' \in [Ifs -> TxType] /\ ring' \in [Ifs -> Seq(Mbufs)]
    BY <1>4, SendDoes
  <2>3. UNCHANGED <<arrived, ifq, drvq, running, oactive, stops, starting, pending,
                    word, called, freed, draining, taken, putBack, seen, skipped,
                    overwritten>>
    BY <1>4, SendDoes DEF queue, flags, signal, mem, host, history
  <2> QED
    BY <2>1, <2>2, <2>3
<1>5. ASSUME NEW i \in Ifs, SendFails(i) PROVE Types'
  <2>1. packet' \in [Mbufs -> PacketType]
    <3>1. PICK m \in Mbufs : packet' =
             [packet EXCEPT ![m] = [completion |-> "xmit", saved |-> "xmit", tid |-> m]]
      BY <1>5, SendFailsDoes
    <3> QED
      BY <3>1, PacketFacts
  <2>2. tx' \in [Ifs -> TxType]
    BY <1>5, SendFailsDoes
  <2>3. UNCHANGED <<arrived, ifq, drvq, running, oactive, stops, starting, pending,
                    word, called, ring, freed, draining, taken, putBack,
                    seen, skipped, overwritten>>
    BY <1>5, SendFailsDoes DEF queue, flags, signal, mem, host, history
  <2> QED
    BY <2>1, <2>2, <2>3
<1>6. ASSUME NEW i \in Ifs, GiveUp(i) PROVE Types'
  <2>1. packet' \in [Mbufs -> PacketType]
    <3>1. PICK m \in Mbufs : packet' = [packet EXCEPT ![m] = NoPacket]
      BY <1>6, GiveUpDoes
    <3> QED
      BY <3>1, PacketFacts
  <2>2. ifq' \in [Ifs -> Seq(Mbufs)] /\ tx' \in [Ifs -> TxType]
       /\ oactive' \in [Ifs -> BOOLEAN] /\ putBack' \subseteq Mbufs
    <3>1. /\ tx[i].m \in Mbufs /\ putBack' = putBack \cup {tx[i].m}
          /\ oactive' = [oactive EXCEPT ![i] = TRUE]
      BY <1>6, GiveUpDoes
    <3>2. ifq' \in [Ifs -> Seq(Mbufs)] /\ tx' \in [Ifs -> TxType]
      BY <1>6, GiveUpDoes
    <3> QED
      BY <3>1, <3>2
  <2>3. UNCHANGED <<arrived, drvq, running, stops, starting, pending, word, called,
                    ring, freed, draining, taken, seen, skipped, overwritten>>
    BY <1>6, GiveUpDoes DEF queue, flags, signal, mem, host, history
  <2> QED
    BY <2>1, <2>2, <2>3
<1>7. ASSUME NEW i \in Ifs, NEW w \in Words, BitSetLoads(i, w) PROVE Types'
  BY <1>7, LoadsDoes DEF queue, flags, signal, host, mem, history
<1>8. ASSUME NEW i \in Ifs, NEW w \in Words, BitSetStores(i, w) PROVE Types'
  <2>1. /\ tx' \in [Ifs -> TxType] /\ word' \in [Ifs -> SUBSET Ifs]
        /\ pending' \in [Words -> SUBSET Ifs] /\ overwritten' \subseteq Ifs
        /\ UNCHANGED <<arrived, queue, flags, starting, ring, mem, host, putBack, seen, skipped>>
    <3> HIDE DEF IInv, Types
    <3>1. Types
      BY DEF IInv
    <3> QED
      BY <1>8, <3>1, StoresDoes
  <2>2. called' \in BOOLEAN
    <3>1. called' = (called \/ (w = "send" /\ i \notin Monitored))
      BY <1>8 DEF BitSetStores
    <3> QED
      BY <3>1
  <2> QED
    BY <2>1, <2>2 DEF queue, flags, host, mem
<1>9. ASSUME NEW w \in Words, HostLooks(w) PROVE Types'
  BY <1>9 DEF HostLooks, queue, flags, signal, host, mem, history
<1>10. ASSUME NEW i \in Ifs, HostReads(i) PROVE Types'
  <2>1. Sent(i) \subseteq Mbufs
    BY OnePlace DEF IInv
  <2> QED
    BY <1>10, <2>1, HostReadsDoes DEF queue, flags, signal, mem, history
<1>11. ASSUME NEW i \in Ifs, Output(i) PROVE Types'
  <2>1. /\ starting' \in [Ifs -> Nat] /\ \A k \in Ifs : starting'[k] <= arrived'
        /\ skipped' \subseteq Ifs
    <3>1. arrived' = arrived + 1 /\ arrived \in Nat /\ skipped \subseteq Ifs
          /\ starting \in [Ifs -> Nat] /\ \A k \in Ifs : starting[k] <= arrived
      BY <1>11, OutputDoes
    <3>2. \/ skipped' = skipped \cup {i} /\ UNCHANGED starting
          \/ starting' = [starting EXCEPT ![i] = @ + 1] /\ UNCHANGED skipped
      BY <1>11 DEF Output
    <3>3. CASE skipped' = skipped \cup {i} /\ UNCHANGED starting
      BY <3>1, <3>3
    <3>4. CASE starting' = [starting EXCEPT ![i] = @ + 1] /\ UNCHANGED skipped
      BY <3>1, <3>4
    <3> QED
      BY <3>2, <3>3, <3>4
  <2>2. arrived' \in 0 .. NMbufs /\ ifq' \in [Ifs -> Seq(Mbufs)]
    BY <1>11, OutputDoes
  <2>3. UNCHANGED <<drvq, running, oactive, stops, tx, pending, word, called, ring, packet, freed,
                    draining, taken, putBack, seen, overwritten>>
    BY <1>11, OutputDoes DEF flags, signal, mem, host
  <2> QED
    BY <2>1, <2>2, <2>3
<1>12. ASSUME NEW i \in Ifs, Stop(i) PROVE Types'
  BY <1>12 DEF Stop, queue, flags, signal, host, mem, history
<1>13. ASSUME NEW i \in Ifs, IfInit(i) PROVE Types'
  BY <1>13 DEF IfInit, queue, flags, signal, host, mem, history
<1>14. ASSUME NEW m \in Mbufs, OnSendCompletion(m) PROVE Types'
  <2>1. packet' \in [Mbufs -> PacketType]
    <3>1. m \in Mbufs /\ packet' = [packet EXCEPT ![m] = NoPacket]
      BY <1>14, CompletionDoes
    <3> QED
      BY <3>1, PacketFacts
  <2>2. taken' \subseteq Mbufs /\ freed' \in [Mbufs -> 0 .. 1]
    <3>1. taken' = taken \ {m} /\ freed' = [freed EXCEPT ![m] = 1] /\ 1 \in 0 .. 1
      BY <1>14, CompletionDoes
    <3> QED
      BY <3>1
  <2>3. UNCHANGED <<arrived, ifq, drvq, running, oactive, stops, starting, tx,
                    pending, word, called, ring, draining, putBack, seen, skipped,
                    overwritten>>
    BY <1>14, CompletionDoes DEF queue, flags, signal, mem, host, history
  <2> QED
    BY <2>1, <2>2, <2>3
<1>15. CASE UNCHANGED vars
  BY <1>15 DEF vars, queue, flags, signal, host, mem, history
<1>16. ASSUME NEW i \in Ifs, Tap(i) PROVE Types'
  <2>1. tx[i].m \in Mbufs
    BY <1>16, GivenIsSent DEF Tap
  <2>2. /\ tx' \in [Ifs -> TxType] /\ seen' = seen \cup {tx[i].m}
        /\ UNCHANGED <<arrived, queue, flags, starting, signal, ring, mem, host, putBack,
                       skipped, overwritten>>
    BY <1>16, TapDoes
  <2> QED
    BY <2>1, <2>2 DEF queue, flags, signal, host, mem
<1> QED
  BY <1>1, <1>2, <1>3, <1>4, <1>5, <1>6, <1>7, <1>8,
     <1>9, <1>10, <1>11, <1>12, <1>13, <1>14, <1>15, <1>16
     DEF Next, StartLocked, Host

\* Each step keeps an mbuf from being twice in a queue or a ring.
LEMMA ApartKept == IInv /\ [Next]_vars => Apart'
<1> SUFFICES ASSUME IInv, [Next]_vars PROVE Apart'
  OBVIOUS
<1> USE DEF IInv, Apart
<1>1. ASSUME NEW i \in Ifs, Start(i) PROVE Apart'
  BY <1>1, StartDoes DEF queue, flags, signal, host, mem, history
<1>2. ASSUME NEW i \in Ifs, Dequeue(i) PROVE Apart'
  BY <1>2, DequeueDoes DEF queue, flags, signal, host, mem, history
<1>3. ASSUME NEW i \in Ifs, LoopEnds(i) PROVE Apart'
  BY <1>3, LoopEndsDoes DEF queue, flags, signal, host, mem, history
<1>4. ASSUME NEW i \in Ifs, Send(i) PROVE Apart'
  BY <1>4, SendDoes DEF queue, flags, signal, host, mem, history
<1>5. ASSUME NEW i \in Ifs, SendFails(i) PROVE Apart'
  BY <1>5, SendFailsDoes DEF queue, flags, signal, host, mem, history
<1>6. ASSUME NEW i \in Ifs, GiveUp(i) PROVE Apart'
  <2>1. /\ ToSet(ifq'[i]) = ToSet(ifq[i]) \cup {tx[i].m} /\ tx[i].m \notin ToSet(drvq[i])
        /\ Once(ifq'[i]) /\ drvq' = drvq /\ ring' = ring
        /\ \A k \in Ifs : k # i => ifq'[k] = ifq[k]
    BY <1>6, GiveUpDoes DEF Queued
  <2> QED
    BY <2>1
<1>7. ASSUME NEW i \in Ifs, NEW w \in Words, BitSetLoads(i, w) PROVE Apart'
  BY <1>7, LoadsDoes DEF queue, flags, signal, host, mem, history
<1>8. ASSUME NEW i \in Ifs, NEW w \in Words, BitSetStores(i, w) PROVE Apart'
  BY <1>8, StoresDoes DEF queue, flags, signal, host, mem, history
<1>9. ASSUME NEW w \in Words, HostLooks(w) PROVE Apart'
  BY <1>9 DEF HostLooks, queue, flags, signal, host, mem, history
<1>10. ASSUME NEW i \in Ifs, HostReads(i) PROVE Apart'
  BY <1>10, HostReadsDoes DEF queue, flags, signal, host, mem, history
<1>11. ASSUME NEW i \in Ifs, Output(i) PROVE Apart'
  <2>1. /\ ToSet(ifq'[i]) = ToSet(ifq[i]) \cup {arrived + 1} /\ arrived + 1 \notin ToSet(drvq[i])
        /\ Once(ifq'[i]) /\ drvq' = drvq /\ ring' = ring
        /\ \A k \in Ifs : k # i => ifq'[k] = ifq[k]
    BY <1>11, OutputDoes DEF Queued
  <2> QED
    BY <2>1
<1>12. ASSUME NEW i \in Ifs, Stop(i) PROVE Apart'
  BY <1>12 DEF Stop, queue, flags, signal, host, mem, history
<1>13. ASSUME NEW i \in Ifs, IfInit(i) PROVE Apart'
  BY <1>13 DEF IfInit, queue, flags, signal, host, mem, history
<1>14. ASSUME NEW m \in Mbufs, OnSendCompletion(m) PROVE Apart'
  BY <1>14, CompletionDoes DEF queue, flags, signal, host, mem, history
<1>15. CASE UNCHANGED vars
  BY <1>15 DEF vars, queue, flags, signal, host, mem, history
<1>16. ASSUME NEW i \in Ifs, Tap(i) PROVE Apart'
  BY <1>16, TapDoes DEF queue, flags, signal, host, mem
<1> QED
  BY <1>1, <1>2, <1>3, <1>4, <1>5, <1>6, <1>7, <1>8,
     <1>9, <1>10, <1>11, <1>12, <1>13, <1>14, <1>15, <1>16
     DEF Next, StartLocked, Host

\* Each step leaves an mbuf at one place.
LEMMA OwnedKept == IInv /\ [Next]_vars => Owned'
<1> SUFFICES ASSUME IInv, [Next]_vars PROVE Owned'
  OBVIOUS
<1>1. ASSUME NEW i \in Ifs, Start(i) PROVE Owned'
  <2>1. /\ \A k \in Ifs : Held(k)' = Held(k)
        /\ UNCHANGED <<arrived, ifq, drvq, ring, taken, freed>>
    BY <1>1, StartDoes DEF IInv, queue, host, mem
  <2> QED
    BY <2>1, Stays DEF IInv
<1>2. ASSUME NEW i \in Ifs, Dequeue(i) PROVE Owned'
  <2> DEFINE a == Place("queue", i)
             b == Place("held", i)
             S == {tx'[i].m}
  <2>1. a \in Places /\ b \in Places /\ a # b
    BY PlacesAre
  <2>2. arrived' = arrived /\ S \subseteq owned[a]
    BY <1>2, DequeueDoes, OwnedAt
  <2>3. owned'[a] = owned[a] \ S /\ owned'[b] = owned[b] \cup S
    <3>1. Queued(i)' = Queued(i) \ S /\ Held(i) = {} /\ Held(i)' = S
      BY <1>2, DequeueDoes
    <3> HIDE DEF S
    <3> QED
      BY <3>1, OwnedAt, OwnedAtNext
  <2>4. \A p \in Places \ {a, b} : owned'[p] = owned[p]
    <3>1. /\ \A k \in Ifs : k # i =>
               Queued(k)' = Queued(k) /\ Held(k)' = Held(k) /\ Sent(k)' = Sent(k)
          /\ Sent(i)' = Sent(i) /\ taken' = taken /\ freed' = freed
      BY <1>2, DequeueDoes DEF OthersKept, host, mem
    <3>2. Place("queue", i) \in {a, b} /\ Place("held", i) \in {a, b}
      OBVIOUS
    <3> HIDE DEF a, b
    <3> QED
      BY <3>1, <3>2, OthersStay
  <2> HIDE DEF a, b, S
  <2> QED
    BY <2>1, <2>2, <2>3, <2>4, Moves DEF IInv
<1>3. ASSUME NEW i \in Ifs, LoopEnds(i) PROVE Owned'
  <2>1. /\ \A k \in Ifs : Held(k)' = Held(k)
        /\ UNCHANGED <<arrived, ifq, drvq, ring, taken, freed>>
    BY <1>3, LoopEndsDoes DEF IInv, queue, host, mem
  <2> QED
    BY <2>1, Stays DEF IInv
<1>4. ASSUME NEW i \in Ifs, Send(i) PROVE Owned'
  <2> DEFINE a == Place("held", i)
             b == Place("ring", i)
             S == {tx[i].m}
  <2>1. a \in Places /\ b \in Places /\ a # b
    BY PlacesAre
  <2>2. arrived' = arrived /\ S \subseteq owned[a]
    BY <1>4, SendDoes, OwnedAt
  <2>3. owned'[a] = owned[a] \ S /\ owned'[b] = owned[b] \cup S
    <3>1. Held(i) = S /\ Held(i)' = {} /\ Sent(i)' = Sent(i) \cup S
      BY <1>4, SendDoes
    <3> HIDE DEF S
    <3> QED
      BY <3>1, OwnedAt, OwnedAtNext
  <2>4. \A p \in Places \ {a, b} : owned'[p] = owned[p]
    <3>1. /\ \A k \in Ifs : k # i =>
               Queued(k)' = Queued(k) /\ Held(k)' = Held(k) /\ Sent(k)' = Sent(k)
          /\ Queued(i)' = Queued(i) /\ taken' = taken /\ freed' = freed
      BY <1>4, SendDoes DEF OthersKept, host, mem
    <3>2. Place("held", i) \in {a, b} /\ Place("ring", i) \in {a, b}
      OBVIOUS
    <3> HIDE DEF a, b
    <3> QED
      BY <3>1, <3>2, OthersStay
  <2> HIDE DEF a, b, S
  <2> QED
    BY <2>1, <2>2, <2>3, <2>4, Moves DEF IInv
<1>5. ASSUME NEW i \in Ifs, SendFails(i) PROVE Owned'
  <2>1. /\ \A k \in Ifs : Held(k)' = Held(k)
        /\ UNCHANGED <<arrived, ifq, drvq, ring, taken, freed>>
    BY <1>5, SendFailsDoes DEF IInv, queue, host, mem
  <2> QED
    BY <2>1, Stays DEF IInv
<1>6. ASSUME NEW i \in Ifs, GiveUp(i) PROVE Owned'
  <2> DEFINE a == Place("held", i)
             b == Place("queue", i)
             S == {tx[i].m}
  <2>1. a \in Places /\ b \in Places /\ a # b
    BY PlacesAre
  <2>2. arrived' = arrived /\ S \subseteq owned[a]
    BY <1>6, GiveUpDoes, OwnedAt
  <2>3. owned'[a] = owned[a] \ S /\ owned'[b] = owned[b] \cup S
    <3>1. Held(i) = S /\ Held(i)' = {} /\ Queued(i)' = Queued(i) \cup S
      BY <1>6, GiveUpDoes
    <3> HIDE DEF S
    <3> QED
      BY <3>1, OwnedAt, OwnedAtNext
  <2>4. \A p \in Places \ {a, b} : owned'[p] = owned[p]
    <3>1. /\ \A k \in Ifs : k # i =>
               Queued(k)' = Queued(k) /\ Held(k)' = Held(k) /\ Sent(k)' = Sent(k)
          /\ Sent(i)' = Sent(i) /\ taken' = taken /\ freed' = freed
      BY <1>6, GiveUpDoes DEF OthersKept, host, mem
    <3>2. Place("held", i) \in {a, b} /\ Place("queue", i) \in {a, b}
      OBVIOUS
    <3> HIDE DEF a, b
    <3> QED
      BY <3>1, <3>2, OthersStay
  <2> HIDE DEF a, b, S
  <2> QED
    BY <2>1, <2>2, <2>3, <2>4, Moves DEF IInv
<1>7. ASSUME NEW i \in Ifs, NEW w \in Words, BitSetLoads(i, w) PROVE Owned'
  <2>1. /\ \A k \in Ifs : Held(k)' = Held(k)
        /\ UNCHANGED <<arrived, ifq, drvq, ring, taken, freed>>
    BY <1>7, LoadsDoes DEF IInv, queue, host, mem
  <2> QED
    BY <2>1, Stays DEF IInv
<1>8. ASSUME NEW i \in Ifs, NEW w \in Words, BitSetStores(i, w) PROVE Owned'
  <2>1. /\ \A k \in Ifs : Held(k)' = Held(k)
        /\ UNCHANGED <<arrived, ifq, drvq, ring, taken, freed>>
    BY <1>8, StoresDoes DEF IInv, queue, host, mem
  <2> QED
    BY <2>1, Stays DEF IInv
<1>9. ASSUME NEW w \in Words, HostLooks(w) PROVE Owned'
  <2>1. UNCHANGED <<arrived, ifq, drvq, ring, taken, freed, tx>>
    BY <1>9 DEF HostLooks, queue, host, mem
  <2>2. \A k \in Ifs : Held(k)' = Held(k)
    BY <2>1 DEF Held
  <2> QED
    BY <2>1, <2>2, Stays DEF IInv
<1>10. ASSUME NEW i \in Ifs, HostReads(i) PROVE Owned'
  <2> DEFINE a == Place("ring", i)
             b == Place("host", 0)
             S == Sent(i)
  <2>1. a \in Places /\ b \in Places /\ a # b
    BY PlacesAre
  <2>2. arrived' = arrived /\ S \subseteq owned[a]
    BY <1>10, HostReadsDoes, OwnedAt
  <2>3. owned'[a] = owned[a] \ S /\ owned'[b] = owned[b] \cup S
    <3>1. Sent(i) = S /\ Sent(i)' = {} /\ taken' = taken \cup S
      BY <1>10, HostReadsDoes
    <3> HIDE DEF S
    <3> QED
      BY <3>1, OwnedAt, OwnedAtNext
  <2>4. \A p \in Places \ {a, b} : owned'[p] = owned[p]
    <3>1. /\ \A k \in Ifs : k # i =>
               Queued(k)' = Queued(k) /\ Held(k)' = Held(k) /\ Sent(k)' = Sent(k)
          /\ Queued(i)' = Queued(i) /\ Held(i)' = Held(i) /\ freed' = freed
      BY <1>10, HostReadsDoes DEF OthersKept, host, mem
    <3>2. Place("ring", i) \in {a, b} /\ Place("host", 0) \in {a, b}
      OBVIOUS
    <3> HIDE DEF a, b
    <3> QED
      BY <3>1, <3>2, OthersStay
  <2> HIDE DEF a, b, S
  <2> QED
    BY <2>1, <2>2, <2>3, <2>4, Moves DEF IInv
<1>11. ASSUME NEW i \in Ifs, Output(i) PROVE Owned'
  <2> DEFINE m == arrived + 1
             a == Place("queue", i)
  <2>1. a \in Places /\ arrived' = m /\ 1 .. arrived' = (1 .. arrived) \cup {m}
    BY <1>11, OutputDoes, PlacesAre
  <2>2. owned'[a] = owned[a] \cup {m}
    BY <1>11, OutputDoes, OwnedAt, OwnedAtNext
  <2>3. \A p \in Places \ {a, a} : owned'[p] = owned[p]
    <3>1. /\ \A k \in Ifs : k # i =>
               Queued(k)' = Queued(k) /\ Held(k)' = Held(k) /\ Sent(k)' = Sent(k)
          /\ Held(i)' = Held(i) /\ Sent(i)' = Sent(i) /\ taken' = taken /\ freed' = freed
      BY <1>11, OutputDoes DEF OthersKept, host, mem
    <3>2. Place("queue", i) \in {a, a}
      OBVIOUS
    <3> HIDE DEF a
    <3> QED
      BY <3>1, <3>2, OthersStay
  <2>4. m \notin 1 .. arrived
    BY OnePlace DEF IInv
  <2>5. Splits(owned, 1 .. arrived)
    BY DEF IInv, Owned
  <2> HIDE DEF m, a
  <2>6. Splits(owned', 1 .. arrived')
    BY <2>1, <2>2, <2>3, <2>4, <2>5 DEF Splits
  <2> QED
    BY <2>6 DEF Owned
<1>12. ASSUME NEW i \in Ifs, Stop(i) PROVE Owned'
  <2>1. UNCHANGED <<arrived, ifq, drvq, ring, taken, freed, tx>>
    BY <1>12 DEF Stop, queue, host, mem
  <2>2. \A k \in Ifs : Held(k)' = Held(k)
    BY <2>1 DEF Held
  <2> QED
    BY <2>1, <2>2, Stays DEF IInv
<1>13. ASSUME NEW i \in Ifs, IfInit(i) PROVE Owned'
  <2>1. UNCHANGED <<arrived, ifq, drvq, ring, taken, freed, tx>>
    BY <1>13 DEF IfInit, queue, host, mem
  <2>2. \A k \in Ifs : Held(k)' = Held(k)
    BY <2>1 DEF Held
  <2> QED
    BY <2>1, <2>2, Stays DEF IInv
<1>14. ASSUME NEW m \in Mbufs, OnSendCompletion(m) PROVE Owned'
  <2> DEFINE a == Place("host", 0)
             b == Place("freed", 0)
             S == {m}
  <2>1. a \in Places /\ b \in Places /\ a # b /\ 1 \in Ifs
    BY PlacesAre, SizesAssumption DEF Ifs
  <2>2. freed' = [freed EXCEPT ![m] = 1] /\ m \in taken /\ taken' = taken \ {m}
    BY <1>14, CompletionDoes
  <2>3. {x \in Mbufs : freed'[x] = 1} = {x \in Mbufs : freed[x] = 1} \cup {m}
    BY <2>2 DEF IInv, Types
  <2>4. arrived' = arrived /\ S \subseteq owned[a]
    BY <1>14, <2>2, OwnedAt, CompletionDoes
  <2>5. owned'[a] = owned[a] \ S /\ owned'[b] = owned[b] \cup S
    BY <2>2, <2>3, OwnedAt, OwnedAtNext
  <2>6. \A p \in Places \ {a, b} : owned'[p] = owned[p]
    BY <1>14, <2>1, CompletionDoes, OthersStay
  <2> HIDE DEF a, b, S
  <2> QED
    BY <2>1, <2>4, <2>5, <2>6, Moves DEF IInv
<1>15. CASE UNCHANGED vars
  <2>1. UNCHANGED <<arrived, ifq, drvq, ring, taken, freed, tx>>
    BY <1>15 DEF vars, queue, host, mem
  <2>2. \A k \in Ifs : Held(k)' = Held(k)
    BY <2>1 DEF Held
  <2> QED
    BY <2>1, <2>2, Stays DEF IInv
<1>16. ASSUME NEW i \in Ifs, Tap(i) PROVE Owned'
  <2>1. /\ \A k \in Ifs : Held(k)' = Held(k)
        /\ UNCHANGED <<arrived, ifq, drvq, ring, taken, freed>>
    BY <1>16, TapDoes DEF IInv, queue, host, mem
  <2> QED
    BY <2>1, Stays DEF IInv
<1> QED
  BY <1>1, <1>2, <1>3, <1>4, <1>5, <1>6, <1>7, <1>8,
     <1>9, <1>10, <1>11, <1>12, <1>13, <1>14, <1>15, <1>16
     DEF Next, StartLocked, Host

\* Each step keeps the packet of what is held.
LEMMA HeldKept == IInv /\ [Next]_vars => HeldIsReady'
<1> SUFFICES ASSUME IInv, [Next]_vars PROVE HeldIsReady'
  OBVIOUS
<1>1. ASSUME NEW i \in Ifs, Start(i) PROVE HeldIsReady'
  <2>1. /\ \A k \in Ifs : Held(k)' = Held(k) /\ Sent(k)' = Sent(k)
        /\ packet' = packet /\ taken' = taken
    BY <1>1, StartDoes DEF IInv, Sent, host, mem
  <2> QED
    BY <2>1 DEF IInv, HeldIsReady, Ready
<1>2. ASSUME NEW i \in Ifs, Dequeue(i) PROVE HeldIsReady'
  <2>1. PICK m \in Mbufs :
          /\ m \in Queued(i)
          /\ packet' = [packet EXCEPT ![m] = [completion |-> "xmit", saved |-> "none", tid |-> m]]
          /\ \A k \in Ifs : k # i => Held(k)' = Held(k)
          /\ taken' = taken /\ Held(i)' = {m}
    BY <1>2, DequeueDoes DEF OthersKept, Sent, host
  <2>2. /\ packet'[m] = [completion |-> "xmit", saved |-> "none", tid |-> m]
        /\ \A x \in 1 .. arrived : x # m => (Ready(x) => Ready(x)') /\ (Whole(x) => Whole(x)')
    BY <2>1, OnlyOne
  <2>3. Ready(m)'
    BY <2>2 DEF Ready, Whole
  <2> QED
    BY <2>1, <2>2, <2>3, OnePlace DEF IInv, HeldIsReady
<1>3. ASSUME NEW i \in Ifs, LoopEnds(i) PROVE HeldIsReady'
  <2>1. /\ \A k \in Ifs : Held(k)' = Held(k) /\ Sent(k)' = Sent(k)
        /\ packet' = packet /\ taken' = taken
    BY <1>3, LoopEndsDoes DEF IInv, Sent, host, mem
  <2> QED
    BY <2>1 DEF IInv, HeldIsReady, Ready
<1>4. ASSUME NEW i \in Ifs, Send(i) PROVE HeldIsReady'
  <2>1. PICK m \in Mbufs :
          /\ m \in Held(i)
          /\ packet' = [packet EXCEPT ![m] = [completion |-> "filter", saved |-> "xmit", tid |-> m]]
          /\ \A k \in Ifs : k # i => Held(k)' = Held(k)
          /\ taken' = taken /\ Held(i)' = {}
    <3>1. /\ tx[i].m \in Mbufs /\ Held(i) = {tx[i].m}
          /\ packet' =
               [packet EXCEPT ![tx[i].m] = [completion |-> "filter", saved |-> "xmit", tid |-> tx[i].m]]
      BY <1>4, SendDoes
    <3>2. Held(i)' = {} /\ OthersKept(i) /\ taken' = taken
      BY <1>4, SendDoes DEF host
    <3> QED
      BY <3>1, <3>2 DEF OthersKept
  <2>2. /\ packet'[m] = [completion |-> "filter", saved |-> "xmit", tid |-> m]
        /\ \A x \in 1 .. arrived : x # m => (Ready(x) => Ready(x)') /\ (Whole(x) => Whole(x)')
    BY <2>1, OnlyOne
  <2> QED
    BY <2>1, <2>2, OnePlace DEF IInv, HeldIsReady
<1>5. ASSUME NEW i \in Ifs, SendFails(i) PROVE HeldIsReady'
  <2>1. PICK m \in Mbufs :
          /\ m \in Held(i)
          /\ packet' = [packet EXCEPT ![m] = [completion |-> "xmit", saved |-> "xmit", tid |-> m]]
          /\ \A k \in Ifs : k # i => Held(k)' = Held(k)
          /\ taken' = taken /\ Held(i)' = {m}
    BY <1>5, SendFailsDoes DEF OthersKept, Sent, host
  <2>2. /\ packet'[m] = [completion |-> "xmit", saved |-> "xmit", tid |-> m]
        /\ \A x \in 1 .. arrived : x # m => (Ready(x) => Ready(x)') /\ (Whole(x) => Whole(x)')
    BY <2>1, OnlyOne
  <2>3. Ready(m)'
    BY <2>2 DEF Ready, Whole
  <2> QED
    BY <2>1, <2>2, <2>3, OnePlace DEF IInv, HeldIsReady
<1>6. ASSUME NEW i \in Ifs, GiveUp(i) PROVE HeldIsReady'
  <2>1. PICK m \in Mbufs :
          /\ m \in Held(i) /\ packet' = [packet EXCEPT ![m] = NoPacket]
          /\ \A k \in Ifs : k # i => Held(k)' = Held(k)
          /\ taken' = taken /\ Held(i)' = {}
    <3>1. /\ tx[i].m \in Mbufs /\ Held(i) = {tx[i].m}
          /\ packet' = [packet EXCEPT ![tx[i].m] = NoPacket]
      BY <1>6, GiveUpDoes
    <3>2. Held(i)' = {} /\ OthersKept(i) /\ taken' = taken
      BY <1>6, GiveUpDoes DEF host
    <3> QED
      BY <3>1, <3>2 DEF OthersKept
  <2>2. /\ packet'[m] = NoPacket
        /\ \A x \in 1 .. arrived : x # m => (Ready(x) => Ready(x)') /\ (Whole(x) => Whole(x)')
    BY <2>1, OnlyOne
  <2> QED
    BY <2>1, <2>2, OnePlace DEF IInv, HeldIsReady
<1>7. ASSUME NEW i \in Ifs, NEW w \in Words, BitSetLoads(i, w) PROVE HeldIsReady'
  <2>1. /\ \A k \in Ifs : Held(k)' = Held(k) /\ Sent(k)' = Sent(k)
        /\ packet' = packet /\ taken' = taken
    BY <1>7, LoadsDoes DEF IInv, Sent, host, mem
  <2> QED
    BY <2>1 DEF IInv, HeldIsReady, Ready
<1>8. ASSUME NEW i \in Ifs, NEW w \in Words, BitSetStores(i, w) PROVE HeldIsReady'
  <2>1. /\ \A k \in Ifs : Held(k)' = Held(k) /\ Sent(k)' = Sent(k)
        /\ packet' = packet /\ taken' = taken
    BY <1>8, StoresDoes DEF IInv, Sent, host, mem
  <2> QED
    BY <2>1 DEF IInv, HeldIsReady, Ready
<1>9. ASSUME NEW w \in Words, HostLooks(w) PROVE HeldIsReady'
  <2>1. /\ \A k \in Ifs : Held(k)' = Held(k) /\ Sent(k)' = Sent(k)
        /\ packet' = packet /\ taken' = taken
    BY <1>9 DEF HostLooks, Held, Sent, host, mem, queue
  <2> QED
    BY <2>1 DEF IInv, HeldIsReady, Ready
<1>10. ASSUME NEW i \in Ifs, HostReads(i) PROVE HeldIsReady'
  <2>1. /\ \A k \in Ifs : Held(k)' = Held(k)
        /\ packet' = packet
    BY <1>10, HostReadsDoes DEF OthersKept, mem
  <2> QED
    BY <2>1 DEF IInv, HeldIsReady, Ready
<1>11. ASSUME NEW i \in Ifs, Output(i) PROVE HeldIsReady'
  <2>1. /\ \A k \in Ifs : Held(k)' = Held(k) /\ Sent(k)' = Sent(k)
        /\ packet' = packet /\ taken' = taken
    BY <1>11, OutputDoes DEF OthersKept, host, mem
  <2> QED
    BY <2>1 DEF IInv, HeldIsReady, Ready
<1>12. ASSUME NEW i \in Ifs, Stop(i) PROVE HeldIsReady'
  <2>1. /\ \A k \in Ifs : Held(k)' = Held(k) /\ Sent(k)' = Sent(k)
        /\ packet' = packet /\ taken' = taken
    BY <1>12 DEF Stop, Held, Sent, host, mem, queue
  <2> QED
    BY <2>1 DEF IInv, HeldIsReady, Ready
<1>13. ASSUME NEW i \in Ifs, IfInit(i) PROVE HeldIsReady'
  <2>1. /\ \A k \in Ifs : Held(k)' = Held(k) /\ Sent(k)' = Sent(k)
        /\ packet' = packet /\ taken' = taken
    BY <1>13 DEF IfInit, Held, Sent, host, mem, queue
  <2> QED
    BY <2>1 DEF IInv, HeldIsReady, Ready
<1>14. ASSUME NEW m \in Mbufs, OnSendCompletion(m) PROVE HeldIsReady'
  <2>1. 
          /\ m \in taken /\ packet' = [packet EXCEPT ![m] = NoPacket]
          /\ \A k \in Ifs : Held(k)' = Held(k)
          /\ taken' = taken \ {m}
    BY <1>14, CompletionDoes DEF OthersKept, Sent, host
  <2>2. /\ packet'[m] = NoPacket
        /\ \A x \in 1 .. arrived : x # m => (Ready(x) => Ready(x)') /\ (Whole(x) => Whole(x)')
    BY <2>1, OnlyOne
  <2> QED
    BY <2>1, <2>2, OnePlace DEF IInv, HeldIsReady
<1>15. CASE UNCHANGED vars
  <2>1. /\ \A k \in Ifs : Held(k)' = Held(k) /\ Sent(k)' = Sent(k)
        /\ packet' = packet /\ taken' = taken
    BY <1>15 DEF vars, Held, Sent, host, mem, queue
  <2> QED
    BY <2>1 DEF IInv, HeldIsReady, Ready
<1>16. ASSUME NEW i \in Ifs, Tap(i) PROVE HeldIsReady'
  <2>1. /\ \A k \in Ifs : Held(k)' = Held(k) /\ Sent(k)' = Sent(k)
        /\ packet' = packet /\ taken' = taken
    BY <1>16, TapDoes DEF IInv, Sent, host, mem
  <2> QED
    BY <2>1 DEF IInv, HeldIsReady, Ready
<1> QED
  BY <1>1, <1>2, <1>3, <1>4, <1>5, <1>6, <1>7, <1>8,
     <1>9, <1>10, <1>11, <1>12, <1>13, <1>14, <1>15, <1>16
     DEF Next, StartLocked, Host

\* Each step keeps the packets of what the host has or finds.
LEMMA SentKept == IInv /\ [Next]_vars => SentIsWhole'
<1> SUFFICES ASSUME IInv, [Next]_vars PROVE SentIsWhole'
  OBVIOUS
<1>1. ASSUME NEW i \in Ifs, Start(i) PROVE SentIsWhole'
  <2>1. /\ \A k \in Ifs : Held(k)' = Held(k) /\ Sent(k)' = Sent(k)
        /\ packet' = packet /\ taken' = taken
    BY <1>1, StartDoes DEF IInv, Sent, host, mem
  <2> QED
    BY <2>1 DEF IInv, SentIsWhole, Whole
<1>2. ASSUME NEW i \in Ifs, Dequeue(i) PROVE SentIsWhole'
  <2>1. PICK m \in Mbufs :
          /\ m \in Queued(i)
          /\ packet' = [packet EXCEPT ![m] = [completion |-> "xmit", saved |-> "none", tid |-> m]]
          /\ \A k \in Ifs : k # i => Sent(k)' = Sent(k)
          /\ taken' = taken /\ Sent(i)' = Sent(i)
    BY <1>2, DequeueDoes DEF OthersKept, Sent, host
  <2>2. /\ packet'[m] = [completion |-> "xmit", saved |-> "none", tid |-> m]
        /\ \A x \in 1 .. arrived : x # m => (Ready(x) => Ready(x)') /\ (Whole(x) => Whole(x)')
    BY <2>1, OnlyOne
  <2> QED
    BY <2>1, <2>2, OnePlace DEF IInv, SentIsWhole
<1>3. ASSUME NEW i \in Ifs, LoopEnds(i) PROVE SentIsWhole'
  <2>1. /\ \A k \in Ifs : Held(k)' = Held(k) /\ Sent(k)' = Sent(k)
        /\ packet' = packet /\ taken' = taken
    BY <1>3, LoopEndsDoes DEF IInv, Sent, host, mem
  <2> QED
    BY <2>1 DEF IInv, SentIsWhole, Whole
<1>4. ASSUME NEW i \in Ifs, Send(i) PROVE SentIsWhole'
  <2>1. PICK m \in Mbufs :
          /\ m \in Held(i)
          /\ packet' = [packet EXCEPT ![m] = [completion |-> "filter", saved |-> "xmit", tid |-> m]]
          /\ \A k \in Ifs : k # i => Sent(k)' = Sent(k)
          /\ taken' = taken /\ Sent(i)' = Sent(i) \cup {m}
    BY <1>4, SendDoes DEF OthersKept, Sent, host
  <2>2. /\ packet'[m] = [completion |-> "filter", saved |-> "xmit", tid |-> m]
        /\ \A x \in 1 .. arrived : x # m => (Ready(x) => Ready(x)') /\ (Whole(x) => Whole(x)')
    BY <2>1, OnlyOne
  <2>3. Whole(m)'
    BY <2>2 DEF Ready, Whole
  <2> QED
    BY <2>1, <2>2, <2>3, OnePlace DEF IInv, SentIsWhole
<1>5. ASSUME NEW i \in Ifs, SendFails(i) PROVE SentIsWhole'
  <2>1. PICK m \in Mbufs :
          /\ m \in Held(i)
          /\ packet' = [packet EXCEPT ![m] = [completion |-> "xmit", saved |-> "xmit", tid |-> m]]
          /\ \A k \in Ifs : k # i => Sent(k)' = Sent(k)
          /\ taken' = taken /\ Sent(i)' = Sent(i)
    BY <1>5, SendFailsDoes DEF OthersKept, Sent, host
  <2>2. /\ packet'[m] = [completion |-> "xmit", saved |-> "xmit", tid |-> m]
        /\ \A x \in 1 .. arrived : x # m => (Ready(x) => Ready(x)') /\ (Whole(x) => Whole(x)')
    BY <2>1, OnlyOne
  <2> QED
    BY <2>1, <2>2, OnePlace DEF IInv, SentIsWhole
<1>6. ASSUME NEW i \in Ifs, GiveUp(i) PROVE SentIsWhole'
  <2>1. PICK m \in Mbufs :
          /\ m \in Held(i) /\ packet' = [packet EXCEPT ![m] = NoPacket]
          /\ \A k \in Ifs : k # i => Sent(k)' = Sent(k)
          /\ taken' = taken /\ Sent(i)' = Sent(i)
    BY <1>6, GiveUpDoes DEF OthersKept, Sent, host
  <2>2. /\ packet'[m] = NoPacket
        /\ \A x \in 1 .. arrived : x # m => (Ready(x) => Ready(x)') /\ (Whole(x) => Whole(x)')
    BY <2>1, OnlyOne
  <2> QED
    BY <2>1, <2>2, OnePlace DEF IInv, SentIsWhole
<1>7. ASSUME NEW i \in Ifs, NEW w \in Words, BitSetLoads(i, w) PROVE SentIsWhole'
  <2>1. /\ \A k \in Ifs : Held(k)' = Held(k) /\ Sent(k)' = Sent(k)
        /\ packet' = packet /\ taken' = taken
    BY <1>7, LoadsDoes DEF IInv, Sent, host, mem
  <2> QED
    BY <2>1 DEF IInv, SentIsWhole, Whole
<1>8. ASSUME NEW i \in Ifs, NEW w \in Words, BitSetStores(i, w) PROVE SentIsWhole'
  <2>1. /\ \A k \in Ifs : Held(k)' = Held(k) /\ Sent(k)' = Sent(k)
        /\ packet' = packet /\ taken' = taken
    BY <1>8, StoresDoes DEF IInv, Sent, host, mem
  <2> QED
    BY <2>1 DEF IInv, SentIsWhole, Whole
<1>9. ASSUME NEW w \in Words, HostLooks(w) PROVE SentIsWhole'
  <2>1. /\ \A k \in Ifs : Held(k)' = Held(k) /\ Sent(k)' = Sent(k)
        /\ packet' = packet /\ taken' = taken
    BY <1>9 DEF HostLooks, Held, Sent, host, mem, queue
  <2> QED
    BY <2>1 DEF IInv, SentIsWhole, Whole
<1>10. ASSUME NEW i \in Ifs, HostReads(i) PROVE SentIsWhole'
  <2>1. /\ \A k \in Ifs : k # i => Sent(k)' = Sent(k)
        /\ Sent(i)' = {} /\ taken' = taken \cup Sent(i) /\ packet' = packet
    BY <1>10, HostReadsDoes DEF OthersKept, mem
  <2> QED
    BY <2>1 DEF IInv, SentIsWhole, Whole
<1>11. ASSUME NEW i \in Ifs, Output(i) PROVE SentIsWhole'
  <2>1. /\ \A k \in Ifs : Held(k)' = Held(k) /\ Sent(k)' = Sent(k)
        /\ packet' = packet /\ taken' = taken
    BY <1>11, OutputDoes DEF OthersKept, host, mem
  <2> QED
    BY <2>1 DEF IInv, SentIsWhole, Whole
<1>12. ASSUME NEW i \in Ifs, Stop(i) PROVE SentIsWhole'
  <2>1. /\ \A k \in Ifs : Held(k)' = Held(k) /\ Sent(k)' = Sent(k)
        /\ packet' = packet /\ taken' = taken
    BY <1>12 DEF Stop, Held, Sent, host, mem, queue
  <2> QED
    BY <2>1 DEF IInv, SentIsWhole, Whole
<1>13. ASSUME NEW i \in Ifs, IfInit(i) PROVE SentIsWhole'
  <2>1. /\ \A k \in Ifs : Held(k)' = Held(k) /\ Sent(k)' = Sent(k)
        /\ packet' = packet /\ taken' = taken
    BY <1>13 DEF IfInit, Held, Sent, host, mem, queue
  <2> QED
    BY <2>1 DEF IInv, SentIsWhole, Whole
<1>14. ASSUME NEW m \in Mbufs, OnSendCompletion(m) PROVE SentIsWhole'
  <2>1. 
          /\ m \in taken /\ packet' = [packet EXCEPT ![m] = NoPacket]
          /\ \A k \in Ifs : Sent(k)' = Sent(k)
          /\ taken' = taken \ {m}
    BY <1>14, CompletionDoes DEF OthersKept, Sent, host
  <2>2. /\ packet'[m] = NoPacket
        /\ \A x \in 1 .. arrived : x # m => (Ready(x) => Ready(x)') /\ (Whole(x) => Whole(x)')
    BY <2>1, OnlyOne
  <2> QED
    BY <2>1, <2>2, OnePlace DEF IInv, SentIsWhole
<1>15. CASE UNCHANGED vars
  <2>1. /\ \A k \in Ifs : Held(k)' = Held(k) /\ Sent(k)' = Sent(k)
        /\ packet' = packet /\ taken' = taken
    BY <1>15 DEF vars, Held, Sent, host, mem, queue
  <2> QED
    BY <2>1 DEF IInv, SentIsWhole, Whole
<1>16. ASSUME NEW i \in Ifs, Tap(i) PROVE SentIsWhole'
  <2>1. /\ \A k \in Ifs : Held(k)' = Held(k) /\ Sent(k)' = Sent(k)
        /\ packet' = packet /\ taken' = taken
    BY <1>16, TapDoes DEF IInv, Sent, host, mem
  <2> QED
    BY <2>1 DEF IInv, SentIsWhole, Whole
<1> QED
  BY <1>1, <1>2, <1>3, <1>4, <1>5, <1>6, <1>7, <1>8,
     <1>9, <1>10, <1>11, <1>12, <1>13, <1>14, <1>15, <1>16
     DEF Next, StartLocked, Host

\* Each step keeps those without a monitor from the triggers.
LEMMA MonitoredKept == IInv /\ [Next]_vars => OnlyMonitored'
<1> SUFFICES ASSUME IInv, [Next]_vars PROVE OnlyMonitored'
  OBVIOUS
<1>1. ASSUME NEW i \in Ifs, Start(i) PROVE OnlyMonitored'
  <2>1. /\ tx'[i].at \notin {"load trigger", "store trigger"}
        /\ \A k \in Ifs : k # i => tx'[k] = tx[k]
    BY <1>1, StartDoes DEF IInv
  <2> QED
    BY <2>1 DEF IInv, OnlyMonitored
<1>2. ASSUME NEW i \in Ifs, Dequeue(i) PROVE OnlyMonitored'
  <2>1. /\ tx'[i].at \notin {"load trigger", "store trigger"}
        /\ \A k \in Ifs : k # i => tx'[k] = tx[k]
    BY <1>2, DequeueDoes DEF IInv
  <2> QED
    BY <2>1 DEF IInv, OnlyMonitored
<1>3. ASSUME NEW i \in Ifs, LoopEnds(i) PROVE OnlyMonitored'
  <2>1. /\ tx'[i].at \notin {"load trigger", "store trigger"}
        /\ \A k \in Ifs : k # i => tx'[k] = tx[k]
    BY <1>3, LoopEndsDoes DEF IInv
  <2> QED
    BY <2>1 DEF IInv, OnlyMonitored
<1>4. ASSUME NEW i \in Ifs, Send(i) PROVE OnlyMonitored'
  <2>1. /\ tx'[i].at \notin {"load trigger", "store trigger"}
        /\ \A k \in Ifs : k # i => tx'[k] = tx[k]
    BY <1>4, SendDoes DEF AfterSend
  <2> QED
    BY <2>1 DEF IInv, OnlyMonitored
<1>5. ASSUME NEW i \in Ifs, SendFails(i) PROVE OnlyMonitored'
  <2>1. /\ tx'[i].at \notin {"load trigger", "store trigger"}
        /\ \A k \in Ifs : k # i => tx'[k] = tx[k]
    BY <1>5, SendFailsDoes DEF IInv
  <2> QED
    BY <2>1 DEF IInv, OnlyMonitored
<1>6. ASSUME NEW i \in Ifs, GiveUp(i) PROVE OnlyMonitored'
  <2>1. /\ tx'[i].at \notin {"load trigger", "store trigger"}
        /\ \A k \in Ifs : k # i => tx'[k] = tx[k]
    BY <1>6, GiveUpDoes DEF IInv
  <2> QED
    BY <2>1 DEF IInv, OnlyMonitored
<1>7. ASSUME NEW i \in Ifs, NEW w \in Words, BitSetLoads(i, w) PROVE OnlyMonitored'
  <2>1. \A k \in Ifs : k # i => tx'[k] = tx[k]
    BY <1>7, LoadsDoes DEF IInv
  <2>2. tx'[i].at \in {"load trigger", "store trigger"} => i \in Monitored
    BY <1>7, LoadsDoes DEF IInv, OnlyMonitored, Words
  <2> QED
    BY <2>1, <2>2 DEF IInv, OnlyMonitored
<1>8. ASSUME NEW i \in Ifs, NEW w \in Words, BitSetStores(i, w) PROVE OnlyMonitored'
  <2>1. \A k \in Ifs : k # i => tx'[k] = tx[k]
    BY <1>8, StoresDoes DEF IInv
  <2>2. tx'[i].at \in {"load trigger", "store trigger"} => i \in Monitored
    BY <1>8, StoresDoes DEF IInv, OnlyMonitored, Words
  <2> QED
    BY <2>1, <2>2 DEF IInv, OnlyMonitored
<1>9. ASSUME NEW w \in Words, HostLooks(w) PROVE OnlyMonitored'
  <2>1. tx' = tx
    BY <1>9 DEF HostLooks
  <2> QED
    BY <2>1 DEF IInv, OnlyMonitored
<1>10. ASSUME NEW i \in Ifs, HostReads(i) PROVE OnlyMonitored'
  <2>1. tx' = tx
    BY <1>10, HostReadsDoes
  <2> QED
    BY <2>1 DEF IInv, OnlyMonitored
<1>11. ASSUME NEW i \in Ifs, Output(i) PROVE OnlyMonitored'
  <2>1. tx' = tx
    BY <1>11, OutputDoes
  <2> QED
    BY <2>1 DEF IInv, OnlyMonitored
<1>12. ASSUME NEW i \in Ifs, Stop(i) PROVE OnlyMonitored'
  <2>1. tx' = tx
    BY <1>12 DEF Stop
  <2> QED
    BY <2>1 DEF IInv, OnlyMonitored
<1>13. ASSUME NEW i \in Ifs, IfInit(i) PROVE OnlyMonitored'
  <2>1. tx' = tx
    BY <1>13 DEF IfInit
  <2> QED
    BY <2>1 DEF IInv, OnlyMonitored
<1>14. ASSUME NEW m \in Mbufs, OnSendCompletion(m) PROVE OnlyMonitored'
  <2>1. tx' = tx
    BY <1>14, CompletionDoes
  <2> QED
    BY <2>1 DEF IInv, OnlyMonitored
<1>15. CASE UNCHANGED vars
  <2>1. tx' = tx
    BY <1>15 DEF vars
  <2> QED
    BY <2>1 DEF IInv, OnlyMonitored
<1>16. ASSUME NEW i \in Ifs, Tap(i) PROVE OnlyMonitored'
  <2>1. /\ tx'[i].at \notin {"load trigger", "store trigger"}
        /\ \A k \in Ifs : k # i => tx'[k] = tx[k]
    BY <1>16, TapDoes DEF IInv
  <2> QED
    BY <2>1 DEF IInv, OnlyMonitored
<1> QED
  BY <1>1, <1>2, <1>3, <1>4, <1>5, <1>6, <1>7, <1>8,
     <1>9, <1>10, <1>11, <1>12, <1>13, <1>14, <1>15, <1>16
     DEF Next, StartLocked, Host

\* Each step keeps the order of the queue.
LEMMA OrderKept == IInv /\ [Next]_vars => PutBackGoesFirst'
<1> SUFFICES ASSUME IInv, [Next]_vars PROVE PutBackGoesFirst'
  OBVIOUS
<1>1. ASSUME NEW i \in Ifs, Start(i) PROVE PutBackGoesFirst'
  <2>1. ifq' = ifq /\ putBack' = putBack
    BY <1>1, StartDoes DEF IInv, queue, history
  <2> QED
    BY <2>1 DEF IInv, PutBackGoesFirst
<1>2. ASSUME NEW i \in Ifs, Dequeue(i) PROVE PutBackGoesFirst'
  <2>1. PICK n \in Nat : \A j \in DOMAIN ifq'[i] :
          n + j \in DOMAIN ifq[i] /\ ifq'[i][j] = ifq[i][n + j]
    BY <1>2, DequeueDoes
  <2>2. /\ ifq'[i] \in Seq(Mbufs) /\ putBack' = putBack
        /\ \A k \in Ifs : k # i => ifq'[k] = ifq[k]
    BY <1>2, DequeueDoes DEF history
  <2>3. DOMAIN ifq'[i] \subseteq Nat
    BY <2>2, LenProperties
  <2>4. ASSUME NEW j \in DOMAIN ifq'[i], NEW k \in DOMAIN ifq'[i], j < k, ifq'[i][j] > ifq'[i][k]
        PROVE  ifq'[i][j] \in putBack
    <3>1. n + j < n + k
      BY <2>3, <2>4
    <3> QED
      BY <2>1, <2>4, <3>1 DEF IInv, PutBackGoesFirst
  <2>5. ASSUME NEW h \in Ifs, h # i, NEW j \in DOMAIN ifq[h], NEW k \in DOMAIN ifq[h],
               j < k, ifq[h][j] > ifq[h][k]
        PROVE  ifq[h][j] \in putBack
    BY <2>5 DEF IInv, PutBackGoesFirst
  <2> QED
    BY <2>2, <2>4, <2>5 DEF PutBackGoesFirst
<1>3. ASSUME NEW i \in Ifs, LoopEnds(i) PROVE PutBackGoesFirst'
  <2>1. ifq' = ifq /\ putBack' = putBack
    BY <1>3, LoopEndsDoes DEF IInv, queue, history
  <2> QED
    BY <2>1 DEF IInv, PutBackGoesFirst
<1>4. ASSUME NEW i \in Ifs, Send(i) PROVE PutBackGoesFirst'
  <2>1. ifq' = ifq /\ putBack' = putBack
    BY <1>4, SendDoes DEF IInv, queue, history
  <2> QED
    BY <2>1 DEF IInv, PutBackGoesFirst
<1>5. ASSUME NEW i \in Ifs, SendFails(i) PROVE PutBackGoesFirst'
  <2>1. ifq' = ifq /\ putBack' = putBack
    BY <1>5, SendFailsDoes DEF IInv, queue, history
  <2> QED
    BY <2>1 DEF IInv, PutBackGoesFirst
<1>6. ASSUME NEW i \in Ifs, GiveUp(i) PROVE PutBackGoesFirst'
  <2> DEFINE m == tx[i].m
             l == Len(ifq[i])
  <2>1. /\ l \in Nat /\ DOMAIN ifq[i] = 1 .. l /\ DOMAIN ifq'[i] = 1 .. l + 1 /\ ifq'[i][1] = m
        /\ \A j \in 2 .. l + 1 : ifq'[i][j] = ifq[i][j - 1]
    BY <1>6, GiveUpDoes
  <2>2. putBack' = putBack \cup {m} /\ \A k \in Ifs : k # i => ifq'[k] = ifq[k]
    BY <1>6, GiveUpDoes
  <2> HIDE DEF m, l
  <2>3. ASSUME NEW j \in 1 .. l + 1, NEW k \in 1 .. l + 1, j < k, ifq'[i][j] > ifq'[i][k]
        PROVE  ifq'[i][j] \in putBack'
    <3>1. CASE j = 1
      BY <2>1, <2>2, <3>1
    <3>2. CASE j # 1
      <4>1. /\ j \in 2 .. l + 1 /\ k \in 2 .. l + 1 /\ j - 1 < k - 1
            /\ j - 1 \in 1 .. l /\ k - 1 \in 1 .. l
        BY <2>1, <2>3, <3>2
      <4>2. ifq[i][j - 1] > ifq[i][k - 1]
        BY <2>1, <2>3, <4>1
      <4>3. ifq[i][j - 1] \in putBack
        BY <2>1, <4>1, <4>2 DEF IInv, PutBackGoesFirst
      <4> QED
        BY <2>1, <2>2, <4>1, <4>3
    <3> QED
      BY <3>1, <3>2
  <2>4. ASSUME NEW h \in Ifs, h # i, NEW j \in DOMAIN ifq[h], NEW k \in DOMAIN ifq[h],
               j < k, ifq[h][j] > ifq[h][k]
        PROVE  ifq[h][j] \in putBack
    BY <2>4 DEF IInv, PutBackGoesFirst
  <2> QED
    BY <2>1, <2>2, <2>3, <2>4 DEF PutBackGoesFirst
<1>7. ASSUME NEW i \in Ifs, NEW w \in Words, BitSetLoads(i, w) PROVE PutBackGoesFirst'
  <2>1. ifq' = ifq /\ putBack' = putBack
    BY <1>7, LoadsDoes DEF IInv, queue, history
  <2> QED
    BY <2>1 DEF IInv, PutBackGoesFirst
<1>8. ASSUME NEW i \in Ifs, NEW w \in Words, BitSetStores(i, w) PROVE PutBackGoesFirst'
  <2>1. ifq' = ifq /\ putBack' = putBack
    BY <1>8, StoresDoes DEF IInv, queue, history
  <2> QED
    BY <2>1 DEF IInv, PutBackGoesFirst
<1>9. ASSUME NEW w \in Words, HostLooks(w) PROVE PutBackGoesFirst'
  <2>1. ifq' = ifq /\ putBack' = putBack
    BY <1>9 DEF HostLooks, IInv, queue, history
  <2> QED
    BY <2>1 DEF IInv, PutBackGoesFirst
<1>10. ASSUME NEW i \in Ifs, HostReads(i) PROVE PutBackGoesFirst'
  <2>1. ifq' = ifq /\ putBack' = putBack
    BY <1>10, HostReadsDoes DEF IInv, queue, history
  <2> QED
    BY <2>1 DEF IInv, PutBackGoesFirst
<1>11. ASSUME NEW i \in Ifs, Output(i) PROVE PutBackGoesFirst'
  <2> DEFINE m == arrived + 1
             l == Len(ifq[i])
  <2>1. /\ l \in Nat /\ DOMAIN ifq[i] = 1 .. l /\ DOMAIN ifq'[i] = 1 .. l + 1
        /\ ifq'[i][l + 1] = m /\ \A j \in 1 .. l : ifq'[i][j] = ifq[i][j]
    BY <1>11, OutputDoes
  <2>2. putBack' = putBack /\ \A k \in Ifs : k # i => ifq'[k] = ifq[k]
    BY <1>11, OutputDoes
  <2>3. \A j \in 1 .. l : ifq[i][j] \in Nat /\ ifq[i][j] < m /\ m \in Nat
    <3>1. \A j \in 1 .. l : ifq[i][j] \in Queued(i)
      BY <2>1 DEF Queued, ToSet
    <3>2. arrived \in Nat /\ Queued(i) \subseteq 1 .. arrived
      BY OnePlace DEF IInv
    <3> QED
      BY <3>1, <3>2
  <2> HIDE DEF m, l
  <2>4. ASSUME NEW j \in 1 .. l + 1, NEW k \in 1 .. l + 1, j < k, ifq'[i][j] > ifq'[i][k]
        PROVE  ifq'[i][j] \in putBack
    <3>1. j \in 1 .. l
      BY <2>1, <2>4
    <3>2. k # l + 1
      <4> SUFFICES ASSUME k = l + 1 PROVE FALSE
        OBVIOUS
      <4>1. ifq'[i][k] = m /\ ifq'[i][j] < m /\ ifq'[i][j] \in Nat /\ m \in Nat
        BY <2>1, <2>3, <3>1
      <4> QED
        BY <2>4, <4>1
    <3>3. k \in 1 .. l
      BY <2>1, <3>2
    <3> QED
      BY <2>1, <2>4, <3>1, <3>3 DEF IInv, PutBackGoesFirst
  <2>5. ASSUME NEW h \in Ifs, h # i, NEW j \in DOMAIN ifq[h], NEW k \in DOMAIN ifq[h],
               j < k, ifq[h][j] > ifq[h][k]
        PROVE  ifq[h][j] \in putBack
    BY <2>5 DEF IInv, PutBackGoesFirst
  <2> QED
    BY <2>1, <2>2, <2>4, <2>5 DEF PutBackGoesFirst
<1>12. ASSUME NEW i \in Ifs, Stop(i) PROVE PutBackGoesFirst'
  <2>1. ifq' = ifq /\ putBack' = putBack
    BY <1>12 DEF Stop, IInv, queue, history
  <2> QED
    BY <2>1 DEF IInv, PutBackGoesFirst
<1>13. ASSUME NEW i \in Ifs, IfInit(i) PROVE PutBackGoesFirst'
  <2>1. ifq' = ifq /\ putBack' = putBack
    BY <1>13 DEF IfInit, IInv, queue, history
  <2> QED
    BY <2>1 DEF IInv, PutBackGoesFirst
<1>14. ASSUME NEW m \in Mbufs, OnSendCompletion(m) PROVE PutBackGoesFirst'
  <2>1. ifq' = ifq /\ putBack' = putBack
    BY <1>14, CompletionDoes DEF IInv, queue, history
  <2> QED
    BY <2>1 DEF IInv, PutBackGoesFirst
<1>15. CASE UNCHANGED vars
  <2>1. ifq' = ifq /\ putBack' = putBack
    BY <1>15 DEF vars, IInv, queue, history
  <2> QED
    BY <2>1 DEF IInv, PutBackGoesFirst
<1>16. ASSUME NEW i \in Ifs, Tap(i) PROVE PutBackGoesFirst'
  <2>1. ifq' = ifq /\ putBack' = putBack
    BY <1>16, TapDoes DEF IInv, queue
  <2> QED
    BY <2>1 DEF IInv, PutBackGoesFirst
<1> QED
  BY <1>1, <1>2, <1>3, <1>4, <1>5, <1>6, <1>7, <1>8,
     <1>9, <1>10, <1>11, <1>12, <1>13, <1>14, <1>15, <1>16
     DEF Next, StartLocked, Host

\* A step of interface i that sends nothing and shows nothing.
LEMMA NothingSeen ==
  ASSUME IInv, Gone' = Gone, seen' = seen, \A k \in Ifs : Given(k)' = Given(k)
  PROVE  SeenOnce'
BY DEF IInv, SeenOnce

\* What was sent, after a step that leaves rings, host and memory as they are.
LEMMA GoneStays ==
  ASSUME UNCHANGED <<ring, taken, freed>>
  PROVE  Gone' = Gone
BY DEF Gone, Sent

\* Each step shows BPF what was sent, or leaves it to be shown.
LEMMA SeenKept == IInv /\ [Next]_vars => SeenOnce'
<1> SUFFICES ASSUME IInv, [Next]_vars PROVE SeenOnce'
  OBVIOUS
<1>1. ASSUME NEW i \in Ifs, Start(i) PROVE SeenOnce'
  <2>1. /\ UNCHANGED <<ring, taken, freed, seen>> /\ tx[i].at = "idle" /\ tx'[i].at = "loop"
        /\ \A k \in Ifs : k # i => tx'[k] = tx[k]
    BY <1>1, StartDoes DEF IInv, host, mem, history, At
  <2>2. \A k \in Ifs : Given(k)' = Given(k)
    BY <2>1 DEF Given, Signalling, At
  <2> QED
    BY <2>1, <2>2, GoneStays, NothingSeen
<1>2. ASSUME NEW i \in Ifs, Dequeue(i) PROVE SeenOnce'
  <2>1. /\ UNCHANGED <<ring, taken, freed, seen>> /\ tx[i].at = "loop" /\ tx'[i].at = "send"
        /\ \A k \in Ifs : k # i => tx'[k] = tx[k]
    BY <1>2, DequeueDoes DEF IInv, host, history, At
  <2>2. \A k \in Ifs : Given(k)' = Given(k)
    BY <2>1 DEF Given, Signalling, At
  <2> QED
    BY <2>1, <2>2, GoneStays, NothingSeen
<1>3. ASSUME NEW i \in Ifs, LoopEnds(i) PROVE SeenOnce'
  <2>1. /\ UNCHANGED <<ring, taken, freed, seen>> /\ tx[i].at = "loop" /\ tx'[i].at = "idle"
        /\ \A k \in Ifs : k # i => tx'[k] = tx[k]
    BY <1>3, LoopEndsDoes DEF IInv, host, mem, history, At
  <2>2. \A k \in Ifs : Given(k)' = Given(k)
    BY <2>1 DEF Given, Signalling, At
  <2> QED
    BY <2>1, <2>2, GoneStays, NothingSeen
<1>4. ASSUME NEW i \in Ifs, Send(i) PROVE SeenOnce'
  <2> DEFINE m == tx[i].m
  <2>1. /\ m \in Mbufs /\ Held(i) = {m} /\ Sent(i)' = Sent(i) \cup {m}
        /\ tx[i].at = "send" /\ tx'[i].at \in {"tap", "load send"} /\ tx'[i].m = m
        /\ \A k \in Ifs : k # i => tx'[k] = tx[k] /\ Sent(k)' = Sent(k)
        /\ taken' = taken /\ freed' = freed /\ seen' = seen
    BY <1>4, SendDoes DEF AfterSend, OthersKept, host, history, Send, At
  <2> HIDE DEF m
  <2>2. Given(i) = {} /\ Given(i)' = {m} /\ \A k \in Ifs : k # i => Given(k)' = Given(k)
    BY <2>1 DEF Given, Signalling, At
  <2>3. m \notin Gone
    <3>1. m \in Held(i)
      BY <2>1
    <3>2. m \notin taken /\ freed[m] = 0 /\ \A k \in Ifs : m \notin Sent(k)
      BY <3>1, OnePlace DEF IInv
    <3> QED
      BY <3>2 DEF Gone
  <2>4. Gone' = Gone \cup {m}
    BY <2>1 DEF Gone
  <2>5. /\ seen \subseteq Gone /\ \A k \in Ifs : Given(k) \subseteq Gone \ seen
        /\ \A x \in Gone \ seen : \E k \in Ifs : x \in Given(k)
        /\ \A j, k \in Ifs : j # k => Given(j) \cap Given(k) = {}
    BY DEF IInv, SeenOnce
  <2>6. seen' \subseteq Gone' /\ \A k \in Ifs : Given(k)' \subseteq Gone' \ seen'
    <3>1. m \notin seen /\ seen' = seen
      BY <2>1, <2>3, <2>5
    <3>2. ASSUME NEW k \in Ifs PROVE Given(k)' \subseteq (Gone \cup {m}) \ seen
      <4>1. CASE k = i
        BY <2>2, <3>1, <4>1
      <4>2. CASE k # i
        BY <2>2, <2>5, <4>2
      <4> QED
        BY <4>1, <4>2
    <3> QED
      BY <2>4, <2>5, <3>1, <3>2
  <2>7. \A x \in Gone' \ seen' : \E k \in Ifs : x \in Given(k)'
    <3> SUFFICES ASSUME NEW x \in Gone \cup {m}, x \notin seen
                 PROVE  \E k \in Ifs : x \in Given(k)'
      BY <2>1, <2>4
    <3>1. CASE x = m
      BY <2>2, <3>1
    <3>2. CASE x # m
      <4>1. PICK k \in Ifs : x \in Given(k)
        BY <2>5, <3>2
      <4> QED
        BY <2>2, <4>1
    <3> QED
      BY <3>1, <3>2
  <2>8. \A j, k \in Ifs : j # k => Given(j)' \cap Given(k)' = {}
    BY <2>2, <2>3, <2>5
  <2> QED
    BY <2>6, <2>7, <2>8 DEF SeenOnce
<1>5. ASSUME NEW i \in Ifs, SendFails(i) PROVE SeenOnce'
  <2>1. /\ UNCHANGED <<ring, taken, freed, seen>> /\ tx[i].at = "send"
        /\ tx'[i].at \in {"send", "give up"}
        /\ \A k \in Ifs : k # i => tx'[k] = tx[k]
    BY <1>5, SendFailsDoes DEF IInv, host, history, At
  <2>2. \A k \in Ifs : Given(k)' = Given(k)
    BY <2>1 DEF Given, Signalling, At
  <2> QED
    BY <2>1, <2>2, GoneStays, NothingSeen
<1>6. ASSUME NEW i \in Ifs, GiveUp(i) PROVE SeenOnce'
  <2>1. /\ UNCHANGED <<ring, taken, freed, seen>> /\ tx[i].at = "give up" /\ tx'[i].at = "loop"
        /\ \A k \in Ifs : k # i => tx'[k] = tx[k]
    BY <1>6, GiveUpDoes DEF GiveUp, host, At
  <2>2. \A k \in Ifs : Given(k)' = Given(k)
    BY <2>1 DEF Given, Signalling, At
  <2> QED
    BY <2>1, <2>2, GoneStays, NothingSeen
<1>7. ASSUME NEW i \in Ifs, NEW w \in Words, BitSetLoads(i, w) PROVE SeenOnce'
  <2>1. /\ UNCHANGED <<ring, taken, freed, seen>> /\ tx'[i].m = tx[i].m
        /\ \A k \in Ifs : k # i => tx'[k] = tx[k]
    BY <1>7, LoadsDoes DEF IInv, host, mem, history
  <2>2. Signalling(i) /\ Signalling(i)'
    BY <1>7, LoadsDoes DEF IInv, Signalling
  <2>3. \A k \in Ifs : Given(k)' = Given(k)
    BY <2>1, <2>2 DEF Given, Signalling, At
  <2> QED
    BY <2>1, <2>3, GoneStays, NothingSeen
<1>8. ASSUME NEW i \in Ifs, NEW w \in Words, BitSetStores(i, w) PROVE SeenOnce'
  <2>1. /\ UNCHANGED <<ring, taken, freed, seen>> /\ tx'[i].m = tx[i].m
        /\ \A k \in Ifs : k # i => tx'[k] = tx[k]
    BY <1>8, StoresDoes DEF IInv, host, mem
  <2>2. Signalling(i) /\ tx'[i].at \in {"load trigger", "tap"}
    BY <1>8, StoresDoes DEF IInv, Signalling
  <2>3. \A k \in Ifs : Given(k)' = Given(k)
    BY <2>1, <2>2 DEF Given, Signalling, At
  <2> QED
    BY <2>1, <2>3, GoneStays, NothingSeen
<1>9. ASSUME NEW w \in Words, HostLooks(w) PROVE SeenOnce'
  <2>1. UNCHANGED <<ring, taken, freed, seen, tx>>
    BY <1>9 DEF HostLooks, mem, history
  <2>2. \A k \in Ifs : Given(k)' = Given(k)
    BY <2>1 DEF Given, Signalling, At
  <2> QED
    BY <2>1, <2>2, GoneStays, NothingSeen
<1>10. ASSUME NEW i \in Ifs, HostReads(i) PROVE SeenOnce'
  <2>1. /\ Sent(i)' = {} /\ taken' = taken \cup Sent(i) /\ OthersKept(i)
        /\ UNCHANGED <<freed, seen, tx>>
    BY <1>10, HostReadsDoes DEF mem, history
  <2>2. \A k \in Ifs : Given(k)' = Given(k)
    BY <2>1 DEF Given, Signalling, At
  <2>3. Gone' = Gone
    BY <2>1 DEF Gone, OthersKept
  <2> QED
    BY <2>1, <2>2, <2>3, NothingSeen
<1>11. ASSUME NEW i \in Ifs, Output(i) PROVE SeenOnce'
  <2>1. UNCHANGED <<ring, taken, freed, seen, tx>>
    BY <1>11, OutputDoes DEF mem, host
  <2>2. \A k \in Ifs : Given(k)' = Given(k)
    BY <2>1 DEF Given, Signalling, At
  <2> QED
    BY <2>1, <2>2, GoneStays, NothingSeen
<1>12. ASSUME NEW i \in Ifs, Stop(i) PROVE SeenOnce'
  <2>1. UNCHANGED <<ring, taken, freed, seen, tx>>
    BY <1>12 DEF Stop, mem, host, history
  <2>2. \A k \in Ifs : Given(k)' = Given(k)
    BY <2>1 DEF Given, Signalling, At
  <2> QED
    BY <2>1, <2>2, GoneStays, NothingSeen
<1>13. ASSUME NEW i \in Ifs, IfInit(i) PROVE SeenOnce'
  <2>1. UNCHANGED <<ring, taken, freed, seen, tx>>
    BY <1>13 DEF IfInit, mem, host, history
  <2>2. \A k \in Ifs : Given(k)' = Given(k)
    BY <2>1 DEF Given, Signalling, At
  <2> QED
    BY <2>1, <2>2, GoneStays, NothingSeen
<1>14. ASSUME NEW m \in Mbufs, OnSendCompletion(m) PROVE SeenOnce'
  <2>1. /\ m \in taken /\ taken' = taken \ {m} /\ freed' = [freed EXCEPT ![m] = 1]
        /\ UNCHANGED <<ring, seen, tx>>
    BY <1>14, CompletionDoes DEF history
  <2>2. \A k \in Ifs : Given(k)' = Given(k)
    BY <2>1 DEF Given, Signalling, At
  <2>3. {x \in Mbufs : freed'[x] = 1} = {x \in Mbufs : freed[x] = 1} \cup {m}
    BY <2>1 DEF IInv, Types
  <2>4. Gone' = Gone
    BY <2>1, <2>3 DEF Gone, Sent
  <2> QED
    BY <2>1, <2>2, <2>4, NothingSeen
<1>15. CASE UNCHANGED vars
  <2>1. UNCHANGED <<ring, taken, freed, seen, tx>>
    BY <1>15 DEF vars, mem, host, history
  <2>2. \A k \in Ifs : Given(k)' = Given(k)
    BY <2>1 DEF Given, Signalling, At
  <2> QED
    BY <2>1, <2>2, GoneStays, NothingSeen
<1>16. ASSUME NEW i \in Ifs, Tap(i) PROVE SeenOnce'
  <2>1. /\ UNCHANGED <<ring, taken, freed>> /\ tx[i].at = "tap" /\ tx'[i].at = "loop"
        /\ \A k \in Ifs : k # i => tx'[k] = tx[k]
        /\ seen' = seen \cup {tx[i].m}
    BY <1>16, TapDoes DEF IInv, host, mem, At
  <2>2. /\ Given(i) = {tx[i].m} /\ Given(i)' = {}
        /\ \A k \in Ifs : k # i => Given(k)' = Given(k)
    BY <2>1 DEF Given, Signalling, At
  <2>3. Gone' = Gone
    BY <2>1, GoneStays
  <2> QED
    BY <2>1, <2>2, <2>3 DEF IInv, SeenOnce
<1> QED
  BY <1>1, <1>2, <1>3, <1>4, <1>5, <1>6, <1>7, <1>8,
     <1>9, <1>10, <1>11, <1>12, <1>13, <1>14, <1>15, <1>16
     DEF Next, StartLocked, Host

\* Each step leaves a queue with a thread, or with OACTIVE found set.
LEMMA WaitsKept == IInv /\ [Next]_vars => WaitsOnlyForOactive'
<1> SUFFICES ASSUME IInv, [Next]_vars PROVE WaitsOnlyForOactive'
  OBVIOUS
<1>1. ASSUME NEW i \in Ifs, Start(i) PROVE WaitsOnlyForOactive'
  <2>1. /\ \A k \in Ifs : k # i => tx'[k] = tx[k] /\ ifq'[k] = ifq[k] /\ drvq'[k] = drvq[k]
        /\ \A k \in Ifs : k # i => starting'[k] = starting[k]
        /\ skipped' = skipped
    BY <1>1, StartDoes DEF IInv, Types, queue, history
  <2>2. tx'[i].at # "idle"
    BY <1>1, StartDoes DEF IInv
  <2> QED
    BY <2>1, <2>2 DEF IInv, WaitsOnlyForOactive, Empty, At
<1>2. ASSUME NEW i \in Ifs, Dequeue(i) PROVE WaitsOnlyForOactive'
  <2>1. /\ \A k \in Ifs : k # i => tx'[k] = tx[k] /\ ifq'[k] = ifq[k] /\ drvq'[k] = drvq[k]
        /\ starting' = starting /\ skipped' = skipped
    BY <1>2, DequeueDoes DEF IInv, queue, history
  <2>2. tx'[i].at # "idle"
    BY <1>2, DequeueDoes DEF IInv
  <2> QED
    BY <2>1, <2>2 DEF IInv, WaitsOnlyForOactive, Empty, At
<1>3. ASSUME NEW i \in Ifs, LoopEnds(i) PROVE WaitsOnlyForOactive'
  <2>1. /\ \A k \in Ifs : k # i => tx'[k] = tx[k] /\ ifq'[k] = ifq[k] /\ drvq'[k] = drvq[k]
        /\ starting' = starting /\ skipped' = skipped
    BY <1>3, LoopEndsDoes DEF IInv, queue, history
  <2>2. ifq'[i] = <<>> /\ drvq'[i] = <<>>
    BY <1>3, LoopEndsDoes DEF IInv, Empty, queue
  <2> QED
    BY <2>1, <2>2 DEF IInv, WaitsOnlyForOactive, Empty, At
<1>4. ASSUME NEW i \in Ifs, Send(i) PROVE WaitsOnlyForOactive'
  <2>1. /\ \A k \in Ifs : k # i => tx'[k] = tx[k] /\ ifq'[k] = ifq[k] /\ drvq'[k] = drvq[k]
        /\ starting' = starting /\ skipped' = skipped
    BY <1>4, SendDoes DEF IInv, queue, history
  <2>2. tx'[i].at # "idle"
    BY <1>4, SendDoes DEF AfterSend
  <2> QED
    BY <2>1, <2>2 DEF IInv, WaitsOnlyForOactive, Empty, At
<1>5. ASSUME NEW i \in Ifs, SendFails(i) PROVE WaitsOnlyForOactive'
  <2>1. /\ \A k \in Ifs : k # i => tx'[k] = tx[k] /\ ifq'[k] = ifq[k] /\ drvq'[k] = drvq[k]
        /\ starting' = starting /\ skipped' = skipped
    BY <1>5, SendFailsDoes DEF IInv, queue, history
  <2>2. tx'[i].at # "idle"
    BY <1>5, SendFailsDoes DEF IInv
  <2> QED
    BY <2>1, <2>2 DEF IInv, WaitsOnlyForOactive, Empty, At
<1>6. ASSUME NEW i \in Ifs, GiveUp(i) PROVE WaitsOnlyForOactive'
  <2>1. /\ \A k \in Ifs : k # i => tx'[k] = tx[k] /\ ifq'[k] = ifq[k] /\ drvq'[k] = drvq[k]
        /\ starting' = starting /\ skipped' = skipped
    BY <1>6, GiveUpDoes DEF IInv, queue, history
  <2>2. tx'[i].at # "idle"
    BY <1>6, GiveUpDoes DEF IInv
  <2> QED
    BY <2>1, <2>2 DEF IInv, WaitsOnlyForOactive, Empty, At
<1>7. ASSUME NEW i \in Ifs, NEW w \in Words, BitSetLoads(i, w) PROVE WaitsOnlyForOactive'
  <2>1. /\ \A k \in Ifs : k # i => tx'[k] = tx[k] /\ ifq'[k] = ifq[k] /\ drvq'[k] = drvq[k]
        /\ starting' = starting /\ skipped' = skipped
    BY <1>7, LoadsDoes DEF IInv, queue, history
  <2>2. tx'[i].at # "idle"
    BY <1>7, LoadsDoes DEF IInv
  <2> QED
    BY <2>1, <2>2 DEF IInv, WaitsOnlyForOactive, Empty, At
<1>8. ASSUME NEW i \in Ifs, NEW w \in Words, BitSetStores(i, w) PROVE WaitsOnlyForOactive'
  <2>1. /\ \A k \in Ifs : k # i => tx'[k] = tx[k] /\ ifq'[k] = ifq[k] /\ drvq'[k] = drvq[k]
        /\ starting' = starting /\ skipped' = skipped
    BY <1>8, StoresDoes DEF IInv, queue, history
  <2>2. tx'[i].at # "idle"
    BY <1>8, StoresDoes DEF IInv
  <2> QED
    BY <2>1, <2>2 DEF IInv, WaitsOnlyForOactive, Empty, At
<1>9. ASSUME NEW w \in Words, HostLooks(w) PROVE WaitsOnlyForOactive'
  <2>1. UNCHANGED <<ifq, drvq, tx, starting, skipped>>
    BY <1>9 DEF HostLooks, queue, history
  <2> QED
    BY <2>1 DEF IInv, WaitsOnlyForOactive, Empty, At
<1>10. ASSUME NEW i \in Ifs, HostReads(i) PROVE WaitsOnlyForOactive'
  <2>1. UNCHANGED <<ifq, drvq, tx, starting, skipped>>
    BY <1>10, HostReadsDoes DEF queue, history
  <2> QED
    BY <2>1 DEF IInv, WaitsOnlyForOactive, Empty, At
<1>11. ASSUME NEW i \in Ifs, Output(i) PROVE WaitsOnlyForOactive'
  <2>1. /\ \A k \in Ifs : k # i => ifq'[k] = ifq[k]
        /\ drvq' = drvq /\ tx' = tx
    BY <1>11, OutputDoes
  <2>2. \/ skipped' = skipped \cup {i} /\ UNCHANGED starting
        \/ starting' = [starting EXCEPT ![i] = @ + 1] /\ UNCHANGED skipped
    BY <1>11 DEF Output
  <2>3. starting \in [Ifs -> Nat]
    BY DEF IInv, Types
  <2>4. /\ \A k \in Ifs : k # i => starting'[k] = starting[k]
        /\ skipped \subseteq skipped' /\ (starting'[i] > 0 \/ i \in skipped')
    <3>1. CASE skipped' = skipped \cup {i} /\ UNCHANGED starting
      BY <3>1
    <3>2. CASE starting' = [starting EXCEPT ![i] = @ + 1] /\ UNCHANGED skipped
      BY <2>3, <3>2
    <3> QED
      BY <2>2, <3>1, <3>2
  <2> QED
    BY <2>1, <2>4 DEF IInv, WaitsOnlyForOactive, Empty, At
<1>12. ASSUME NEW i \in Ifs, Stop(i) PROVE WaitsOnlyForOactive'
  <2>1. UNCHANGED <<ifq, drvq, tx, starting, skipped>>
    BY <1>12 DEF Stop, queue, history
  <2> QED
    BY <2>1 DEF IInv, WaitsOnlyForOactive, Empty, At
<1>13. ASSUME NEW i \in Ifs, IfInit(i) PROVE WaitsOnlyForOactive'
  <2>1. UNCHANGED <<ifq, drvq, tx, starting, skipped>>
    BY <1>13 DEF IfInit, queue, history
  <2> QED
    BY <2>1 DEF IInv, WaitsOnlyForOactive, Empty, At
<1>14. ASSUME NEW m \in Mbufs, OnSendCompletion(m) PROVE WaitsOnlyForOactive'
  <2>1. UNCHANGED <<ifq, drvq, tx, starting, skipped>>
    BY <1>14, CompletionDoes DEF queue, history
  <2> QED
    BY <2>1 DEF IInv, WaitsOnlyForOactive, Empty, At
<1>15. CASE UNCHANGED vars
  <2>1. UNCHANGED <<ifq, drvq, tx, starting, skipped>>
    BY <1>15 DEF vars, queue, history
  <2> QED
    BY <2>1 DEF IInv, WaitsOnlyForOactive, Empty, At
<1>16. ASSUME NEW i \in Ifs, Tap(i) PROVE WaitsOnlyForOactive'
  <2>1. /\ \A k \in Ifs : k # i => tx'[k] = tx[k] /\ ifq'[k] = ifq[k] /\ drvq'[k] = drvq[k]
        /\ starting' = starting /\ skipped' = skipped
    BY <1>16, TapDoes DEF IInv, queue
  <2>2. tx'[i].at # "idle"
    BY <1>16, TapDoes DEF IInv
  <2> QED
    BY <2>1, <2>2 DEF IInv, WaitsOnlyForOactive, Empty, At
<1> QED
  BY <1>1, <1>2, <1>3, <1>4, <1>5, <1>6, <1>7, <1>8,
     <1>9, <1>10, <1>11, <1>12, <1>13, <1>14, <1>15, <1>16
     DEF Next, StartLocked, Host

\* Each step leaves a ring with somebody who tells the host.
LEMMA SignalledKept == IInv /\ [Next]_vars => SentIsSignalled'
<1> SUFFICES ASSUME IInv, [Next]_vars PROVE SentIsSignalled'
  OBVIOUS
<1>1. ASSUME NEW i \in Ifs, Start(i) PROVE SentIsSignalled'
  <2>1. UNCHANGED <<ring, draining, pending, called, overwritten>>
    BY <1>1, StartDoes DEF IInv, signal, host, history, At
  <2>2. \A k \in Ifs : Signalling(k) => Signalling(k)'
    <3>1. /\ tx[i].at \in {"idle", "loop", "send", "give up"}
          /\ \A k \in Ifs : k # i => tx'[k] = tx[k]
      BY <1>1, StartDoes DEF IInv, At
    <3> QED
      BY <3>1 DEF Signalling
  <2> QED
    BY <2>1, <2>2 DEF IInv, SentIsSignalled
<1>2. ASSUME NEW i \in Ifs, Dequeue(i) PROVE SentIsSignalled'
  <2>1. UNCHANGED <<ring, draining, pending, called, overwritten>>
    BY <1>2, DequeueDoes DEF IInv, signal, host, history, At
  <2>2. \A k \in Ifs : Signalling(k) => Signalling(k)'
    <3>1. /\ tx[i].at \in {"idle", "loop", "send", "give up"}
          /\ \A k \in Ifs : k # i => tx'[k] = tx[k]
      BY <1>2, DequeueDoes DEF IInv, At
    <3> QED
      BY <3>1 DEF Signalling
  <2> QED
    BY <2>1, <2>2 DEF IInv, SentIsSignalled
<1>3. ASSUME NEW i \in Ifs, LoopEnds(i) PROVE SentIsSignalled'
  <2>1. UNCHANGED <<ring, draining, pending, called, overwritten>>
    BY <1>3, LoopEndsDoes DEF IInv, signal, host, history, At
  <2>2. \A k \in Ifs : Signalling(k) => Signalling(k)'
    <3>1. /\ tx[i].at \in {"idle", "loop", "send", "give up"}
          /\ \A k \in Ifs : k # i => tx'[k] = tx[k]
      BY <1>3, LoopEndsDoes DEF IInv, At
    <3> QED
      BY <3>1 DEF Signalling
  <2> QED
    BY <2>1, <2>2 DEF IInv, SentIsSignalled
<1>4. ASSUME NEW i \in Ifs, Send(i) PROVE SentIsSignalled'
  <2>1. UNCHANGED <<draining, pending, called, overwritten>>
    BY <1>4, SendDoes DEF signal, host, history
  <2>2. /\ i \in draining \/ Signalling(i)'
        /\ \A k \in Ifs : k # i => ring'[k] = ring[k] /\ tx'[k] = tx[k]
    BY <1>4, SendDoes DEF AfterSend, Signalling
  <2> QED
    BY <2>1, <2>2 DEF IInv, SentIsSignalled, Signalling
<1>5. ASSUME NEW i \in Ifs, SendFails(i) PROVE SentIsSignalled'
  <2>1. UNCHANGED <<ring, draining, pending, called, overwritten>>
    BY <1>5, SendFailsDoes DEF IInv, signal, host, history, At
  <2>2. \A k \in Ifs : Signalling(k) => Signalling(k)'
    <3>1. /\ tx[i].at \in {"idle", "loop", "send", "give up"}
          /\ \A k \in Ifs : k # i => tx'[k] = tx[k]
      BY <1>5, SendFailsDoes DEF IInv, At
    <3> QED
      BY <3>1 DEF Signalling
  <2> QED
    BY <2>1, <2>2 DEF IInv, SentIsSignalled
<1>6. ASSUME NEW i \in Ifs, GiveUp(i) PROVE SentIsSignalled'
  <2>1. UNCHANGED <<ring, draining, pending, called, overwritten>>
    BY <1>6, GiveUpDoes DEF IInv, signal, host, Held, At
  <2>2. \A k \in Ifs : Signalling(k) => Signalling(k)'
    <3>1. /\ tx[i].at \in {"idle", "loop", "send", "give up"}
          /\ \A k \in Ifs : k # i => tx'[k] = tx[k]
      BY <1>6, GiveUpDoes DEF GiveUp, At
    <3> QED
      BY <3>1 DEF Signalling
  <2> QED
    BY <2>1, <2>2 DEF IInv, SentIsSignalled
<1>7. ASSUME NEW i \in Ifs, NEW w \in Words, BitSetLoads(i, w) PROVE SentIsSignalled'
  <2>1. UNCHANGED <<ring, draining, pending, called, overwritten>>
    BY <1>7, LoadsDoes DEF IInv, host, history
  <2>2. Signalling(i)' /\ \A k \in Ifs : k # i => tx'[k] = tx[k]
    BY <1>7, LoadsDoes DEF IInv, Signalling
  <2> QED
    BY <2>1, <2>2 DEF IInv, SentIsSignalled, Signalling
<1>8. ASSUME NEW i \in Ifs, NEW w \in Words, BitSetStores(i, w) PROVE SentIsSignalled'
  <2>1. /\ ring' = ring /\ draining' = draining /\ overwritten \subseteq overwritten'
        /\ called => called'
        /\ \A k \in Ifs : k # i => tx'[k] = tx[k]
        /\ \A k \in pending[w] : k \in pending'[w] \/ k \in overwritten'
        /\ \A v \in Words : v # w => pending'[v] = pending[v]
    BY <1>8, StoresDoes DEF IInv, host
  <2>2. Signalling(i)' \/ (IF i \in Monitored THEN i \in pending'["trigger"]
                           ELSE i \in pending'["send"] /\ called')
    <3>1. CASE w = "send"
      BY <1>8, <3>1, StoresDoes DEF IInv, Signalling
    <3>2. CASE w = "trigger"
      BY <1>8, <3>2, StoresDoes DEF IInv, OnlyMonitored
    <3> QED
      BY <3>1, <3>2 DEF Words
  <2>3. \A k \in Ifs : \A v \in Words : k \in pending[v] => k \in pending'[v] \/ k \in overwritten'
    BY <2>1
  <2>4. "send" \in Words /\ "trigger" \in Words
    BY DEF Words
  <2> QED
    BY <2>1, <2>2, <2>3, <2>4 DEF IInv, SentIsSignalled, Signalling
<1>9. ASSUME NEW w \in Words, HostLooks(w) PROVE SentIsSignalled'
  <2>1. /\ called' = (called /\ w # "send") /\ draining' = draining \cup pending[w]
        /\ pending' = [pending EXCEPT ![w] = {}]
        /\ UNCHANGED <<ring, tx, overwritten>>
    BY <1>9 DEF HostLooks, history
  <2>2. pending \in [Words -> SUBSET Ifs] /\ "send" \in Words /\ "trigger" \in Words
    BY DEF IInv, Types, Words
  <2>3. CASE w = "send"
    BY <2>1, <2>2, <2>3 DEF IInv, SentIsSignalled, Signalling
  <2>4. CASE w = "trigger"
    BY <2>1, <2>2, <2>4 DEF IInv, SentIsSignalled, Signalling
  <2> QED
    BY <2>3, <2>4 DEF Words
<1>10. ASSUME NEW i \in Ifs, HostReads(i) PROVE SentIsSignalled'
  <2>1. /\ ring'[i] = <<>> /\ \A k \in Ifs : k # i => ring'[k] = ring[k]
        /\ draining' = draining \ {i}
        /\ UNCHANGED <<pending, called, tx, overwritten>>
    BY <1>10, HostReadsDoes DEF signal, history
  <2> QED
    BY <2>1 DEF IInv, SentIsSignalled, Signalling
<1>11. ASSUME NEW i \in Ifs, Output(i) PROVE SentIsSignalled'
  <2>1. UNCHANGED <<ring, draining, pending, called, overwritten, tx>>
    BY <1>11, OutputDoes DEF signal, host
  <2>2. \A k \in Ifs : Signalling(k) => Signalling(k)'
    BY <2>1 DEF Signalling
  <2> QED
    BY <2>1, <2>2 DEF IInv, SentIsSignalled
<1>12. ASSUME NEW i \in Ifs, Stop(i) PROVE SentIsSignalled'
  <2>1. UNCHANGED <<ring, draining, pending, called, overwritten, tx>>
    BY <1>12 DEF Stop, IInv, signal, host, history, At
  <2>2. \A k \in Ifs : Signalling(k) => Signalling(k)'
    BY <2>1 DEF Signalling
  <2> QED
    BY <2>1, <2>2 DEF IInv, SentIsSignalled
<1>13. ASSUME NEW i \in Ifs, IfInit(i) PROVE SentIsSignalled'
  <2>1. UNCHANGED <<ring, draining, pending, called, overwritten, tx>>
    BY <1>13 DEF IfInit, IInv, signal, host, history, At
  <2>2. \A k \in Ifs : Signalling(k) => Signalling(k)'
    BY <2>1 DEF Signalling
  <2> QED
    BY <2>1, <2>2 DEF IInv, SentIsSignalled
<1>14. ASSUME NEW m \in Mbufs, OnSendCompletion(m) PROVE SentIsSignalled'
  <2>1. UNCHANGED <<ring, draining, pending, called, overwritten, tx>>
    BY <1>14, CompletionDoes DEF signal, history
  <2>2. \A k \in Ifs : Signalling(k) => Signalling(k)'
    BY <2>1 DEF Signalling
  <2> QED
    BY <2>1, <2>2 DEF IInv, SentIsSignalled
<1>15. CASE UNCHANGED vars
  <2>1. UNCHANGED <<ring, draining, pending, called, overwritten, tx>>
    BY <1>15 DEF vars, IInv, signal, host, history, At
  <2>2. \A k \in Ifs : Signalling(k) => Signalling(k)'
    BY <2>1 DEF Signalling
  <2> QED
    BY <2>1, <2>2 DEF IInv, SentIsSignalled
<1>16. ASSUME NEW i \in Ifs, Tap(i) PROVE SentIsSignalled'
  <2>1. UNCHANGED <<ring, draining, pending, called, overwritten>>
    BY <1>16, TapDoes DEF IInv, signal, host
  <2>2. \A k \in Ifs : Signalling(k) => Signalling(k)'
    <3>1. tx[i].at = "tap" /\ \A k \in Ifs : k # i => tx'[k] = tx[k]
      BY <1>16, TapDoes DEF IInv, At
    <3> QED
      BY <3>1 DEF Signalling
  <2> QED
    BY <2>1, <2>2 DEF IInv, SentIsSignalled
<1> QED
  BY <1>1, <1>2, <1>3, <1>4, <1>5, <1>6, <1>7, <1>8,
     <1>9, <1>10, <1>11, <1>12, <1>13, <1>14, <1>15, <1>16
     DEF Next, StartLocked, Host

-----------------------------------------------------------------------------
\* What the run checks of the types.
LEMMA TypesAreOK == IInv => TypeOK
<1> SUFFICES ASSUME IInv PROVE TypeOK
  OBVIOUS
<1>1. \A i \in Ifs : /\ ifq[i] \in BoundedSeq(Mbufs, NMbufs) /\ drvq[i] \in BoundedSeq(Mbufs, NMbufs)
                     /\ ring[i] \in BoundedSeq(Mbufs, NMbufs)
  BY OnceIsShort DEF IInv, Types, Apart
<1>2. {ifq, drvq, ring} \subseteq [Ifs -> BoundedSeq(Mbufs, NMbufs)]
  BY <1>1 DEF IInv, Types
<1>3. starting \in [Ifs -> 0 .. NMbufs]
  <2>1. \A i \in Ifs : starting[i] \in 0 .. NMbufs
    BY Sizes DEF IInv, Types
  <2> QED
    BY <2>1 DEF IInv, Types
<1>4. \A i \in Ifs : tx[i].m \in 0 .. NMbufs /\ tx[i].retries \in 0 .. Tries
  BY TxFacts DEF IInv
<1>5. packet \in [Mbufs -> [completion : {"none", "xmit", "filter"},
                            saved : {"none", "xmit", "filter"}, tid : 0 .. NMbufs]]
  BY DEF IInv, Types, PacketType, Completions
<1> QED
  BY <1>2, <1>3, <1>4, <1>5 DEF IInv, Types, TypeOK

\* The place an mbuf is at is the only one of those OwnedOnce counts, or none of
\* them when the host has the mbuf or it is freed.
LEMMA OwnedIsOnce == IInv => OwnedOnce
<1> SUFFICES ASSUME IInv, NEW m \in 1 .. arrived
             PROVE  LET places == [q : {"queue", "held", "ring"}, i : Ifs]
                        Is(p) == m \in CASE p.q = "queue" -> Queued(p.i)
                                         [] p.q = "held" -> Held(p.i)
                                         [] OTHER -> Sent(p.i)
                    IN Cardinality({p \in places : Is(p)}) + Cardinality({m} \cap taken)
                         + freed[m] = 1
  BY DEF OwnedOnce
<1> DEFINE places == [q : {"queue", "held", "ring"}, i : Ifs]
           Is(p) == m \in CASE p.q = "queue" -> Queued(p.i)
                            [] p.q = "held" -> Held(p.i) [] OTHER -> Sent(p.i)
           here == {p \in places : Is(p)}
<1>1. PICK p \in Places : \A r \in Places : m \in owned[r] <=> r = p
  BY DEF IInv, Owned, Splits
<1>2. m \in Mbufs /\ freed[m] \in 0 .. 1
  BY OnePlace DEF IInv, Types
<1>3. places \subseteq Places /\ \A r \in places : Is(r) <=> m \in owned[r]
  BY DEF Places, owned
<1>4. /\ m \in taken <=> p = Place("host", 0)
      /\ freed[m] = 1 <=> p = Place("freed", 0)
  <2>1. m \in taken <=> p = Place("host", 0)
    BY <1>1, OwnedAt, PlacesAre
  <2>2. m \in {x \in Mbufs : freed[x] = 1} <=> p = Place("freed", 0)
    BY <1>1, OwnedAt, PlacesAre
  <2> QED
    BY <1>2, <2>1, <2>2
<1>5. /\ Place("host", 0) # Place("freed", 0)
      /\ Place("host", 0) \notin places /\ Place("freed", 0) \notin places
  BY DEF Place
<1> HIDE DEF places, Is
<1>6. here = {r \in places : r = p}
  BY <1>1, <1>3
<1>7. Cardinality({}) = 0 /\ \A x : Cardinality({x}) = 1
  BY FS_EmptySet, FS_Singleton
<1>8. Cardinality({m} \cap taken) = IF p = Place("host", 0) THEN 1 ELSE 0
  <2>1. {m} \cap taken = IF p = Place("host", 0) THEN {m} ELSE {}
    BY <1>4
  <2> QED
    BY <1>7, <2>1
<1>9. freed[m] = IF p = Place("freed", 0) THEN 1 ELSE 0
  BY <1>2, <1>4
<1>10. CASE p \in places
  <2>1. here = {p}
    BY <1>6, <1>10
  <2>2. Cardinality(here) = 1
    BY <1>7, <2>1
  <2>3. p # Place("host", 0) /\ p # Place("freed", 0)
    BY <1>5, <1>10
  <2> QED
    BY <1>8, <1>9, <2>2, <2>3 DEF places, Is
<1>11. CASE p \notin places
  <2>1. here = {}
    BY <1>6, <1>11
  <2>2. Cardinality(here) = 0
    BY <1>7, <2>1
  <2>3. p \in {Place("host", 0), Place("freed", 0)}
    BY <1>1, <1>11 DEF Places, Place, places
  <2> QED
    BY <1>5, <1>8, <1>9, <2>2, <2>3 DEF places, Is
<1> QED
  BY <1>10, <1>11

\* IInv holds in every reachable state.
THEOREM Inductive == Spec => []IInv
<1>1. IInv /\ [Next]_vars => IInv'
  BY TypesKept, ApartKept, OwnedKept, HeldKept, SentKept, MonitoredKept, OrderKept, SeenKept,
     WaitsKept, SignalledKept
     DEF IInv
<1> QED
  BY InitHolds, <1>1, PTL DEF Spec

\* No retry, put-back or completion loses, doubles or swaps an mbuf, or frees one
\* that is queued, being sent or in the ring; BPF sees each that was sent, once.
THEOREM MbufsAreSafe == Spec => []MbufInv
<1>1. IInv => CompletionFindsMbuf
  BY DEF IInv, SentIsWhole, Whole, CompletionFindsMbuf
<1>2. IInv => MbufInv
  BY <1>1, TypesAreOK, OwnedIsOnce DEF IInv, MbufInv
<1> QED
  BY Inductive, <1>2, PTL

\* Mbufs wait without a thread only where one found OACTIVE set.
THEOREM WaitingHasAReason == Spec => []WaitsOnlyForOactive
<1>1. IInv => WaitsOnlyForOactive
  BY DEF IInv
<1> QED
  BY Inductive, <1>1, PTL

\* A ring that is not empty is read, or its signal is set or on the way, unless another
\* channel's BitSet wrote over it.
THEOREM SendersSignal == Spec => []SentIsSignalled
<1>1. IInv => SentIsSignalled
  BY DEF IInv
<1> QED
  BY Inductive, <1>1, PTL

============================================================================
