-------------------------- MODULE RingBufferProofs --------------------------
(***************************************************************************)
(* Proofs about RingBuffer, for a ring of any size, any packets and any    *)
(* number of senders and receivers.                                        *)
(***************************************************************************)
EXTENDS RingBuffer, SequenceTheorems, TLAPS

-----------------------------------------------------------------------------
(* Index arithmetic.                                                       *)

\* Moving an index forward by at most one lap wraps at most once.
LEMMA AdvanceWraps ==
  ASSUME NEW i \in Slots, NEW n \in 0 .. RingDataSize
  PROVE  Advance(i, n) = IF i + n < RingDataSize THEN i + n ELSE i + n - RingDataSize
<1> USE RingDataSizeAssumption DEF Advance, Slots
<1>1. CASE i + n < RingDataSize
  BY <1>1
<1>2. CASE i + n >= RingDataSize
  BY <1>2
<1> QED
  BY <1>1, <1>2

\* An advanced index is an index (GetNextWriteLocation, GetNextReadLocation).
LEMMA AdvanceInSlots ==
  ASSUME NEW i \in Slots, NEW n \in Nat
  PROVE  Advance(i, n) \in Slots
BY RingDataSizeAssumption DEF Advance, Slots

\* Two advances within a lap are one: what CopyToRingBuffer returns is where
\* the next copy starts.
LEMMA AdvanceTwice ==
  ASSUME NEW i \in Slots, NEW m \in Nat, NEW n \in Nat, m + n <= RingDataSize
  PROVE  Advance(Advance(i, m), n) = Advance(i, m + n)
<1>1. /\ m \in 0 .. RingDataSize /\ n \in 0 .. RingDataSize
      /\ m + n \in 0 .. RingDataSize
  BY RingDataSizeAssumption
<1>2. Advance(i, m) \in Slots
  BY AdvanceInSlots
<1>3. Advance(i, m) = IF i + m < RingDataSize THEN i + m ELSE i + m - RingDataSize
  BY <1>1, AdvanceWraps
<1>4. Advance(Advance(i, m), n) =
        IF Advance(i, m) + n < RingDataSize THEN Advance(i, m) + n
        ELSE Advance(i, m) + n - RingDataSize
  BY <1>1, <1>2, AdvanceWraps
<1>5. Advance(i, m + n) =
        IF i + (m + n) < RingDataSize THEN i + (m + n) ELSE i + (m + n) - RingDataSize
  BY <1>1, AdvanceWraps
<1> QED
  BY <1>1, <1>3, <1>4, <1>5, RingDataSizeAssumption DEF Slots

\* Going to a slot and measuring how far it lies behind a base agree.
LEMMA OffsetAdvance ==
  ASSUME NEW b \in Slots, NEW i \in Slots, NEW n \in Nat,
         Offset(b, i) + n < RingDataSize
  PROVE  Offset(b, Advance(i, n)) = Offset(b, i) + n
<1>1. n \in 0 .. RingDataSize
  BY RingDataSizeAssumption DEF Offset, Slots
<1>2. Advance(i, n) = IF i + n < RingDataSize THEN i + n ELSE i + n - RingDataSize
  BY <1>1, AdvanceWraps
<1> QED
  BY <1>2, RingDataSizeAssumption DEF Offset, Slots

\* The macro BYTES_AVAIL_TO_WRITE measures the way from the read index to
\* the write index.
LEMMA AvailIsOffset ==
  ASSUME NEW r \in Slots, NEW w \in Slots
  PROVE  /\ BytesAvailToRead(r, w) = Offset(r, w)
         /\ BytesAvailToWrite(r, w) = RingDataSize - Offset(r, w)
BY RingDataSizeAssumption DEF BytesAvailToRead, BytesAvailToWrite, Offset, Slots

LEMMA OffsetInSlots ==
  ASSUME NEW b \in Slots, NEW i \in Slots
  PROVE  /\ Offset(b, i) \in Slots
         /\ Offset(b, i) \in Nat /\ Offset(b, i) < RingDataSize
BY RingDataSizeAssumption DEF Offset, Slots

\* The lengths of a packet are natural numbers, the trailer comes last.
LEMMA PacketLengths ==
  ASSUME NEW p \in Packets
  PROVE  /\ DescLen[p] \in Nat /\ DescLen[p] >= 2
         /\ PayloadLen[p] \in Nat /\ PayloadLen[p] >= 1
         /\ Length8(p) = DescLen[p] + PayloadLen[p] /\ Length8(p) \in Nat
         /\ TotalBytesToWrite(p) = Length8(p) + 1 /\ TotalBytesToWrite(p) \in Nat
         /\ p # None
BY PacketsAssumption DEF Length8, TotalBytesToWrite, TrailerLen, PeekLen

-----------------------------------------------------------------------------
(* The type invariant.                                                     *)

\* A thread inside a write holds a packet (lock discipline of the senders).
SenderHolds ==
  \A s \in Senders :
    /\ pc[s] \in SenderSteps
    /\ (pc[s] # "idle") <=> (ringLock = s)
    /\ pc[s] # "idle" => pkt[s] \in Packets

TypeInv == TypeOK /\ SenderHolds

LEMMA JunkIsWord == Junk \in Words
BY DEF Junk, Words

LEMMA WordIsWord ==
  ASSUME NEW p \in Packets, NEW j \in Nat, NEW i \in Slots
  PROVE  Word(p, j, i) \in Words
BY DEF Word, Words, Slots

\* The shared indices never leave the data area and every local keeps its
\* type, for every ring size.
THEOREM TypeCorrect == Spec => []TypeInv
<1>1. Init => TypeInv
  <2> SUFFICES ASSUME Init PROVE TypeInv
    OBVIOUS
  <2>1. 0 \in Slots
    BY RingDataSizeAssumption DEF Slots
  <2>2. TypeOK
    BY <2>1, JunkIsWord DEF Init, TypeOK, SenderSteps, ReceiverSteps, Threads
  <2>3. SenderHolds
    BY ThreadsAssumption DEF Init, SenderHolds, SenderSteps, Threads
  <2> QED
    BY <2>2, <2>3 DEF TypeInv
<1>2. TypeInv /\ [Next]_vars => TypeInv'
  <2> SUFFICES ASSUME TypeInv, [Next]_vars PROVE TypeInv'
    OBVIOUS
  <2> USE DEF TypeInv
  <2>0. 0 \in Slots
    BY RingDataSizeAssumption DEF Slots
  <2>1. ASSUME NEW s \in Senders, NEW p \in Packets, SendPacket(s, p)
        PROVE  TypeInv'
    <3>1. TypeOK'
      BY <2>1 DEF SendPacket, TypeOK, Goto, ring, receiverVars, Threads, SenderSteps
    <3>2. SenderHolds'
      BY <2>1, ThreadsAssumption
      DEF SendPacket, TypeOK, SenderHolds, Goto, Threads, SenderSteps
    <3> QED
      BY <3>1, <3>2
  <2>2. ASSUME NEW s \in Senders, RingFull(s)
        PROVE  TypeInv'
    <3>1. TypeOK'
      BY <2>2, <2>0
      DEF RingFull, SenderReturns, TypeOK, Goto, ring, receiverVars, Threads, SenderSteps
    <3>2. SenderHolds'
      BY <2>2, ThreadsAssumption
      DEF RingFull, SenderReturns, TypeOK, SenderHolds, Goto, Threads, SenderSteps
    <3> QED
      BY <3>1, <3>2
  <2>3. ASSUME NEW s \in Senders, RingHasRoom(s)
        PROVE  TypeInv'
    <3>1. TypeOK'
      BY <2>3 DEF RingHasRoom, TypeOK, Goto, ring, receiverVars, Threads, SenderSteps
    <3>2. SenderHolds'
      BY <2>3, ThreadsAssumption
      DEF RingHasRoom, TypeOK, SenderHolds, Goto, Threads, SenderSteps
    <3> QED
      BY <3>1, <3>2
  <2>4. ASSUME NEW s \in Senders, NEW from, NEW to \in SenderSteps \ {"idle"},
               NEW first \in Nat, NEW len \in Nat,
               from # "idle", Copy(s, from, to, first, len)
        PROVE  TypeInv'
    <3>1. pkt[s] \in Packets
      BY <2>4 DEF Copy, SenderHolds
    <3>2. buf' \in [Slots -> Words]
      <4> SUFFICES ASSUME NEW i \in Slots
                   PROVE  (IF Offset(next[s], i) < len
                           THEN Word(pkt[s], first + Offset(next[s], i), writeIndex)
                           ELSE buf[i]) \in Words
        BY <2>4 DEF Copy, CopyToRingBuffer
      <4>1. Offset(next[s], i) \in Nat
        BY OffsetInSlots DEF TypeOK, Slots
      <4> QED
        BY <3>1, <4>1, WordIsWord DEF TypeOK
    <3>3. next' \in [Senders -> Slots]
      BY <2>4, AdvanceInSlots DEF Copy, TypeOK
    <3>4. TypeOK'
      BY <2>4, <3>2, <3>3 DEF Copy, TypeOK, Goto, receiverVars, Threads
    <3>5. SenderHolds'
      BY <2>4, ThreadsAssumption DEF Copy, TypeOK, SenderHolds, Goto, Threads
    <3> QED
      BY <3>4, <3>5
  <2>5. ASSUME NEW s \in Senders, CopyDescriptor(s) PROVE TypeInv'
    <3>1. pkt[s] \in Packets
      BY <2>5 DEF CopyDescriptor, Copy, SenderHolds
    <3> QED
      BY <2>5, <2>4, <3>1, PacketLengths DEF CopyDescriptor, SenderSteps
  <2>6. ASSUME NEW s \in Senders, CopyPayload(s) PROVE TypeInv'
    <3>1. pkt[s] \in Packets
      BY <2>6 DEF CopyPayload, Copy, SenderHolds
    <3> QED
      BY <2>6, <2>4, <3>1, PacketLengths DEF CopyPayload, SenderSteps
  <2>7. ASSUME NEW s \in Senders, CopyTrailer(s) PROVE TypeInv'
    <3>1. pkt[s] \in Packets
      BY <2>7 DEF CopyTrailer, Copy, SenderHolds
    <3> QED
      BY <2>7, <2>4, <3>1, PacketLengths DEF CopyTrailer, SenderSteps, TrailerLen
  <2>8. ASSUME NEW s \in Senders, Publish(s)
        PROVE  TypeInv'
    <3>1. pkt[s] \in Packets
      BY <2>8 DEF Publish, SenderHolds
    <3>2. unread' \in Seq([pkt : Packets, at : Slots])
      BY <2>8, <3>1 DEF Publish, TypeOK
    <3>3. TypeOK'
      BY <2>8, <2>0, <3>2
      DEF Publish, SenderReturns, TypeOK, Goto, receiverVars, Threads, SenderSteps
    <3>4. SenderHolds'
      BY <2>8, ThreadsAssumption
      DEF Publish, SenderReturns, TypeOK, SenderHolds, Goto, Threads, SenderSteps
    <3> QED
      BY <3>3, <3>4
  <2>9. ASSUME NEW r \in Receivers, NEW n \in BufferLens, RecvPacket(r, n)
        PROVE  TypeInv'
    <3>1. TypeOK'
      BY <2>9 DEF RecvPacket, TypeOK, Goto, ring, senderVars, Threads, ReceiverSteps
    <3>2. SenderHolds'
      BY <2>9, ThreadsAssumption
      DEF RecvPacket, TypeOK, SenderHolds, Goto, senderVars, Threads
    <3> QED
      BY <3>1, <3>2
  <2>10. ASSUME NEW r \in Receivers, ReceiverReturns(r),
                UNCHANGED <<ring, senderVars, got, unread>>
         PROVE  TypeInv'
    <3>1. TypeOK'
      BY <2>10, JunkIsWord
      DEF ReceiverReturns, TypeOK, Goto, ring, senderVars, Threads, ReceiverSteps
    <3>2. SenderHolds'
      BY <2>10, ThreadsAssumption
      DEF ReceiverReturns, TypeOK, SenderHolds, Goto, senderVars, Threads
    <3> QED
      BY <3>1, <3>2
  <2>11. ASSUME NEW r \in Receivers, Peek(r)
         PROVE  TypeInv'
    <3>1. TypeOK'
      BY <2>11 DEF Peek, TypeOK, Goto, ring, senderVars, Threads, ReceiverSteps
    <3>2. SenderHolds'
      BY <2>11, ThreadsAssumption
      DEF Peek, TypeOK, SenderHolds, Goto, senderVars, Threads
    <3> QED
      BY <3>1, <3>2
  <2>12. ASSUME NEW r \in Receivers, Read(r)
         PROVE  TypeInv'
    <3>1. TypeOK'
      BY <2>12 DEF Read, TypeOK, Goto, ring, senderVars, Threads, ReceiverSteps
    <3>2. SenderHolds'
      BY <2>12, ThreadsAssumption
      DEF Read, TypeOK, SenderHolds, Goto, senderVars, Threads
    <3> QED
      BY <3>1, <3>2
  <2>13. ASSUME NEW r \in Receivers, ReadAdvance(r)
         PROVE  TypeInv'
    <3>1. Skip(r) \in Nat /\ ReadLen(r) \in Nat
      <4>1. desc[r].pkt \in Packets \cup {None}
        BY DEF TypeOK, Words
      <4>2. CASE desc[r].pkt = None
        BY <4>2 DEF Skip, ReadLen, DescLength
      <4>3. CASE desc[r].pkt # None
        BY <4>1, <4>3, PacketLengths DEF Skip, ReadLen, DescLength
      <4> QED
        BY <4>2, <4>3
    <3>2. readIndex' \in Slots
      BY <2>13, <3>1, AdvanceInSlots DEF ReadAdvance, TypeOK, TrailerLen
    <3>3. Decode(copied[r], Skip(r)) \in Packets \cup {None}
      BY DEF Decode
    <3>4. unread' \in Seq([pkt : Packets, at : Slots])
      <4>1. CASE unread = <<>>
        BY <2>13, <4>1 DEF ReadAdvance, TypeOK
      <4>2. CASE unread # <<>>
        BY <2>13, <4>2 DEF ReadAdvance, TypeOK
      <4> QED
        BY <4>1, <4>2
    <3>5. TypeOK'
      BY <2>13, <3>2, <3>3, <3>4, JunkIsWord
      DEF ReadAdvance, ReceiverReturns, TypeOK, Goto, senderVars, Threads, ReceiverSteps
    <3>6. SenderHolds'
      BY <2>13, ThreadsAssumption
      DEF ReadAdvance, ReceiverReturns, TypeOK, SenderHolds, Goto, senderVars, Threads
    <3> QED
      BY <3>5, <3>6
  <2>14. CASE UNCHANGED vars
    BY <2>14 DEF vars, ring, senderVars, receiverVars, TypeOK, SenderHolds
  <2> QED
    BY <2>1, <2>2, <2>3, <2>5, <2>6, <2>7, <2>8, <2>9, <2>10, <2>11, <2>12,
       <2>13, <2>14
    DEF Next, SendStep, RecvStep, NothingToRead, BufferTooSmall
<1> QED
  BY <1>1, <1>2, PTL DEF Spec

-----------------------------------------------------------------------------
(* The inductive invariant.                                                *)

\* How many words of its packet a sender has copied.
Done(s) ==
  IF pc[s] = "desc" THEN 0
  ELSE IF pc[s] = "payload" THEN DescLen[pkt[s]]
  ELSE IF pc[s] = "trailer" THEN Length8(pkt[s])
  ELSE TotalBytesToWrite(pkt[s])

Copying(s) == pc[s] \in {"desc", "payload", "trailer", "publish"}

\* What a sender has copied lies behind the write index, complete so far, and
\* the rest still fits: the room it saw can only grow.
SendersInv ==
  \A s \in Senders : Copying(s) =>
    /\ Offset(readIndex, writeIndex) + TotalBytesToWrite(pkt[s]) < RingDataSize
    /\ next[s] = Advance(writeIndex, Done(s))
    /\ \A j \in 0 .. Done(s) - 1 :
         buf[Advance(writeIndex, j)] = Word(pkt[s], j, writeIndex)

Start(k) == Offset(readIndex, unread[k].at)

\* UnreadTilesTheRing in terms of distances from the read index, with the
\* order of all pairs of packets, not only of neighbours.
QueueInv ==
  /\ unread = <<>> => readIndex = writeIndex
  /\ unread # <<>> =>
       /\ unread[1].at = readIndex
       /\ Start(Len(unread)) + Extent(unread[Len(unread)])
            = Offset(readIndex, writeIndex)
  /\ \A k \in 1 .. Len(unread) :
       Start(k) + Extent(unread[k]) <= Offset(readIndex, writeIndex)
  /\ \A k, l \in 1 .. Len(unread) :
       k < l => Start(k) + Extent(unread[k]) <= Start(l)
  /\ \A k \in 1 .. Len(unread) - 1 :
       unread[k + 1].at = Advance(unread[k].at, Extent(unread[k]))

\* The receiver inside the lock works on the oldest unread packet.
ReceiversInv ==
  /\ copied = [r \in Receivers |-> copied[r]]
  /\ \A r \in Receivers :
       /\ pc[r] \in ReceiverSteps
       /\ (pc[r] # "idle") <=> (inboundLock = r)
       /\ pc[r] \in {"read", "advance"} =>
            /\ unread # <<>>
            /\ desc[r].pkt = unread[1].pkt
       /\ pc[r] = "advance" => IsPacket(copied[r], Skip(r), unread[1].pkt)

IInv == TypeInv /\ SendersInv /\ QueueInv /\ UnreadIsIntact /\ ReceiversInv

\* A slot nearer to the base than a lies almost a whole lap behind a.
LEMMA OffsetBehind ==
  ASSUME NEW b \in Slots, NEW a \in Slots, NEW i \in Slots,
         Offset(b, i) < Offset(b, a)
  PROVE  Offset(a, i) = RingDataSize - Offset(b, a) + Offset(b, i)
BY RingDataSizeAssumption DEF Offset, Slots

\* Moving the base forward brings every slot beyond it nearer.
LEMMA OffsetFromAdvanced ==
  ASSUME NEW b \in Slots, NEW i \in Slots, NEW n \in Nat, n <= Offset(b, i)
  PROVE  Offset(Advance(b, n), i) = Offset(b, i) - n
<1>1. n \in 0 .. RingDataSize
  BY RingDataSizeAssumption DEF Offset, Slots
<1>2. Advance(b, n) = IF b + n < RingDataSize THEN b + n ELSE b + n - RingDataSize
  BY <1>1, AdvanceWraps
<1> QED
  BY <1>2, RingDataSizeAssumption DEF Offset, Slots

\* Going as far as a slot lies behind the base leads to it.
LEMMA AdvanceOffset ==
  ASSUME NEW b \in Slots, NEW i \in Slots
  PROVE  Advance(b, Offset(b, i)) = i
<1>1. Offset(b, i) \in 0 .. RingDataSize
  BY RingDataSizeAssumption DEF Offset, Slots
<1>2. Advance(b, Offset(b, i)) = IF b + Offset(b, i) < RingDataSize
                                 THEN b + Offset(b, i)
                                 ELSE b + Offset(b, i) - RingDataSize
  BY <1>1, AdvanceWraps
<1> QED
  BY <1>2, RingDataSizeAssumption DEF Offset, Slots

LEMMA AdvanceZero ==
  ASSUME NEW i \in Slots PROVE Advance(i, 0) = i /\ Offset(i, i) = 0
<1>1. 0 \in 0 .. RingDataSize
  BY RingDataSizeAssumption
<1>2. Advance(i, 0) = IF i + 0 < RingDataSize THEN i + 0 ELSE i + 0 - RingDataSize
  BY <1>1, AdvanceWraps
<1> QED
  BY <1>2, RingDataSizeAssumption DEF Offset, Slots

LEMMA UnreadTypes ==
  ASSUME TypeOK, NEW k \in 1 .. Len(unread)
  PROVE  /\ unread[k].pkt \in Packets /\ unread[k].at \in Slots
         /\ Start(k) \in Nat /\ Start(k) < RingDataSize
         /\ Extent(unread[k]) \in Nat /\ Extent(unread[k]) >= 4
<1>1. unread[k] \in [pkt : Packets, at : Slots]
  BY ElementOfSeq DEF TypeOK
<1>2. Start(k) \in Slots
  BY <1>1, OffsetInSlots DEF Start, TypeOK
<1> QED
  BY <1>1, <1>2, PacketLengths, RingDataSizeAssumption DEF Extent, Slots

\* One CopyToRingBuffer call of a sender that has copied first words.
LEMMA CopyKeeps ==
  ASSUME IInv, TypeInv', NEW s \in Senders, NEW from, NEW to,
         NEW first \in Nat, NEW len \in Nat,
         Copying(s), to \in {"payload", "trailer", "publish"},
         first = Done(s), first + len <= TotalBytesToWrite(pkt[s]),
         first < TotalBytesToWrite(pkt[s]),
         Copy(s, from, to, first, len), Done(s)' = first + len
  PROVE  IInv'
<1> USE DEF IInv, TypeInv
<1> DEFINE N == RingDataSize
           p == pkt[s]
           W == writeIndex
           U == Offset(readIndex, writeIndex)
<1>1. /\ readIndex \in Slots /\ W \in Slots /\ next[s] \in Slots
      /\ p \in Packets /\ N \in Nat /\ U \in Nat
      /\ TotalBytesToWrite(p) \in Nat
  <2>1. readIndex \in Slots /\ W \in Slots /\ next[s] \in Slots
    BY DEF TypeOK
  <2>2. p \in Packets
    BY DEF SenderHolds, Copying
  <2>3. U \in Slots
    BY <2>1, OffsetInSlots
  <2>4. TotalBytesToWrite(p) \in Nat
    BY <2>2, PacketLengths
  <2> QED
    BY <2>1, <2>2, <2>3, <2>4, RingDataSizeAssumption DEF Slots
<1>2. U + TotalBytesToWrite(p) < N /\ next[s] = Advance(W, first)
  BY DEF SendersInv
<1>3. Offset(readIndex, next[s]) = U + first
  BY <1>1, <1>2, OffsetAdvance
<1>4. Offset(W, next[s]) = first
  BY <1>1, <1>2, AdvanceZero, OffsetAdvance
<1>5. ASSUME NEW i \in Slots, Offset(next[s], i) >= len
      PROVE  buf'[i] = buf[i]
  <2>1. Offset(next[s], i) \in Slots
    BY <1>1, OffsetInSlots
  <2>2. ~ (Offset(next[s], i) < len)
    BY <1>5, <2>1 DEF Slots
  <2> QED
    BY <2>2 DEF Copy, CopyToRingBuffer
<1>6. UnreadIsIntact'
  <2> SUFFICES ASSUME NEW k \in 1 .. Len(unread), NEW j \in 0 .. Extent(unread[k]) - 1
               PROVE  buf'[Advance(unread[k].at, j)]
                        = Word(unread[k].pkt, j, unread[k].at)
    BY DEF UnreadIsIntact, Copy, Extent, Word, Length8, TotalBytesToWrite, Advance
  <2> DEFINE i == Advance(unread[k].at, j)
  <2>1. unread[k].at \in Slots /\ Start(k) \in Nat /\ Extent(unread[k]) \in Nat
    BY UnreadTypes
  <2>2. j \in Nat /\ j < Extent(unread[k])
    BY <2>1
  <2>3. i \in Slots
    BY <2>1, <2>2, AdvanceInSlots
  <2>4. Start(k) + Extent(unread[k]) <= U
    BY DEF QueueInv
  <2>5. Offset(readIndex, i) = Start(k) + j
    <3> HIDE DEF U, N
    <3>1. Start(k) + j < N
      BY <1>1, <1>2, <2>1, <2>2, <2>4
    <3>2. Offset(readIndex, unread[k].at) + j < RingDataSize
      BY <3>1 DEF Start, N
    <3>3. Offset(readIndex, Advance(unread[k].at, j)) = Offset(readIndex, unread[k].at) + j
      BY <1>1, <2>1, <2>2, <3>2, OffsetAdvance
    <3> QED
      BY <3>3 DEF Start
  <2>6. Offset(next[s], i) = N - (U + first) + (Start(k) + j)
    <3>1. Offset(readIndex, i) < Offset(readIndex, next[s])
      BY <1>1, <1>3, <2>1, <2>2, <2>4, <2>5
    <3> QED
      BY <1>1, <1>3, <2>3, <2>5, <3>1, OffsetBehind
  <2>7. Offset(next[s], i) >= len
    BY <1>1, <1>2, <2>1, <2>2, <2>6
  <2>8. buf[i] = Word(unread[k].pkt, j, unread[k].at)
    BY DEF UnreadIsIntact
  <2> QED
    BY <1>5, <2>3, <2>7, <2>8
<1>7. SendersInv'
  <2> SUFFICES ASSUME NEW t \in Senders, Copying(t)'
               PROVE  /\ U + TotalBytesToWrite(pkt[t]) < N
                      /\ next'[t] = Advance(W, Done(t)')
                      /\ \A j \in 0 .. Done(t)' - 1 :
                           buf'[Advance(W, j)] = Word(pkt[t], j, W)
    BY DEF SendersInv, Copy, Copying, Done, Word, Offset, Length8, TotalBytesToWrite, Advance
  <2>1. t = s
    BY DEF SenderHolds, Copying, Copy, Goto, TypeOK, Threads
  <2>2. next'[s] = Advance(W, first + len)
    <3>1. next'[s] = Advance(next[s], len)
      BY DEF Copy, TypeOK
    <3> QED
      BY <1>1, <1>2, <3>1, AdvanceTwice
  <2>3. ASSUME NEW j \in 0 .. first + len - 1
        PROVE  buf'[Advance(W, j)] = Word(p, j, W)
    <3> DEFINE i == Advance(W, j)
    <3>1. i \in Slots /\ Offset(W, i) = j
      <4>1. j \in Nat /\ 0 + j < N
        BY <1>1, <1>2
      <4>2. Offset(W, W) = 0
        BY <1>1, AdvanceZero
      <4>3. W \in Slots /\ Offset(W, W) + j < RingDataSize
        BY <1>1, <4>1, <4>2
      <4>4. Offset(W, Advance(W, j)) = Offset(W, W) + j
        BY <4>1, <4>3, OffsetAdvance
      <4>5. Advance(W, j) \in Slots
        BY <4>1, <4>3, AdvanceInSlots
      <4> QED
        BY <4>1, <4>2, <4>4, <4>5
    <3>2. CASE j < first
      <4>1. Offset(next[s], i) = N - first + j
        BY <1>1, <1>4, <3>1, <3>2, OffsetBehind
      <4>2. buf[i] = Word(p, j, W)
        BY <3>2 DEF SendersInv
      <4> QED
        BY <1>1, <1>2, <1>5, <3>1, <4>1, <4>2
    <3>3. CASE j >= first
      <4>1. j - first \in Nat /\ first + (j - first) = j
        BY <3>3
      <4>2. i = Advance(next[s], j - first)
        BY <1>1, <1>2, <4>1, AdvanceTwice
      <4>3. Offset(next[s], i) = j - first
        BY <1>1, <1>2, <4>1, <4>2, AdvanceZero, OffsetAdvance
      <4>4. Offset(next[s], i) < len
        BY <4>3
      <4> QED
        BY <3>1, <4>1, <4>3, <4>4 DEF Copy, CopyToRingBuffer
    <3> QED
      BY <3>2, <3>3
  <2> QED
    BY <1>2, <2>1, <2>2, <2>3
<1>8. QueueInv'
  BY DEF QueueInv, Copy, Start, Extent, Offset, Advance, TotalBytesToWrite, Length8
<1>9. ReceiversInv'
  BY ThreadsAssumption
  DEF ReceiversInv, Copy, receiverVars, Goto, TypeOK, Threads, IsPacket, Skip, Word, Length8
<1> QED
  BY <1>6, <1>7, <1>8, <1>9

\* Steps that touch neither the shared ring nor the history keep the queue.
LEMMA QueueKept ==
  ASSUME QueueInv, UnreadIsIntact, UNCHANGED <<ring, unread>>
  PROVE  QueueInv' /\ UnreadIsIntact'
BY DEF QueueInv, UnreadIsIntact, ring, Start, Extent, Offset, Advance, Word,
       TotalBytesToWrite, Length8

\* A step of a receiver that leaves the ring alone keeps the senders' part.
LEMMA SendersKept ==
  ASSUME SendersInv, UNCHANGED <<ring, senderVars>>,
         \A s \in Senders : pc'[s] = pc[s]
  PROVE  SendersInv'
BY DEF SendersInv, ring, senderVars, Copying, Done, Offset, Advance, Word,
       TotalBytesToWrite, Length8

\* A step of a sender that leaves the ring alone keeps the receivers' part.
LEMMA ReceiversKept ==
  ASSUME ReceiversInv, UNCHANGED <<receiverVars, unread>>,
         \A r \in Receivers : pc'[r] = pc[r]
  PROVE  ReceiversInv'
BY DEF ReceiversInv, receiverVars, IsPacket, Skip, Word, Length8

LEMMA SendPacketKeeps ==
  ASSUME IInv, TypeInv', NEW s \in Senders, NEW p \in Packets, SendPacket(s, p)
  PROVE  IInv'
<1> USE DEF IInv
<1>1. QueueInv' /\ UnreadIsIntact'
  BY QueueKept DEF SendPacket
<1>2. ReceiversInv'
  BY ReceiversKept, ThreadsAssumption
  DEF SendPacket, Goto, TypeInv, TypeOK, Threads
<1>3. SendersInv'
  <2>1. ASSUME NEW t \in Senders PROVE ~ Copying(t)'
    BY <2>1, ThreadsAssumption
    DEF SendPacket, Copying, Goto, TypeInv, TypeOK, SenderHolds, Threads
  <2> QED
    BY <2>1 DEF SendersInv
<1> QED
  BY <1>1, <1>2, <1>3

LEMMA RingFullKeeps ==
  ASSUME IInv, TypeInv', NEW s \in Senders, RingFull(s)
  PROVE  IInv'
<1> USE DEF IInv
<1>1. QueueInv' /\ UnreadIsIntact'
  BY QueueKept DEF RingFull
<1>2. ReceiversInv'
  BY ReceiversKept, ThreadsAssumption
  DEF RingFull, SenderReturns, Goto, TypeInv, TypeOK, Threads
<1>3. SendersInv'
  <2>1. ASSUME NEW t \in Senders PROVE ~ Copying(t)'
    BY <2>1, ThreadsAssumption
    DEF RingFull, SenderReturns, Copying, Goto, TypeInv, TypeOK, SenderHolds, Threads
  <2> QED
    BY <2>1 DEF SendersInv
<1> QED
  BY <1>1, <1>2, <1>3

\* The strict test leaves room for the packet and one word more.
LEMMA RingHasRoomKeeps ==
  ASSUME IInv, TypeInv', NEW s \in Senders, RingHasRoom(s)
  PROVE  IInv'
<1> USE DEF IInv
<1>1. QueueInv' /\ UnreadIsIntact'
  BY QueueKept DEF RingHasRoom
<1>2. ReceiversInv'
  BY ReceiversKept, ThreadsAssumption
  DEF RingHasRoom, Goto, TypeInv, TypeOK, Threads
<1>3. SendersInv'
  <2>1. SUFFICES ASSUME NEW t \in Senders, Copying(t)'
        PROVE  /\ Offset(readIndex, writeIndex) + TotalBytesToWrite(pkt[t]) < RingDataSize
               /\ next'[t] = Advance(writeIndex, Done(t)')
               /\ Done(t)' = 0
    BY DEF SendersInv, RingHasRoom, ring, Offset, Advance, TotalBytesToWrite, Length8
  <2>2. t = s
    BY <2>1 DEF SenderHolds, Copying, RingHasRoom, Goto, TypeInv, TypeOK, Threads
  <2>3. readIndex \in Slots /\ writeIndex \in Slots /\ pkt[s] \in Packets
    <3>1. readIndex \in Slots /\ writeIndex \in Slots
      BY DEF TypeInv, TypeOK
    <3>2. pkt[s] \in Packets
      BY DEF TypeInv, SenderHolds, RingHasRoom
    <3> QED
      BY <3>1, <3>2
  <2>4. Offset(readIndex, writeIndex) \in Nat /\ TotalBytesToWrite(pkt[s]) \in Nat
    BY <2>3, OffsetInSlots, PacketLengths
  <2>5. RingDataSize - Offset(readIndex, writeIndex) > TotalBytesToWrite(pkt[s])
    BY <2>3, AvailIsOffset DEF RingHasRoom, Fits
  <2>6. Done(s)' = 0
    BY DEF Done, RingHasRoom, Goto, TypeInv, TypeOK, Threads
  <2>7. next'[s] = Advance(writeIndex, 0)
    BY <2>3, AdvanceZero DEF RingHasRoom, TypeInv, TypeOK
  <2> QED
    BY <2>2, <2>4, <2>5, <2>6, <2>7, RingDataSizeAssumption
<1> QED
  BY <1>1, <1>2, <1>3

\* A sender finds the three copies one after the other.
LEMMA CopiesKeep ==
  ASSUME IInv, TypeInv', NEW s \in Senders,
         CopyDescriptor(s) \/ CopyPayload(s) \/ CopyTrailer(s)
  PROVE  IInv'
<1>1. pkt[s] \in Packets /\ pc \in [Threads -> SenderSteps \cup ReceiverSteps]
      /\ s \in Threads
  BY DEF IInv, TypeInv, TypeOK, SenderHolds, CopyDescriptor, CopyPayload,
         CopyTrailer, Copy, Threads
<1>2. CASE CopyDescriptor(s)
  <2>1. Done(s) = 0 /\ Done(s)' = DescLen[pkt[s]] /\ Copying(s)
    BY <1>1, <1>2 DEF CopyDescriptor, Copy, Done, Goto, Copying
  <2> QED
    BY <1>1, <1>2, <2>1, PacketLengths, CopyKeeps DEF CopyDescriptor
<1>3. CASE CopyPayload(s)
  <2>1. Done(s) = DescLen[pkt[s]] /\ Done(s)' = Length8(pkt[s]) /\ Copying(s)
    BY <1>1, <1>3 DEF CopyPayload, Copy, Done, Goto, Copying, Length8
  <2> QED
    BY <1>1, <1>3, <2>1, PacketLengths, CopyKeeps DEF CopyPayload
<1>4. CASE CopyTrailer(s)
  <2>1. Done(s) = Length8(pkt[s]) /\ Done(s)' = TotalBytesToWrite(pkt[s]) /\ Copying(s)
    BY <1>1, <1>4 DEF CopyTrailer, Copy, Done, Goto, Copying, Length8, TotalBytesToWrite
  <2> QED
    BY <1>1, <1>4, <2>1, PacketLengths, CopyKeeps DEF CopyTrailer, TrailerLen
<1> QED
  BY <1>2, <1>3, <1>4

Entries == [pkt : Packets, at : Slots]

\* Publishing appends one packet right behind the last one.
LEMMA PublishKeeps ==
  ASSUME IInv, TypeInv', NEW s \in Senders, Publish(s)
  PROVE  IInv'
<1> USE DEF IInv
<1> DEFINE N == RingDataSize
           p == pkt[s]
           T == TotalBytesToWrite(p)
           W == writeIndex
           R == readIndex
           U == Offset(readIndex, writeIndex)
           L == Len(unread)
           new == [pkt |-> p, at |-> W]
           start(k) == Offset(R, unread'[k].at)
<1>1. R \in Slots /\ W \in Slots /\ p \in Packets /\ unread \in Seq(Entries)
  <2>1. p \in Packets
    BY DEF TypeInv, SenderHolds, Publish
  <2> QED
    BY <2>1 DEF TypeInv, TypeOK, Entries
<1>2. N \in Nat /\ U \in Nat /\ T \in Nat /\ L \in Nat
  BY <1>1, OffsetInSlots, PacketLengths, RingDataSizeAssumption, LenProperties
<1>3. Copying(s) /\ Done(s) = T
  BY DEF Publish, Copying, Done
<1>4. U + T < N /\ writeIndex' = Advance(W, T)
  BY <1>3 DEF SendersInv, Publish
<1>5. /\ Len(unread') = L + 1 /\ unread' # <<>>
      /\ \A k \in 1 .. L : unread'[k] = unread[k]
      /\ unread'[L + 1] = new
  BY <1>1, AppendProperties DEF Publish, Entries
<1>6. readIndex' = R /\ buf' = buf
  BY DEF Publish
<1>7. Offset(R, writeIndex') = U + T
  BY <1>1, <1>2, <1>4, OffsetAdvance
<1>8. ASSUME NEW k \in 1 .. L
      PROVE  /\ start(k) = Start(k) /\ Extent(unread'[k]) = Extent(unread[k])
             /\ Start(k) \in Nat /\ Extent(unread[k]) \in Nat
             /\ Start(k) + Extent(unread[k]) <= U
  <2>1. /\ Start(k) \in Nat /\ Extent(unread[k]) \in Nat
    BY UnreadTypes DEF TypeInv
  <2>2. Start(k) + Extent(unread[k]) <= U
    BY DEF QueueInv
  <2> QED
    BY <1>5, <2>1, <2>2 DEF Start
<1>9. start(L + 1) = U /\ Extent(unread'[L + 1]) = T
  BY <1>5 DEF Extent
<1>10. QueueInv'
  <2>1. (unread' # <<>> =>
            /\ unread'[1].at = R
            /\ start(Len(unread')) + Extent(unread'[Len(unread')]) = U + T)
    <3>1. unread'[1].at = R
      <4>1. CASE L = 0
        BY <1>1, <1>5, <4>1, EmptySeq DEF QueueInv
      <4>2. CASE L # 0
        BY <1>2, <1>5, <4>2 DEF QueueInv
      <4> QED
        BY <4>1, <4>2
    <3> QED
      BY <3>1, <1>5, <1>9
  <2>2. ASSUME NEW k \in 1 .. L + 1
        PROVE  start(k) + Extent(unread'[k]) <= U + T
    BY <1>2, <1>8, <1>9
  <2>3. ASSUME NEW k \in 1 .. L + 1, NEW l \in 1 .. L + 1, k < l
        PROVE  start(k) + Extent(unread'[k]) <= start(l)
    <3>1. CASE l = L + 1
      <4>1. k \in 1 .. L
        BY <1>2, <2>3, <3>1
      <4>2. start(k) + Extent(unread'[k]) <= U
        BY <1>8, <4>1
      <4> QED
        BY <1>9, <3>1, <4>2
    <3>2. CASE l # L + 1
      <4>1. k \in 1 .. L /\ l \in 1 .. L
        BY <1>2, <2>3, <3>2
      <4>2. Start(k) + Extent(unread[k]) <= Start(l)
        BY <2>3, <4>1 DEF QueueInv
      <4> QED
        BY <1>8, <4>1, <4>2
    <3> QED
      BY <3>1, <3>2
  <2>4. ASSUME NEW k \in 1 .. L
        PROVE  unread'[k + 1].at = Advance(unread'[k].at, Extent(unread'[k]))
    <3>1. CASE k = L
      <4>1. unread[L].at \in Slots /\ unread # <<>>
        BY <1>1, <3>1, UnreadTypes, EmptySeq DEF TypeInv
      <4>2. Start(L) + Extent(unread[L]) = U
        BY <4>1 DEF QueueInv
      <4>3. unread[L].at = Advance(R, Start(L))
        BY <1>1, <4>1, AdvanceOffset DEF Start
      <4>4. Start(L) \in Nat /\ Extent(unread[L]) \in Nat
        BY <1>8, <3>1
      <4>5. Advance(unread[L].at, Extent(unread[L])) = Advance(R, U)
        BY <1>1, <1>2, <1>4, <4>2, <4>3, <4>4, AdvanceTwice
      <4>6. Advance(R, U) = W
        BY <1>1, AdvanceOffset
      <4> QED
        BY <1>2, <1>5, <1>8, <3>1, <4>5, <4>6
    <3>2. CASE k # L
      <4>1. k \in 1 .. L - 1 /\ k + 1 \in 1 .. L
        BY <1>2, <3>2
      <4> QED
        BY <1>5, <1>8, <4>1 DEF QueueInv
    <3> QED
      BY <3>1, <3>2
  <2>5. QueueInv' = (/\ unread' = <<>> => readIndex' = writeIndex'
                     /\ unread' # <<>> =>
                          /\ unread'[1].at = readIndex'
                          /\ start(Len(unread')) + Extent(unread'[Len(unread')])
                               = Offset(readIndex', writeIndex')
                     /\ \A k \in 1 .. Len(unread') :
                          start(k) + Extent(unread'[k]) <= Offset(readIndex', writeIndex')
                     /\ \A k, l \in 1 .. Len(unread') :
                          k < l => start(k) + Extent(unread'[k]) <= start(l)
                     /\ \A k \in 1 .. Len(unread') - 1 :
                          unread'[k + 1].at = Advance(unread'[k].at, Extent(unread'[k])))
    BY <1>5, <1>6 DEF QueueInv, Start, Offset, Extent, Advance, TotalBytesToWrite, Length8
  <2> QED
    BY <1>2, <1>5, <1>6, <1>7, <2>1, <2>2, <2>3, <2>4, <2>5
<1>11. UnreadIsIntact'
  <2> SUFFICES ASSUME NEW k \in 1 .. L + 1, NEW j \in 0 .. Extent(unread'[k]) - 1
               PROVE  buf[Advance(unread'[k].at, j)]
                        = Word(unread'[k].pkt, j, unread'[k].at)
    BY <1>5, <1>6 DEF UnreadIsIntact, Extent, Word, Length8, TotalBytesToWrite, Advance
  <2>1. CASE k = L + 1
    BY <1>3, <1>5, <1>9, <2>1 DEF SendersInv
  <2>2. CASE k # L + 1
    <3>1. k \in 1 .. L
      BY <1>2, <2>2
    <3> QED
      BY <1>5, <3>1 DEF UnreadIsIntact
  <2> QED
    BY <2>1, <2>2
<1>12. SendersInv'
  <2>1. ASSUME NEW t \in Senders PROVE ~ Copying(t)'
    BY <2>1, ThreadsAssumption
    DEF Publish, SenderReturns, Copying, Goto, TypeInv, TypeOK, SenderHolds, Threads
  <2> QED
    BY <2>1 DEF SendersInv
<1>13. ReceiversInv'
  <2> SUFFICES ASSUME NEW r \in Receivers
               PROVE  /\ pc'[r] = pc[r]
                      /\ unread # <<>> => unread'[1] = unread[1]
    BY <1>5 DEF ReceiversInv, Publish, receiverVars, IsPacket, Skip, Word, Length8
  <2>1. unread # <<>> => 1 \in 1 .. L
    BY <1>1, <1>2, EmptySeq
  <2> QED
    BY <1>5, <2>1, ThreadsAssumption
    DEF Publish, SenderReturns, Goto, TypeInv, TypeOK, Threads
<1> QED
  BY <1>10, <1>11, <1>12, <1>13

\* A step of a receiver outside the ring: nothing but its own locals moves.
LEMMA RecvPacketKeeps ==
  ASSUME IInv, TypeInv', NEW r \in Receivers, NEW n \in BufferLens, RecvPacket(r, n)
  PROVE  IInv'
<1> USE DEF IInv
<1>1. QueueInv' /\ UnreadIsIntact' /\ SendersInv'
  BY QueueKept, SendersKept, ThreadsAssumption
  DEF RecvPacket, Goto, TypeInv, TypeOK, Threads
<1>2. ReceiversInv'
  BY ThreadsAssumption
  DEF ReceiversInv, RecvPacket, Goto, TypeInv, TypeOK, Threads, ReceiverSteps
<1> QED
  BY <1>1, <1>2

LEMMA ReturnKeeps ==
  ASSUME IInv, TypeInv', NEW r \in Receivers, pc[r] # "idle",
         ReceiverReturns(r), UNCHANGED <<ring, senderVars, unread>>
  PROVE  IInv'
<1> USE DEF IInv
<1>1. QueueInv' /\ UnreadIsIntact' /\ SendersInv'
  BY QueueKept, SendersKept, ThreadsAssumption
  DEF ReceiverReturns, Goto, TypeInv, TypeOK, Threads
<1>2. ReceiversInv'
  BY ThreadsAssumption
  DEF ReceiversInv, ReceiverReturns, Goto, TypeInv, TypeOK, Threads, ReceiverSteps
<1> QED
  BY <1>1, <1>2

\* What lies at the read index is the first word of the oldest packet.
LEMMA PeekKeeps ==
  ASSUME IInv, TypeInv', NEW r \in Receivers, Peek(r)
  PROVE  IInv'
<1> USE DEF IInv
<1>1. QueueInv' /\ UnreadIsIntact' /\ SendersInv'
  BY QueueKept, SendersKept, ThreadsAssumption
  DEF Peek, Goto, TypeInv, TypeOK, Threads
<1>2. readIndex \in Slots /\ writeIndex \in Slots
  BY DEF TypeInv, TypeOK
<1>3. unread # <<>>
  BY <1>2, AvailIsOffset, AdvanceZero DEF Peek, QueueInv, PeekLen
<1>4. 1 \in 1 .. Len(unread) /\ unread[1].at = readIndex
  BY <1>3, EmptySeq DEF QueueInv, TypeInv, TypeOK
<1>5. 0 \in 0 .. Extent(unread[1]) - 1
  BY <1>4, UnreadTypes DEF TypeInv
<1>6. buf[readIndex] = Word(unread[1].pkt, 0, readIndex)
  BY <1>2, <1>4, <1>5, AdvanceZero DEF UnreadIsIntact
<1>7. desc'[r].pkt = unread[1].pkt
  BY <1>6 DEF Peek, Word, TypeInv, TypeOK
<1>8. ReceiversInv'
  BY <1>3, <1>7, ThreadsAssumption
  DEF ReceiversInv, Peek, Goto, TypeInv, TypeOK, Threads, ReceiverSteps
<1> QED
  BY <1>1, <1>8

\* The receiver's view of the packet it peeked.
LEMMA PeekedPacket ==
  ASSUME TypeInv, ReceiversInv, NEW r \in Receivers, pc[r] \in {"read", "advance"}
  PROVE  /\ unread # <<>> /\ 1 \in 1 .. Len(unread)
         /\ unread[1].pkt \in Packets /\ unread[1].at \in Slots
         /\ Skip(r) \in Nat /\ ReadLen(r) \in Nat /\ ReadLen(r) >= 1
         /\ Skip(r) + ReadLen(r) = Length8(unread[1].pkt)
         /\ Extent(unread[1]) = Length8(unread[1].pkt) + 1
         /\ Length8(unread[1].pkt) \in Nat
<1>1. unread # <<>> /\ desc[r].pkt = unread[1].pkt
  BY DEF ReceiversInv
<1>2. 1 \in 1 .. Len(unread)
  BY <1>1, EmptySeq DEF TypeInv, TypeOK
<1>3. unread[1].pkt \in Packets /\ unread[1].at \in Slots
  BY <1>2, UnreadTypes DEF TypeInv
<1> QED
  BY <1>1, <1>2, <1>3, PacketLengths DEF Skip, ReadLen, DescLength, Extent

\* The words copied out are those of the oldest packet.
LEMMA ReadKeeps ==
  ASSUME IInv, TypeInv', NEW r \in Receivers, Read(r)
  PROVE  IInv'
<1> USE DEF IInv
<1> DEFINE p == unread[1].pkt
<1>1. QueueInv' /\ UnreadIsIntact' /\ SendersInv'
  BY QueueKept, SendersKept, ThreadsAssumption
  DEF Read, Goto, TypeInv, TypeOK, Threads
<1>2. /\ unread # <<>> /\ 1 \in 1 .. Len(unread)
      /\ p \in Packets /\ unread[1].at \in Slots
      /\ Skip(r) \in Nat /\ ReadLen(r) \in Nat /\ ReadLen(r) >= 1
      /\ Skip(r) + ReadLen(r) = Length8(p)
      /\ Extent(unread[1]) = Length8(p) + 1 /\ Length8(p) \in Nat
  BY PeekedPacket DEF Read
<1>3. /\ readIndex \in Slots /\ unread[1].at = readIndex
      /\ Extent(unread[1]) < RingDataSize
  <2>1. readIndex \in Slots /\ writeIndex \in Slots
    BY DEF TypeInv, TypeOK
  <2>2. Start(1) + Extent(unread[1]) <= Offset(readIndex, writeIndex)
        /\ unread[1].at = readIndex
    BY <1>2 DEF QueueInv
  <2>3. Start(1) = 0
    BY <2>1, <2>2, AdvanceZero DEF Start
  <2> QED
    BY <1>2, <2>1, <2>2, <2>3, OffsetInSlots, RingDataSizeAssumption
<1>4. ASSUME NEW j \in 0 .. ReadLen(r) - 1
      PROVE  buf[Advance(Advance(readIndex, Skip(r)), j)] = Word(p, Skip(r) + j, 0)
  <2>1. j \in Nat /\ Skip(r) + j < Length8(p) /\ Skip(r) + j <= RingDataSize
        /\ Skip(r) + j \in 0 .. Extent(unread[1]) - 1
    <3>1. j \in Nat /\ j < ReadLen(r)
      BY <1>2
    <3> DEFINE skip == Skip(r)
               read == ReadLen(r)
               length == Length8(p)
               extent == Extent(unread[1])
    <3>2. /\ skip \in Nat /\ read \in Nat /\ length \in Nat
          /\ skip + read = length /\ extent = length + 1
      BY <1>2
    <3>3. extent < RingDataSize /\ RingDataSize \in Nat
      BY <1>3, RingDataSizeAssumption
    <3> HIDE DEF skip, read, length, extent
    <3>4. j < read
      BY <3>1 DEF read
    <3>5. j \in Nat /\ skip + j < length /\ skip + j <= RingDataSize
          /\ skip + j \in 0 .. extent - 1
      BY <3>1, <3>2, <3>3, <3>4
    <3> QED
      BY <3>5 DEF skip, length, extent
  <2>2. Advance(Advance(readIndex, Skip(r)), j) = Advance(readIndex, Skip(r) + j)
    BY <1>2, <1>3, <2>1, AdvanceTwice
  <2>3. buf[Advance(readIndex, Skip(r) + j)] = Word(p, Skip(r) + j, readIndex)
    BY <1>2, <1>3, <2>1 DEF UnreadIsIntact
  <2> QED
    BY <2>1, <2>2, <2>3 DEF Word
<1>5. copied'[r] = [j \in 0 .. ReadLen(r) - 1 |-> Word(p, Skip(r) + j, 0)]
  BY <1>4 DEF Read, CopyFromRingBuffer, ReceiversInv
<1>6. IsPacket(copied'[r], Skip(r), p)
  <2>1. Length8(p) - Skip(r) - 1 = ReadLen(r) - 1
    BY <1>2
  <2> QED
    BY <1>5, <2>1 DEF IsPacket
<1>7. ReceiversInv'
  <2>1. copied' = [q \in Receivers |-> copied'[q]]
    BY DEF Read, ReceiversInv
  <2>2. ASSUME NEW q \in Receivers
        PROVE  /\ pc'[q] \in ReceiverSteps
               /\ (pc'[q] # "idle") <=> (inboundLock' = q)
               /\ pc'[q] \in {"read", "advance"} =>
                    /\ unread' # <<>>
                    /\ desc'[q].pkt = unread'[1].pkt
               /\ pc'[q] = "advance" => q = r
    BY DEF ReceiversInv, Read, Goto, TypeInv, TypeOK, Threads, ReceiverSteps
  <2>3. Skip(r)' = Skip(r) /\ unread' = unread
    BY DEF Read, Skip
  <2>4. IsPacket(copied[r], Skip(r), unread[1].pkt)'
    BY <1>6, <2>3 DEF IsPacket, Word, Length8
  <2> QED
    BY <2>1, <2>2, <2>4 DEF ReceiversInv
<1> QED
  BY <1>1, <1>7

\* Consuming removes exactly the oldest packet and moves the read index to
\* the start of the next one.
LEMMA ReadAdvanceKeeps ==
  ASSUME IInv, TypeInv', NEW r \in Receivers, ReadAdvance(r)
  PROVE  IInv'
<1> USE DEF IInv
<1> DEFINE R == readIndex
           W == writeIndex
           U == Offset(readIndex, writeIndex)
           L == Len(unread)
           E == Extent(unread[1])
           start(k) == Offset(readIndex', unread'[k].at)
<1>1. /\ unread # <<>> /\ 1 \in 1 .. L
      /\ unread[1].pkt \in Packets /\ unread[1].at \in Slots
      /\ Skip(r) \in Nat /\ ReadLen(r) \in Nat
      /\ Skip(r) + ReadLen(r) + 1 = E /\ E \in Nat
  BY PeekedPacket DEF ReadAdvance
<1>2. R \in Slots /\ W \in Slots /\ unread \in Seq(Entries) /\ L \in Nat
      /\ U \in Nat /\ U < RingDataSize /\ RingDataSize \in Nat
  BY OffsetInSlots, LenProperties, RingDataSizeAssumption DEF TypeInv, TypeOK, Entries
<1>3. unread[1].at = R /\ Start(1) = 0 /\ E <= U
  <2>1. unread[1].at = R /\ Start(1) + E <= U
    BY <1>1 DEF QueueInv
  <2>2. Start(1) = 0
    BY <1>2, <2>1, AdvanceZero DEF Start
  <2> QED
    BY <1>1, <1>2, <2>1, <2>2
<1>4. readIndex' = Advance(R, E)
  <2>1. Advance(Advance(R, Skip(r)), ReadLen(r)) = Advance(R, Skip(r) + ReadLen(r))
    BY <1>1, <1>2, <1>3, AdvanceTwice
  <2>2. Skip(r) + ReadLen(r) \in Nat /\ Skip(r) + ReadLen(r) + 1 <= RingDataSize
    BY <1>1, <1>2, <1>3
  <2>3. Advance(Advance(R, Skip(r) + ReadLen(r)), 1) = Advance(R, Skip(r) + ReadLen(r) + 1)
    BY <1>2, <2>2, AdvanceTwice
  <2> QED
    BY <1>1, <2>1, <2>3 DEF ReadAdvance, TrailerLen
<1>5. Offset(readIndex', W) = U - E
  BY <1>1, <1>2, <1>3, <1>4, OffsetFromAdvanced
<1>6. /\ unread' = Tail(unread) /\ Len(unread') = L - 1
      /\ \A k \in 1 .. L - 1 : unread'[k] = unread[k + 1]
      /\ (unread' = <<>>) <=> (L = 1)
  <2>1. unread' = Tail(unread)
    BY <1>1 DEF ReadAdvance
  <2>2. /\ Tail(unread) \in Seq(Entries) /\ Len(Tail(unread)) = L - 1
        /\ \A k \in 1 .. L - 1 : Tail(unread)[k] = unread[k + 1]
    BY <1>1, <1>2, HeadTailProperties
  <2> QED
    BY <1>2, <2>1, <2>2, EmptySeq
<1>7. writeIndex' = W /\ buf' = buf
  BY DEF ReadAdvance
<1>8. ASSUME NEW k \in 1 .. L - 1
      PROVE  /\ k + 1 \in 1 .. L
             /\ start(k) = Start(k + 1) - E
             /\ Start(k + 1) \in Nat /\ Extent(unread[k + 1]) \in Nat
             /\ Extent(unread'[k]) = Extent(unread[k + 1])
  <2>1. k + 1 \in 1 .. L /\ 1 < k + 1
    BY <1>2
  <2>2. unread[k + 1].at \in Slots /\ Start(k + 1) \in Nat /\ Extent(unread[k + 1]) \in Nat
    BY <2>1, UnreadTypes DEF TypeInv
  <2>3. Start(1) + E <= Start(k + 1)
    BY <1>1, <2>1 DEF QueueInv
  <2>4. E <= Offset(R, unread[k + 1].at)
    BY <1>1, <1>3, <2>3 DEF Start
  <2>5. Offset(Advance(R, E), unread[k + 1].at) = Offset(R, unread[k + 1].at) - E
    BY <1>1, <1>2, <2>2, <2>4, OffsetFromAdvanced
  <2> QED
    BY <1>4, <1>6, <2>1, <2>2, <2>5 DEF Start
<1>9. QueueInv'
  <2>1. CASE L = 1
    <3>1. U = E
      BY <1>1, <1>3, <2>1 DEF QueueInv
    <3>2. readIndex' = writeIndex'
      BY <1>2, <1>4, <1>7, <3>1, AdvanceOffset
    <3>3. unread' = <<>> /\ Len(unread') = 0
      BY <1>6, <2>1
    <3> QED
      BY <3>2, <3>3 DEF QueueInv
  <2>2. CASE L # 1
    <3>1. 1 \in 1 .. L - 1 /\ L - 1 \in 1 .. L - 1 /\ (L - 1) + 1 = L
      <4>1. L \in Nat /\ L >= 1
        BY <1>1, <1>2
      <4> HIDE DEF L
      <4> QED
        BY <2>2, <4>1
    <3>2. unread'[1].at = readIndex'
      BY <1>3, <1>4, <1>6, <3>1 DEF QueueInv
    <3>3. start(L - 1) + Extent(unread'[L - 1]) = U - E
      <4>1. Start(L) + Extent(unread[L]) = U
        BY <1>1 DEF QueueInv
      <4>2. PICK k \in 1 .. L - 1 : k = L - 1 /\ k + 1 = L
        BY <3>1
      <4>3. Start(k + 1) + Extent(unread[k + 1]) = U
        BY <4>1, <4>2
      <4>4. start(k) + Extent(unread'[k]) = U - E
        BY <1>1, <1>2, <1>8, <4>3
      <4> QED
        BY <4>2, <4>4
    <3>4. ASSUME NEW k \in 1 .. L - 1
          PROVE  start(k) + Extent(unread'[k]) <= U - E
      <4>1. Start(k + 1) + Extent(unread[k + 1]) <= U
        BY <1>8 DEF QueueInv
      <4> QED
        BY <1>1, <1>2, <1>8, <4>1
    <3>5. ASSUME NEW k \in 1 .. L - 1, NEW l \in 1 .. L - 1, k < l
          PROVE  start(k) + Extent(unread'[k]) <= start(l)
      <4>1. k + 1 \in 1 .. L /\ l + 1 \in 1 .. L /\ k + 1 < l + 1
        BY <1>2, <3>5
      <4>2. Start(k + 1) + Extent(unread[k + 1]) <= Start(l + 1)
        BY <4>1 DEF QueueInv
      <4>3. /\ start(k) = Start(k + 1) - E /\ Start(k + 1) \in Nat
            /\ Extent(unread'[k]) = Extent(unread[k + 1])
            /\ Extent(unread[k + 1]) \in Nat
        BY <1>8
      <4>4. start(l) = Start(l + 1) - E /\ Start(l + 1) \in Nat
        BY <1>8
      <4>5. E \in Nat
        BY <1>1, <1>2
      <4> HIDE DEF start, E
      <4> QED
        BY <4>2, <4>3, <4>4, <4>5
    <3>6. ASSUME NEW k \in 1 .. L - 2
          PROVE  unread'[k + 1].at = Advance(unread'[k].at, Extent(unread'[k]))
      <4>1. k \in 1 .. L - 1 /\ k + 1 \in 1 .. L - 1
        BY <1>2
      <4> QED
        BY <1>6, <4>1 DEF QueueInv
    <3>7. QueueInv' = (/\ unread' = <<>> => readIndex' = writeIndex'
                       /\ unread' # <<>> =>
                            /\ unread'[1].at = readIndex'
                            /\ start(Len(unread')) + Extent(unread'[Len(unread')])
                                 = Offset(readIndex', writeIndex')
                       /\ \A k \in 1 .. Len(unread') :
                            start(k) + Extent(unread'[k]) <= Offset(readIndex', writeIndex')
                       /\ \A k, l \in 1 .. Len(unread') :
                            k < l => start(k) + Extent(unread'[k]) <= start(l)
                       /\ \A k \in 1 .. Len(unread') - 1 :
                            unread'[k + 1].at = Advance(unread'[k].at, Extent(unread'[k])))
      BY DEF QueueInv, Start, Offset, Extent, Advance, TotalBytesToWrite, Length8
    <3>8. Len(unread') - 1 = L - 2
      BY <1>2, <1>6
    <3> QED
      BY <1>5, <1>6, <1>7, <2>2, <3>2, <3>3, <3>4, <3>5, <3>6, <3>7, <3>8
  <2> QED
    BY <2>1, <2>2
<1>10. UnreadIsIntact'
  <2> SUFFICES ASSUME NEW k \in 1 .. L - 1, NEW j \in 0 .. Extent(unread'[k]) - 1
               PROVE  buf[Advance(unread'[k].at, j)]
                        = Word(unread'[k].pkt, j, unread'[k].at)
    BY <1>6, <1>7 DEF UnreadIsIntact, Extent, Word, Length8, TotalBytesToWrite, Advance
  <2> QED
    BY <1>6, <1>8 DEF UnreadIsIntact
<1>11. SendersInv'
  <2> SUFFICES ASSUME NEW s \in Senders, Copying(s)
               PROVE  U - E + TotalBytesToWrite(pkt[s]) < RingDataSize
    <3>1. \A s \in Senders : pc'[s] = pc[s]
      BY ThreadsAssumption
      DEF ReadAdvance, ReceiverReturns, Goto, TypeInv, TypeOK, Threads
    <3>2. pkt' = pkt /\ next' = next
      BY DEF ReadAdvance, senderVars
    <3> QED
      BY <1>5, <1>7, <3>1, <3>2
      DEF SendersInv, Copying, Done, Offset, Word, Length8, TotalBytesToWrite, Advance
  <2>1. U + TotalBytesToWrite(pkt[s]) < RingDataSize
    BY DEF SendersInv
  <2>2. TotalBytesToWrite(pkt[s]) \in Nat
    BY PacketLengths DEF TypeInv, SenderHolds, Copying
  <2> QED
    BY <1>1, <1>2, <2>1, <2>2
<1>12. ReceiversInv'
  <2>1. copied' = [q \in Receivers |-> copied'[q]]
    BY DEF ReadAdvance, ReceiverReturns, ReceiversInv
  <2>2. ASSUME NEW q \in Receivers
        PROVE  pc'[q] = "idle" /\ inboundLock' # q
    BY ThreadsAssumption
    DEF ReceiversInv, ReadAdvance, ReceiverReturns, Goto, TypeInv, TypeOK, Threads
  <2> QED
    BY <2>1, <2>2 DEF ReceiversInv, ReceiverSteps
<1> QED
  BY <1>9, <1>10, <1>11, <1>12

-----------------------------------------------------------------------------
(* The theorems.                                                           *)

LEMMA InitIInv == Init => IInv
<1> SUFFICES ASSUME Init PROVE IInv
  OBVIOUS
<1>1. TypeInv
  <2>1. 0 \in Slots
    BY RingDataSizeAssumption DEF Slots
  <2>2. TypeOK
    BY <2>1, JunkIsWord DEF Init, TypeOK, SenderSteps, ReceiverSteps, Threads
  <2>3. SenderHolds
    BY ThreadsAssumption DEF Init, SenderHolds, SenderSteps, Threads
  <2> QED
    BY <2>2, <2>3 DEF TypeInv
<1>2. SendersInv
  BY DEF Init, SendersInv, Copying, Threads
<1>3. Len(unread) = 0 /\ unread = <<>>
  BY DEF Init
<1>4. QueueInv /\ UnreadIsIntact
  BY <1>3 DEF Init, QueueInv, UnreadIsIntact
<1>5. ReceiversInv
  BY ThreadsAssumption DEF Init, ReceiversInv, ReceiverSteps, Threads
<1> QED
  BY <1>1, <1>2, <1>4, <1>5 DEF IInv

LEMMA NextIInv == IInv /\ TypeInv' /\ [Next]_vars => IInv'
<1> SUFFICES ASSUME IInv, TypeInv', [Next]_vars PROVE IInv'
  OBVIOUS
<1>1. ASSUME NEW s \in Senders, NEW p \in Packets, SendPacket(s, p) PROVE IInv'
  BY <1>1, SendPacketKeeps
<1>2. ASSUME NEW s \in Senders, SendStep(s) PROVE IInv'
  BY <1>2, RingFullKeeps, RingHasRoomKeeps, CopiesKeep, PublishKeeps DEF SendStep
<1>3. ASSUME NEW r \in Receivers, NEW n \in BufferLens, RecvPacket(r, n) PROVE IInv'
  BY <1>3, RecvPacketKeeps
<1>4. ASSUME NEW r \in Receivers, RecvStep(r) PROVE IInv'
  <2>1. CASE NothingToRead(r)
    BY <2>1, ReturnKeeps DEF NothingToRead
  <2>2. CASE BufferTooSmall(r)
    BY <2>2, ReturnKeeps DEF BufferTooSmall
  <2> QED
    BY <1>4, <2>1, <2>2, PeekKeeps, ReadKeeps, ReadAdvanceKeeps DEF RecvStep
<1>5. CASE UNCHANGED vars
  <2>1. QueueInv' /\ UnreadIsIntact' /\ SendersInv' /\ ReceiversInv'
    BY <1>5, QueueKept, SendersKept, ReceiversKept DEF IInv, vars
  <2> QED
    BY <2>1 DEF IInv
<1> QED
  BY <1>1, <1>2, <1>3, <1>4, <1>5 DEF Next

\* The inductive invariant holds of every reachable state.
THEOREM Invariant == Spec => []IInv
<1>1. Spec => []TypeInv
  BY TypeCorrect
<1> QED
  BY <1>1, InitIInv, NextIInv, PTL DEF Spec

\* The indices stay in the data area and every variable keeps its type.
THEOREM TypeOKHolds == Spec => []TypeOK
<1>1. TypeInv => TypeOK
  BY DEF TypeInv
<1> QED
  BY <1>1, TypeCorrect, PTL

\* No sender overwrites, and no reader sees half written, a word of a packet
\* that is published and not consumed.
THEOREM IntactAlways == Spec => []UnreadIsIntact
<1>1. IInv => UnreadIsIntact
  BY DEF IInv
<1> QED
  BY <1>1, Invariant, PTL

\* The distances of the invariant are what the macros of the code compute.
LEMMA TilesInIInv == IInv => UnreadTilesTheRing
<1> SUFFICES ASSUME IInv PROVE UnreadTilesTheRing
  OBVIOUS
<1>1. readIndex \in Slots /\ writeIndex \in Slots /\ Len(unread) \in Nat
  BY LenProperties DEF IInv, TypeInv, TypeOK
<1>2. BytesAvailToRead(readIndex, writeIndex) = Offset(readIndex, writeIndex)
  BY <1>1, AvailIsOffset
<1>3. CASE unread = <<>>
  BY <1>1, <1>2, <1>3, AdvanceZero DEF UnreadTilesTheRing, IInv, QueueInv, UsedWords
<1>4. CASE unread # <<>>
  <2>1. Len(unread) \in 1 .. Len(unread)
    BY <1>1, <1>4, EmptySeq DEF IInv, TypeInv, TypeOK
  <2>2. Offset(readIndex, writeIndex) = UsedWords
    BY <1>4 DEF UsedWords, Start, IInv, QueueInv
  <2>3. Offset(readIndex, writeIndex) # 0
    <3>1. /\ Start(Len(unread)) \in Nat /\ Extent(unread[Len(unread)]) \in Nat
          /\ Extent(unread[Len(unread)]) >= 4
      BY <2>1, UnreadTypes DEF IInv, TypeInv
    <3>2. Start(Len(unread)) + Extent(unread[Len(unread)])
            = Offset(readIndex, writeIndex)
      BY <1>4 DEF IInv, QueueInv
    <3> QED
      BY <3>1, <3>2
  <2>4. readIndex # writeIndex
    BY <1>1, <2>3, AdvanceZero
  <2> QED
    BY <1>2, <1>4, <2>2, <2>4 DEF UnreadTilesTheRing, IInv, QueueInv
<1> QED
  BY <1>3, <1>4

\* The unread packets fill exactly the way from the read to the write index,
\* and a ring with something in it never looks empty.
THEOREM TilesAlways == Spec => []UnreadTilesTheRing
BY TilesInIInv, Invariant, PTL

\* RecvPacket may ignore what RingBufferRead returns: after its peek the
\* whole packet and its trailer are there until the receiver consumes them.
THEOREM ReadsNeverFail == Spec => []ReadCannotFail
<1>1. IInv => ReadCannotFail
  <2> SUFFICES ASSUME IInv, NEW r \in Receivers, pc[r] \in {"read", "advance"}
               PROVE  /\ desc[r].pkt # None
                      /\ BytesAvailToRead(readIndex, writeIndex)
                           >= TotalBytesToWrite(desc[r].pkt)
    BY DEF ReadCannotFail
  <2> USE DEF IInv
  <2>1. /\ unread # <<>> /\ 1 \in 1 .. Len(unread)
        /\ unread[1].pkt \in Packets /\ unread[1].at \in Slots
        /\ desc[r].pkt = unread[1].pkt
    BY PeekedPacket DEF ReceiversInv
  <2>2. readIndex \in Slots /\ writeIndex \in Slots
    BY DEF TypeInv, TypeOK
  <2>3. unread[1].at = readIndex
    BY <2>1 DEF QueueInv
  <2>4. Start(1) = 0
    BY <2>2, <2>3, AdvanceZero DEF Start
  <2>5. Start(1) + Extent(unread[1]) <= Offset(readIndex, writeIndex)
    BY <2>1 DEF QueueInv
  <2>6. TotalBytesToWrite(unread[1].pkt) <= Offset(readIndex, writeIndex)
    BY <2>1, <2>4, <2>5, PacketLengths DEF Extent
  <2>7. /\ BytesAvailToRead(readIndex, writeIndex) = Offset(readIndex, writeIndex)
        /\ Offset(readIndex, writeIndex) \in Nat
    BY <2>2, AvailIsOffset, OffsetInSlots
  <2> QED
    BY <2>1, <2>6, <2>7, PacketLengths
<1> QED
  BY <1>1, Invariant, PTL

\* Every return of the two calls, the failing ones included, gives the lock
\* back, for any number of threads on each side.
THEOREM LocksAreGivenBack == Spec => []LockedWhileInside
<1>1. IInv => LockedWhileInside
  BY DEF IInv, TypeInv, SenderHolds, ReceiversInv, LockedWhileInside
<1> QED
  BY <1>1, Invariant, PTL

\* A packet is turned away only when it does not fit behind the unread ones.
THEOREM RefusalsAreJustified == Spec => RefusedOnlyWhenFull
<1>1. IInv /\ [Next]_vars =>
        [\A s \in Senders : RingFull(s) =>
           UsedWords + TotalBytesToWrite(pkt[s]) >= RingDataSize]_vars
  <2> SUFFICES ASSUME IInv, NEW s \in Senders, RingFull(s)
               PROVE  UsedWords + TotalBytesToWrite(pkt[s]) >= RingDataSize
    OBVIOUS
  <2>1. UnreadTilesTheRing
    BY TilesInIInv
  <2>2. readIndex \in Slots /\ writeIndex \in Slots /\ pkt[s] \in Packets
    BY DEF IInv, TypeInv, TypeOK, SenderHolds, RingFull
  <2>3. /\ BytesAvailToRead(readIndex, writeIndex) = Offset(readIndex, writeIndex)
        /\ BytesAvailToWrite(readIndex, writeIndex)
             = RingDataSize - Offset(readIndex, writeIndex)
        /\ Offset(readIndex, writeIndex) \in Nat
    BY <2>2, AvailIsOffset, OffsetInSlots
  <2>4. UsedWords = Offset(readIndex, writeIndex)
    BY <2>1, <2>3 DEF UnreadTilesTheRing
  <2>5. ~(RingDataSize - Offset(readIndex, writeIndex) > TotalBytesToWrite(pkt[s]))
    BY <2>3 DEF RingFull, Fits
  <2> QED
    BY <2>2, <2>3, <2>4, <2>5, PacketLengths, RingDataSizeAssumption
<1> QED
  BY <1>1, Invariant, PTL DEF Spec, RefusedOnlyWhenFull

-----------------------------------------------------------------------------
(* The refinement of the packet queue.                                     *)

Abs == [k \in 1 .. Len(unread) |-> unread[k].pkt]

LEMMA AbsIsSeq ==
  ASSUME TypeInv
  PROVE  Abs \in Seq(Packets) /\ Len(Abs) = Len(unread)
<1>1. Len(unread) \in Nat /\ unread \in [1 .. Len(unread) -> [pkt : Packets, at : Slots]]
  BY LenProperties DEF TypeInv, TypeOK
<1>2. Abs \in [1 .. Len(unread) -> Packets]
  BY <1>1 DEF Abs
<1>3. Abs \in Seq(Packets)
  BY <1>1, <1>2, SeqDef
<1> QED
  BY <1>1, <1>2, <1>3, LenProperties

\* The words of a packet, descriptor skipped or not, tell which one it is.
LEMMA DecodeIsIt ==
  ASSUME NEW ws, NEW p \in Packets, NEW first \in Nat, first < Length8(p),
         IsPacket(ws, first, p)
  PROVE  Decode(ws, first) = p
<1>1. 0 \in DOMAIN ws /\ ws[0].pkt = p
  BY PacketLengths DEF IsPacket, Word
<1>2. ASSUME NEW q \in Packets, IsPacket(ws, first, q) PROVE q = p
  <2>1. 0 \in 0 .. Length8(q) - first - 1
    BY <1>1, <1>2 DEF IsPacket
  <2>2. ws[0] = Word(q, first + 0, 0)
    BY <1>2, <2>1 DEF IsPacket
  <2> QED
    BY <1>1, <2>2 DEF Word
<1> QED
  BY <1>2 DEF Decode

\* A publication sends the sender's packet.
LEMMA PublishSends ==
  ASSUME IInv, NEW s \in Senders, Publish(s)
  PROVE  Abs' = Append(Abs, pkt[s]) /\ got' = got /\ pkt[s] \in Packets
<1>1. unread \in Seq([pkt : Packets, at : Slots]) /\ Len(unread) \in Nat
  BY LenProperties DEF IInv, TypeInv, TypeOK
<1>2. pkt[s] \in Packets /\ writeIndex \in Slots
  BY DEF IInv, TypeInv, TypeOK, SenderHolds, Publish
<1> DEFINE u == [pkt |-> pkt[s], at |-> writeIndex]
<1>3. u \in [pkt : Packets, at : Slots]
  BY <1>2
<1>4. /\ unread' = Append(unread, u)
      /\ Len(unread') = Len(unread) + 1
      /\ \A k \in 1 .. Len(unread) : unread'[k] = unread[k]
      /\ unread'[Len(unread) + 1] = u
  BY <1>1, <1>3, AppendProperties DEF Publish
<1>5. Abs \in Seq(Packets) /\ Len(Abs) = Len(unread)
  BY AbsIsSeq DEF IInv
<1>6. /\ Append(Abs, pkt[s]) \in Seq(Packets)
      /\ Len(Append(Abs, pkt[s])) = Len(unread) + 1
      /\ \A k \in 1 .. Len(unread) : Append(Abs, pkt[s])[k] = Abs[k]
      /\ Append(Abs, pkt[s])[Len(unread) + 1] = pkt[s]
  BY <1>2, <1>5, AppendProperties
<1>7. Abs' = [k \in 1 .. Len(unread) + 1 |-> unread'[k].pkt]
  BY <1>4 DEF Abs
<1>8. Append(Abs, pkt[s]) = [k \in 1 .. Len(unread) + 1 |-> Append(Abs, pkt[s])[k]]
  BY <1>6
<1>9. ASSUME NEW k \in 1 .. Len(unread) + 1
      PROVE  unread'[k].pkt = Append(Abs, pkt[s])[k]
  <2>1. CASE k = Len(unread) + 1
    BY <2>1, <1>4, <1>6
  <2>2. CASE k # Len(unread) + 1
    <3>1. k \in 1 .. Len(unread)
      BY <1>1, <2>2
    <3> QED
      BY <3>1, <1>4, <1>6 DEF Abs
  <2> QED
    BY <2>1, <2>2
<1> QED
  BY <1>2, <1>7, <1>8, <1>9 DEF Publish, receiverVars

\* Consuming a packet receives the oldest one, whole.
LEMMA ReadAdvanceReceives ==
  ASSUME IInv, NEW r \in Receivers, ReadAdvance(r)
  PROVE  /\ Abs # <<>>
         /\ Abs' = Tail(Abs)
         /\ got' = [got EXCEPT ![r] = Head(Abs)]
<1>1. /\ unread # <<>> /\ 1 \in 1 .. Len(unread)
      /\ unread[1].pkt \in Packets
      /\ Skip(r) \in Nat /\ ReadLen(r) \in Nat /\ ReadLen(r) >= 1
      /\ Skip(r) + ReadLen(r) = Length8(unread[1].pkt)
  BY PeekedPacket DEF IInv, ReadAdvance
<1>2. unread \in Seq([pkt : Packets, at : Slots]) /\ Len(unread) \in Nat
  BY LenProperties DEF IInv, TypeInv, TypeOK
<1>3. Abs \in Seq(Packets) /\ Len(Abs) = Len(unread)
  BY AbsIsSeq DEF IInv
<1>4. Abs # <<>> /\ Head(Abs) = unread[1].pkt
  BY <1>1, <1>2, <1>3 DEF Abs
<1>5. Decode(copied[r], Skip(r)) = unread[1].pkt
  <2>1. IsPacket(copied[r], Skip(r), unread[1].pkt)
    BY DEF IInv, ReceiversInv, ReadAdvance
  <2>2. Skip(r) < Length8(unread[1].pkt)
    BY <1>1
  <2> QED
    BY <1>1, <2>1, <2>2, DecodeIsIt
<1>6. /\ unread' = Tail(unread) /\ Len(unread') = Len(unread) - 1
      /\ \A k \in 1 .. Len(unread) - 1 : unread'[k] = unread[k + 1]
  <2>1. unread' = Tail(unread)
    BY <1>1 DEF ReadAdvance
  <2> QED
    BY <1>1, <1>2, <2>1, HeadTailProperties
<1>7. /\ Tail(Abs) \in Seq(Packets) /\ Len(Tail(Abs)) = Len(unread) - 1
      /\ \A k \in 1 .. Len(unread) - 1 : Tail(Abs)[k] = Abs[k + 1]
  BY <1>3, <1>4, HeadTailProperties
<1>8. Abs' = [k \in 1 .. Len(unread) - 1 |-> unread'[k].pkt]
  BY <1>6 DEF Abs
<1>9. Tail(Abs) = [k \in 1 .. Len(unread) - 1 |-> Tail(Abs)[k]]
  BY <1>7, LenProperties
<1>10. ASSUME NEW k \in 1 .. Len(unread) - 1
       PROVE  unread'[k].pkt = Tail(Abs)[k]
  <2>1. k + 1 \in 1 .. Len(unread)
    BY <1>2
  <2> QED
    BY <1>6, <1>7, <2>1 DEF Abs
<1> QED
  BY <1>4, <1>5, <1>8, <1>9, <1>10 DEF ReadAdvance

\* The ring buffer implements the packet queue: publishing is sending,
\* consuming is receiving, and every other step of both calls, the refusals
\* included, changes nothing a caller could see.
THEOREM RingImplementsQueue == Spec => IsPacketQueue
<1>1. Init => Queue!Init
  <2> SUFFICES ASSUME Init PROVE Queue!Init
    OBVIOUS
  <2>1. Abs = <<>>
    BY DEF Init, Abs
  <2> QED
    BY <2>1 DEF Init, Queue!Init, Abs
<1>2. IInv /\ [Next]_vars => [Queue!Next]_Queue!qvars
  <2> SUFFICES ASSUME IInv, [Next]_vars
               PROVE  Queue!Next \/ UNCHANGED <<Abs, got>>
    BY DEF Queue!qvars, Abs
  <2>1. ASSUME UNCHANGED <<unread, got>> PROVE UNCHANGED <<Abs, got>>
    BY <2>1 DEF Abs
  <2>2. ASSUME NEW s \in Senders, Publish(s) PROVE Queue!Next
    BY <2>2, PublishSends DEF Queue!Next, Queue!Send, Abs
  <2>3. ASSUME NEW r \in Receivers, ReadAdvance(r) PROVE Queue!Next
    BY <2>3, ReadAdvanceReceives DEF Queue!Next, Queue!Receive, Abs
  <2>4. ASSUME NEW s \in Senders,
               \/ \E p \in Packets : SendPacket(s, p)
               \/ SendStep(s) /\ ~ Publish(s)
        PROVE  UNCHANGED <<unread, got>>
    BY <2>4 DEF SendPacket, SendStep, RingFull, RingHasRoom, CopyDescriptor,
                CopyPayload, CopyTrailer, Copy, receiverVars
  <2>5. ASSUME NEW r \in Receivers,
               \/ \E n \in BufferLens : RecvPacket(r, n)
               \/ RecvStep(r) /\ ~ ReadAdvance(r)
        PROVE  UNCHANGED <<unread, got>>
    BY <2>5 DEF RecvPacket, RecvStep, NothingToRead, Peek, BufferTooSmall, Read
  <2>6. CASE UNCHANGED vars
    BY <2>1, <2>6 DEF vars, receiverVars
  <2> QED
    BY <2>1, <2>2, <2>3, <2>4, <2>5, <2>6 DEF Next
<1> QED
  BY <1>1, <1>2, Invariant, PTL DEF Spec, IsPacketQueue, Queue!Spec
=============================================================================
