----------------------------- MODULE RingBuffer -----------------------------
(***************************************************************************)
(* One direction of a VMBus channel: the ring shared by the guest and the  *)
(* host (vmbus/hv_ring_buffer.c) together with the send and receive calls  *)
(* of vmbus/hv_channel.c that go through it.                               *)
(*                                                                         *)
(* The guest is the only writer of an outbound ring and the only reader of *)
(* an inbound one; the host runs the other end.  Senders are the threads   *)
(* that run RingBufferWrite, Receivers those that run                      *)
(* VmbusChannelRecvPacket(Raw).  The two ends share the two indices and    *)
(* the data, and no lock.                                                  *)
(*                                                                         *)
(* The unit is a word of 8 bytes: packets are padded to 8 bytes and the    *)
(* data area is whole pages, so no index is ever inside a word.            *)
(***************************************************************************)
EXTENDS Integers, Sequences

CONSTANTS
  RingDataSize,  \* words in the data area
  Senders,
  Receivers,
  RawReceivers,  \* receivers that call RecvPacketRaw; the others RecvPacket
  Packets,
  DescLen,       \* DescLen[p]: descriptor words of p (DataOffset8)
  PayloadLen,    \* PayloadLen[p]: padded payload words of p
  BufferLens,    \* the buffer sizes receivers pass
  None           \* no thread, no packet

PeekLen == 2     \* sizeof(VMPACKET_DESCRIPTOR), what Peek copies
TrailerLen == 1  \* the previous indices, one UINT64 behind every packet

Length8(p) == DescLen[p] + PayloadLen[p]
TotalBytesToWrite(p) == Length8(p) + TrailerLen

ASSUME RingDataSizeAssumption == RingDataSize \in Nat \ {0}
ASSUME ThreadsAssumption ==
  /\ Senders \cap Receivers = {}
  /\ RawReceivers \subseteq Receivers
  /\ None \notin Senders \cup Receivers
ASSUME PacketsAssumption ==
  /\ None \notin Packets
  /\ \A p \in Packets :
       /\ DescLen[p] \in Nat /\ DescLen[p] >= PeekLen
       /\ PayloadLen[p] \in Nat \ {0}
ASSUME BufferLensAssumption == BufferLens \subseteq Nat

VARIABLES
  buf,         \* the words of the data area
  readIndex,   \* RING_BUFFER.ReadIndex
  writeIndex,  \* RING_BUFFER.WriteIndex
  ringLock,    \* the sender inside RingBufferWrite, or None
  inboundLock, \* the receiver inside RecvPacket, or None
  pc,
  pkt,         \* pkt[s]: the packet s is writing
  next,        \* next[s]: nextWriteLocation of s
  bufferLen,   \* bufferLen[r]: size of the buffer r passed
  desc,        \* desc[r]: the descriptor word r peeked
  copied,      \* copied[r]: the words r copied out
  unread,      \* history: published packets not consumed, with their slot
  got          \* history: got[r], the packet r last returned to its caller

ring == <<buf, readIndex, writeIndex>>
senderVars == <<ringLock, pkt, next>>
receiverVars == <<inboundLock, bufferLen, desc, copied, got>>
vars == <<ring, senderVars, receiverVars, pc, unread>>

Threads == Senders \cup Receivers
Slots == 0 .. RingDataSize - 1
SenderSteps == {"idle", "avail", "desc", "payload", "trailer", "publish"}
ReceiverSteps == {"idle", "peek", "read", "advance"}

-----------------------------------------------------------------------------
(* Index arithmetic and copies.                                            *)

\* Broken: takes equal indices for a full ring.
BytesAvailToWriteStrict(r, w) ==
  IF w > r THEN RingDataSize - (w - r) ELSE r - w

BytesAvailToWrite(r, w) ==
  IF w >= r THEN RingDataSize - (w - r) ELSE r - w
BytesAvailToRead(r, w) == RingDataSize - BytesAvailToWrite(r, w)

\* Broken: wraps only past the end, not at it.
AdvanceLate(i, n) == IF i + n > RingDataSize THEN i + n - RingDataSize ELSE i + n

Advance(i, n) == (i + n) % RingDataSize

\* How far slot i lies behind slot start, going up and around.
Offset(start, i) == IF i >= start THEN i - start ELSE RingDataSize - start + i

\* Word j of packet p; the trailer holds the index the packet starts at.
Word(p, j, start) ==
  [pkt |-> p, off |-> j, prev |-> IF j < Length8(p) THEN 0 ELSE start]
Words == [pkt : Packets \cup {None}, off : Nat, prev : Nat]
Junk == [pkt |-> None, off |-> 0, prev |-> 0]

\* Broken: loses the fragment that wraps around.
CopyWithoutWrap(start, p, first, len) ==
  buf' = [i \in Slots |->
            IF i >= start /\ i < start + len
            THEN Word(p, first + (i - start), writeIndex)
            ELSE buf[i]]

\* Words first .. first+len-1 of packet p go to the slots from start on.
CopyToRingBuffer(start, p, first, len) ==
  buf' = [i \in Slots |->
            IF Offset(start, i) < len
            THEN Word(p, first + Offset(start, i), writeIndex)
            ELSE buf[i]]

CopyFromRingBuffer(start, len) ==
  [j \in 0 .. len - 1 |-> buf[Advance(start, j)]]

\* What the receiver takes the packet it peeked to be: its total length and
\* the words the call skips (none for RecvPacketRaw).  A word that starts no
\* packet announces nothing.
DescLength(w) == IF w.pkt = None THEN 0 ELSE Length8(w.pkt)
Skip(r) == IF r \in RawReceivers \/ desc[r].pkt = None
           THEN 0 ELSE DescLen[desc[r].pkt]
ReadLen(r) == DescLength(desc[r]) - Skip(r)

\* ws holds the words of p from word first to the last payload word.
IsPacket(ws, first, p) ==
  ws = [j \in 0 .. Length8(p) - first - 1 |-> Word(p, first + j, 0)]

\* The packet a receiver hands its caller; None if what it copied is torn.
Decode(ws, first) ==
  IF \E p \in Packets : IsPacket(ws, first, p)
  THEN CHOOSE p \in Packets : IsPacket(ws, first, p)
  ELSE None

-----------------------------------------------------------------------------
(* RingBufferInit                                                          *)

Init ==
  /\ buf = [i \in Slots |-> Junk]
  /\ readIndex = 0 /\ writeIndex = 0
  /\ ringLock = None /\ inboundLock = None
  /\ pc = [t \in Threads |-> "idle"]
  /\ pkt = [s \in Senders |-> None]
  /\ next = [s \in Senders |-> 0]
  /\ bufferLen = [r \in Receivers |-> 0]
  /\ desc = [r \in Receivers |-> Junk]
  /\ copied = [r \in Receivers |-> <<>>]
  /\ unread = <<>>
  /\ got = [r \in Receivers |-> None]

Goto(t, l) == pc' = [pc EXCEPT ![t] = l]

\* Returning releases the lock and ends the life of the call's locals.
SenderReturns(s) ==
  /\ ringLock' = None
  /\ pkt' = [pkt EXCEPT ![s] = None]
  /\ next' = [next EXCEPT ![s] = 0]
  /\ Goto(s, "idle")

ReceiverReturns(r) ==
  /\ inboundLock' = None
  /\ bufferLen' = [bufferLen EXCEPT ![r] = 0]
  /\ desc' = [desc EXCEPT ![r] = Junk]
  /\ copied' = [copied EXCEPT ![r] = <<>>]
  /\ Goto(r, "idle")

-----------------------------------------------------------------------------
(* RingBufferWrite, called by VmbusChannelSendPacket and its variants.     *)

SendPacket(s, p) ==
  /\ pc[s] = "idle"
  /\ ringLock = None
  /\ ringLock' = s
  /\ pkt' = [pkt EXCEPT ![s] = p]
  /\ Goto(s, "avail")
  /\ UNCHANGED <<ring, next, receiverVars, unread>>

\* Broken: fills the ring to the last word.
FitsExactly(s) ==
  BytesAvailToWrite(readIndex, writeIndex) >= TotalBytesToWrite(pkt[s])

Fits(s) == BytesAvailToWrite(readIndex, writeIndex) > TotalBytesToWrite(pkt[s])

\* Broken: returns with the lock held.
RingFullKeepingLock(s) ==
  /\ pc[s] = "avail"
  /\ ~ Fits(s)
  /\ pkt' = [pkt EXCEPT ![s] = None]
  /\ Goto(s, "idle")
  /\ UNCHANGED <<ring, ringLock, next, receiverVars, unread>>

\* return -1
RingFull(s) ==
  /\ pc[s] = "avail"
  /\ ~ Fits(s)
  /\ SenderReturns(s)
  /\ UNCHANGED <<ring, receiverVars, unread>>

RingHasRoom(s) ==
  /\ pc[s] = "avail"
  /\ Fits(s)
  /\ next' = [next EXCEPT ![s] = writeIndex]
  /\ Goto(s, "desc")
  /\ UNCHANGED <<ring, ringLock, pkt, receiverVars, unread>>

\* One CopyToRingBuffer call: words first .. first+len-1 of the packet.
Copy(s, from, to, first, len) ==
  /\ pc[s] = from
  /\ CopyToRingBuffer(next[s], pkt[s], first, len)
  /\ next' = [next EXCEPT ![s] = Advance(@, len)]
  /\ Goto(s, to)
  /\ UNCHANGED <<readIndex, writeIndex, ringLock, pkt, receiverVars, unread>>

CopyDescriptor(s) == Copy(s, "desc", "payload", 0, DescLen[pkt[s]])
CopyPayload(s) ==
  Copy(s, "payload", "trailer", DescLen[pkt[s]], PayloadLen[pkt[s]])
CopyTrailer(s) == Copy(s, "trailer", "publish", Length8(pkt[s]), TrailerLen)

Publish(s) ==
  /\ pc[s] = "publish"
  /\ writeIndex' = next[s]
  /\ unread' = Append(unread, [pkt |-> pkt[s], at |-> writeIndex])
  /\ SenderReturns(s)
  /\ UNCHANGED <<buf, readIndex, receiverVars>>

-----------------------------------------------------------------------------
(* VmbusChannelRecvPacket and VmbusChannelRecvPacketRaw.                   *)

\* Broken: peeks without InboundLock.
RecvPacketUnlocked(r, len) ==
  /\ pc[r] = "idle"
  /\ inboundLock' = r
  /\ bufferLen' = [bufferLen EXCEPT ![r] = len]
  /\ Goto(r, "peek")
  /\ UNCHANGED <<ring, senderVars, desc, copied, got, unread>>

RecvPacket(r, len) ==
  /\ pc[r] = "idle"
  /\ inboundLock = None
  /\ inboundLock' = r
  /\ bufferLen' = [bufferLen EXCEPT ![r] = len]
  /\ Goto(r, "peek")
  /\ UNCHANGED <<ring, senderVars, desc, copied, got, unread>>

\* RingBufferPeek fails: the call returns 0 and no packet.
NothingToRead(r) ==
  /\ pc[r] = "peek"
  /\ BytesAvailToRead(readIndex, writeIndex) < PeekLen
  /\ ReceiverReturns(r)
  /\ UNCHANGED <<ring, senderVars, got, unread>>

Peek(r) ==
  /\ pc[r] = "peek"
  /\ BytesAvailToRead(readIndex, writeIndex) >= PeekLen
  /\ desc' = [desc EXCEPT ![r] = buf[readIndex]]
  /\ Goto(r, "read")
  /\ UNCHANGED <<ring, senderVars, inboundLock, bufferLen, copied, got, unread>>

\* return -1 or -2; the packet stays in the ring.
BufferTooSmall(r) ==
  /\ pc[r] = "read"
  /\ ReadLen(r) > bufferLen[r]
  /\ ReceiverReturns(r)
  /\ UNCHANGED <<ring, senderVars, got, unread>>

\* RingBufferRead's own check: against the words it returns, not against
\* those it consumes.
ReadAvail(r) == BytesAvailToRead(readIndex, writeIndex) >= ReadLen(r)

\* RingBufferRead up to its copies.  RecvPacket drops its result, so a
\* failing ReadAvail would end the call with 0 and an unfilled buffer;
\* ReadCannotFail says that branch is dead.
Read(r) ==
  /\ pc[r] = "read"
  /\ ReadLen(r) <= bufferLen[r]
  /\ ReadAvail(r)
  /\ copied' = [copied EXCEPT
       ![r] = CopyFromRingBuffer(Advance(readIndex, Skip(r)), ReadLen(r))]
  /\ Goto(r, "advance")
  /\ UNCHANGED <<ring, senderVars, inboundLock, bufferLen, desc, got, unread>>

\* Broken: forgets the descriptor the call skipped.
ReadAdvanceNoSkip(r) ==
  /\ pc[r] = "advance"
  /\ readIndex' = Advance(Advance(readIndex, ReadLen(r)), TrailerLen)
  /\ got' = [got EXCEPT ![r] = Decode(copied[r], Skip(r))]
  /\ unread' = IF unread = <<>> THEN <<>> ELSE Tail(unread)
  /\ ReceiverReturns(r)
  /\ UNCHANGED <<buf, writeIndex, senderVars>>

\* The read index moves over the words skipped, those read and the trailer.
ReadAdvance(r) ==
  /\ pc[r] = "advance"
  /\ readIndex' = Advance(Advance(Advance(readIndex, Skip(r)), ReadLen(r)), TrailerLen)
  /\ got' = [got EXCEPT ![r] = Decode(copied[r], Skip(r))]
  /\ unread' = IF unread = <<>> THEN <<>> ELSE Tail(unread)
  /\ ReceiverReturns(r)
  /\ UNCHANGED <<buf, writeIndex, senderVars>>

-----------------------------------------------------------------------------
SendStep(s) ==
  \/ RingFull(s)
  \/ RingHasRoom(s)
  \/ CopyDescriptor(s)
  \/ CopyPayload(s)
  \/ CopyTrailer(s)
  \/ Publish(s)

RecvStep(r) ==
  \/ NothingToRead(r)
  \/ Peek(r)
  \/ BufferTooSmall(r)
  \/ Read(r)
  \/ ReadAdvance(r)

Next ==
  \/ \E s \in Senders : (\E p \in Packets : SendPacket(s, p)) \/ SendStep(s)
  \/ \E r \in Receivers : (\E n \in BufferLens : RecvPacket(r, n)) \/ RecvStep(r)

Spec == Init /\ [][Next]_vars

-----------------------------------------------------------------------------
(* Properties.                                                             *)

\* Every variable keeps its type; in particular both shared indices stay
\* inside the data area, as the ASSERTs of GetNextWriteLocation and
\* GetNextReadLocation demand.
TypeOK ==
  /\ buf \in [Slots -> Words]
  /\ readIndex \in Slots /\ writeIndex \in Slots
  /\ ringLock \in Senders \cup {None}
  /\ inboundLock \in Receivers \cup {None}
  /\ pc \in [Threads -> SenderSteps \cup ReceiverSteps]
  /\ pkt \in [Senders -> Packets \cup {None}]
  /\ next \in [Senders -> Slots]
  /\ bufferLen \in [Receivers -> BufferLens \cup {0}]
  /\ desc \in [Receivers -> Words]
  /\ unread \in Seq([pkt : Packets, at : Slots])
  /\ got \in [Receivers -> Packets \cup {None}]

Extent(u) == TotalBytesToWrite(u.pkt)

\* The words of the unread packets, by the history rather than the indices.
UsedWords ==
  IF unread = <<>> THEN 0
  ELSE LET last == unread[Len(unread)]
       IN  Offset(readIndex, last.at) + Extent(last)

\* The unread packets lie back to back from the read index to the write
\* index, and the two indices meet only when nothing is unread: a ring that
\* RingBufferWrite filled up never reads as an empty one, which is what the
\* strict test there is for.
UnreadTilesTheRing ==
  /\ (unread = <<>>) <=> (readIndex = writeIndex)
  /\ BytesAvailToRead(readIndex, writeIndex) = UsedWords
  /\ unread # <<>> => unread[1].at = readIndex
  /\ \A k \in 1 .. Len(unread) - 1 :
       unread[k + 1].at = Advance(unread[k].at, Extent(unread[k]))

\* Every word of every unread packet is still the one its sender wrote,
\* trailer included: no sender, at any point of its copies, reaches a slot
\* the receiver has not released, and nothing is published half written.
UnreadIsIntact ==
  \A k \in 1 .. Len(unread) : \A j \in 0 .. Extent(unread[k]) - 1 :
    buf[Advance(unread[k].at, j)] = Word(unread[k].pkt, j, unread[k].at)

\* A receiver between its peek and its read has the whole packet and its
\* trailer in the ring, so the RingBufferRead whose result RecvPacket ignores
\* cannot fail, although it checks for less than it consumes.
ReadCannotFail ==
  \A r \in Receivers : pc[r] \in {"read", "advance"} =>
    /\ desc[r].pkt # None
    /\ BytesAvailToRead(readIndex, writeIndex) >= TotalBytesToWrite(desc[r].pkt)

\* RingBufferWrite turns a packet away only when it really does not fit
\* behind the unread ones with one word to spare.
RefusedOnlyWhenFull ==
  [][\A s \in Senders : RingFull(s) =>
       UsedWords + TotalBytesToWrite(pkt[s]) >= RingDataSize]_vars

\* The detailed ring is a first-in first-out queue of whole packets: each is
\* handed to exactly one receiver, unaltered and in the order of publication.
Queue == INSTANCE PacketQueue
           WITH queue <- [k \in 1 .. Len(unread) |-> unread[k].pkt]
IsPacketQueue == Queue!Spec

\* A lock belongs to a thread exactly while that thread is inside its call:
\* every return, the failing ones included, gives the lock back, and of two
\* threads that would write, or read, only one is inside.
LockedWhileInside ==
  /\ \A s \in Senders : pc[s] # "idle" <=> ringLock = s
  /\ \A r \in Receivers : pc[r] # "idle" <=> inboundLock = r
=============================================================================
