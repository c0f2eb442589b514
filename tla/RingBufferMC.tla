---------------------------- MODULE RingBufferMC ----------------------------
(* Values for the constants of RingBuffer: a ring of twelve words, so      *)
(* that two packets fit, three small ones would fill it exactly and most    *)
(* packets wrap around somewhere.                                          *)
EXTENDS RingBuffer, TLC

\* "small" and "long" are in-band packets, "direct" one with a page range in
\* its descriptor (SendPacketPageBuffer), "huge" one that never fits.
MCDescLen == [small |-> 2, long |-> 2, direct |-> 3, huge |-> 2]
MCPayloadLen == [small |-> 1, long |-> 2, direct |-> 1, huge |-> 10]
=============================================================================
