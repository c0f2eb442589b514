----------------------------- MODULE NetVscRecvMC -----------------------------
(* Four receive packets for two transfers of one range and one of two: with  *)
(* two callbacks, and a packet the upper layers keep, a transfer finds all,  *)
(* part, or nothing of what it needs.                                        *)
EXTENDS NetVscRecv, TLC

CONSTANTS t1, t2, t3

MCTransfers == {t1, t2, t3}
MCRanges == t1 :> 1 @@ t2 :> 1 @@ t3 :> 2
=============================================================================
