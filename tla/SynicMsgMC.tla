------------------------------ MODULE SynicMsgMC ------------------------------
(* Five messages, the second of a type nobody handles: enough for the slot  *)
(* to be refilled directly, through the queue and by a rescan that leaves   *)
(* more behind it, with two work items in the queue.                        *)
EXTENDS SynicMsg

MCUnhandled == {2}
=============================================================================
