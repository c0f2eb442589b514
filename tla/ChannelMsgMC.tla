----------------------------- MODULE ChannelMsgMC -----------------------------
(* Interchangeable channels for the safety runs. *)
EXTENDS ChannelMsg, TLC

Symmetry == Permutations(Channels)
=============================================================================
