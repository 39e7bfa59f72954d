------------------------------- MODULE DspLinkMC -------------------------------
(***************************************************************************)
(* DspLink with messages of two bytes: a message has a first byte, a last   *)
(* byte and none between, and a cut falls before, inside or behind one.    *)
(***************************************************************************)
EXTENDS DspLink
=============================================================================
