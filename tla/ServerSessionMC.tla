---------------------------- MODULE ServerSessionMC ----------------------------
(***************************************************************************)
(* ServerSession with one slot, which is closed, reset, timed out, killed   *)
(* and reused.  Three records fit and GetRecord reaches two; an answer of  *)
(* two and END, with what is still unacknowledged and what is pushed, can  *)
(* fill the queue; and a connection that times out leaves its slot room    *)
(* for three pushes, one more than two segments need.                      *)
(***************************************************************************)
EXTENDS ServerSession

(* TCP_SND_QUEUELEN of lwipopts.h; /updrecord can exceed it.                *)
RealQueueLen == (6 * 2 * (1500 - 40)) \div (1500 - 40)
ASSUME RealReply == RealQueueLen = 12 /\ RealQueueLen < (10 * 1024 - 7 - 1) \div 4
=============================================================================
