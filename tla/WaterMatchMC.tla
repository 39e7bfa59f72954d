---------------------------- MODULE WaterMatchMC ----------------------------
(***************************************************************************)
(* WaterMatch with watermarks of two bits, of which one must agree, so     *)
(* that some halves agree equally well with watermarks of different IDs.   *)
(***************************************************************************)
EXTENDS WaterMatch

Mark(n, a, b) == [id |-> n, pattern |-> <<a, b>>]

SomeMarks == {Mark(0, 0, 0), Mark(1, 0, 1)}
TornMarks == {Mark(1, 1, 1)}
OneMark   == {Mark(1, 0, 1)}

(* FrameNum wraps to exactly 0 after 16384 halves; WaterMatch.cfg keeps     *)
(* that, after three.  No list is so long that an index comes round again.  *)
ASSUME RealWrap == (100 * 16384) % 65536 = 0
ASSUME SmallList == MaxMarks <= 2 * IndexLimit
=============================================================================
