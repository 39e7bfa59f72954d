----------------------------- MODULE WatermarkList -----------------------------
(***************************************************************************)
(* What the watermark area promises the readers of WMFlag.WM_Data_Num and  *)
(* GetWM: a list of watermarks that grows at its end, is emptied as one    *)
(* step, and that a restart keeps.  A restart may add the one watermark    *)
(* whose write the power failure cut short.                                *)
(***************************************************************************)
EXTENDS Naturals, Sequences

CONSTANTS
  Mark,      \* what a slot of the area can read as
  Offered,   \* what WriteWM is asked to store
  Capacity   \* watermarks that fit; WriteWM refuses the next one

VARIABLE list

ListInit == list = <<>>

Add(wm) == Len(list) < Capacity /\ list' = Append(list, wm)

Erase == list' = <<>>

Restart ==
  \/ UNCHANGED list
  \/ \E torn \in Mark : Add(torn)

Command == (\E wm \in Offered : Add(wm)) \/ Erase

ListNext == Command \/ Restart

ListSpec == ListInit /\ [][ListNext]_list
=============================================================================
