-------------------------- MODULE WatermarkStoreMC --------------------------
(***************************************************************************)
(* WatermarkStore on a small part: two pages, three watermarks of which    *)
(* one straddles the pages, as the real ones do.                           *)
(***************************************************************************)
EXTENDS WatermarkStore

(* An ordinary watermark, one with ID 65535, and one that reads as erased. *)
SomeMarks == {<<0, 1, 0>>, <<Blank, 1, Blank>>, <<Blank, Blank, 1>>}

(* The sizes of usr_flash.h, in half-words. *)
RealPage   == 2048 \div 2
RealArea   == 10 * RealPage
RealHeader == (10 + 4) \div 2
RealMark   == (2 + 12) \div 2

(* The real area, filled, leaves one half-word less than a watermark; so    *)
(* does the small one; and a watermark straddles two pages in both.         *)
ASSUME RealAlignment ==
  /\ (RealArea - RealHeader) % RealMark = RealMark - 1
  /\ (RealPage - RealHeader) % RealMark # 0

ASSUME SmallAlignment ==
  /\ (Area - HdrLen) % WmLen = WmLen - 1
  /\ (PageLen - HdrLen) % WmLen # 0
=============================================================================
