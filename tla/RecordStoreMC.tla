--------------------------- MODULE RecordStoreMC ---------------------------
(***************************************************************************)
(* RecordStore, and the log it implements, on a small part: pages of four  *)
(* half-words and a log of up to three records that straddle them, as the  *)
(* real ones do.                                                           *)
(***************************************************************************)
EXTENDS RecordStoreLog

(* The sizes of usr_flash.h, in half-words. *)
RealPage   == 2048 \div 2
RealArea   == 10 * RealPage
RealHeader == (10 + 4) \div 2

(* The real area, filled, ends in one half-word that no record uses; so     *)
(* does the small one.                                                      *)
ASSUME RealAlignment ==
  /\ (RealArea - RealHeader) % RecLen = 1
  /\ RealHeader < RealPage

ASSUME SmallAlignment == (Area - HdrLen) % RecLen = 1
=============================================================================
