---------------------------- MODULE GprsUploadMC ----------------------------
(***************************************************************************)
(* GprsUpload over a record area of a few records.                         *)
(***************************************************************************)
EXTENDS GprsUpload

(* The real area holds far more records than an int8_t index reaches; so    *)
(* does the small one, by two.                                              *)
RealCapacity == (10 * 1024 - 7 - 1) \div 4
ASSUME RealReach == RealCapacity > 128

ASSUME SmallReach == Capacity = IndexLimit + 2
=============================================================================
