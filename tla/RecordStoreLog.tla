-------------------------- MODULE RecordStoreLog ---------------------------
(***************************************************************************)
(* RecordStore implements RecordLog.  A record joins the log when WMFlag   *)
(* advances past it; an erase takes effect when the page with the header   *)
(* goes; and while RAM says nothing (boot) the log is what flash reads as. *)
(***************************************************************************)
EXTENDS RecordStore

Entry(a) == [id |-> IdAt(flash, a), wm |-> flash[a + 2],
             frames |-> flash[a + 3]]

Entries(n) == [i \in 1 .. n |-> Entry(Slot(i - 1))]

(* An erase is past the page that holds the header. *)
HeaderGone ==
  \/ pc["isr"] = "erase" /\ pos["isr"] > 0
  \/ pc["isr"] \in {"reset", "header"}

Stored ==
  CASE mode = "run" /\ HeaderGone  -> <<>>
    [] mode = "run" /\ ~HeaderGone -> Entries(num)
    [] mode # "run" /\ GetRecordHeader(flash) ->
         Entries(CHOOSE n \in 0 .. Area : LogAt(flash, n))
    [] OTHER -> <<>>

StoredLast ==
  IF mode = "run" THEN lastId
  ELSE IF Stored = <<>> THEN 0 ELSE Stored[Len(Stored)].id

(* How many records WriteRecord's test for room lets in. *)
Capacity == (Area - HdrLen - 1) \div RecLen

Log == INSTANCE RecordLog
         WITH Field <- HalfWord, Id <- 0 .. W * W - 1,
              log <- Stored, last <- StoredLast

(* Seen through Stored, every step of the store, of a boot and of a power   *)
(* failure anywhere in them is a step of the abstract log: no record that   *)
(* WriteRecord accepted is lost or altered but by an erase, an erase is     *)
(* all or nothing, and a restart adds at most the one torn record.          *)
LogSpec == Log!LogSpec

(* The IDs of the stored records increase and none is ahead of Last_ID,     *)
(* torn records included (an ID whose high half is still erased is huge).   *)
StoredIdsIncrease == Log!IdsIncrease
=============================================================================
