----------------------------- MODULE RecordLog -----------------------------
(***************************************************************************)
(* What the record store promises its callers, with no flash in it: a      *)
(* sequence of records, each written whole and numbered in turn, that is   *)
(* erased as one step and that a restart keeps.  A restart may add one     *)
(* entry, the record whose write the power failure cut short.              *)
(***************************************************************************)
EXTENDS Integers, Sequences

CONSTANTS
  Field,     \* what a WMData_ID or FrameNum read from flash can be
  Payload,   \* what WriteRecord is asked to store
  Id,        \* what an ID read from flash can be
  Capacity,  \* records that fit; WriteRecord refuses the next one
  MaxId      \* bound: nothing is written once last reaches it

ASSUME LogParameters ==
  /\ Payload \subseteq Field
  /\ Id \subseteq Nat /\ Capacity \in Nat
  /\ MaxId \in Nat /\ 0 .. MaxId \subseteq Id

VARIABLES
  log,       \* the records a reader of the area finds
  last       \* GetRecordLastID()

logVars == <<log, last>>

Record == [id : Id, wm : Field, frames : Field]

LogTypeOK == log \in Seq(Record) /\ last \in Id

LogInit == log = <<>> /\ last = 0

HasRoom == Len(log) < Capacity

Write(wm, frames) ==
  /\ HasRoom /\ last < MaxId
  /\ last' = last + 1
  /\ log' = Append(log, [id |-> last + 1, wm |-> wm, frames |-> frames])

Erase == log' = <<>> /\ UNCHANGED last

(* The IDs go on from the newest record found, or from zero. *)
Restart ==
  /\ \/ log' = log
     \/ HasRoom /\ \E torn \in Record :
          torn.id > last /\ log' = Append(log, torn)
  /\ last' = IF log' = <<>> THEN 0 ELSE log'[Len(log')].id

LogNext ==
  \/ \E wm, frames \in Payload : Write(wm, frames)
  \/ Erase
  \/ Restart

LogSpec == LogInit /\ [][LogNext]_logVars

-----------------------------------------------------------------------------
(* IDs grow along the log and none is ahead of GetRecordLastID: a reader    *)
(* that looks for the first record with an ID of at least n, as             *)
(* GetRecordIndexById does, finds the oldest such record.                   *)
IdsIncrease ==
  /\ \A i, j \in 1 .. Len(log) : i < j => log[i].id < log[j].id
  /\ \A i \in 1 .. Len(log) : log[i].id <= last
=============================================================================
