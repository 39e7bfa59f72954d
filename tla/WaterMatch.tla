----------------------------- MODULE WaterMatch -----------------------------
(***************************************************************************)
(* Handle_Water (APP/dsp/usr_dsp.c): what the USART3 interrupt makes of    *)
(* the messages of the DSP.  A message covers 200 frames in two halves;    *)
(* each half is compared with the stored watermarks (BestMatch).           *)
(* Consecutive halves of one watermark are one run, kept in g_WMRecord and *)
(* written as a record when it ends.                                       *)
(*                                                                         *)
(* The record area is the abstract RecordLog, which RecordStore implements,*)
(* and the watermark area the abstract WatermarkList, which WatermarkStore *)
(* implements, but for this: the pages of an erase go one by one before    *)
(* WM_Data_Num is reset, and messages that complete meanwhile are compared *)
(* with erased flash.  The interrupt is not preempted by anything that     *)
(* touches this state, but power may fail between the two halves.          *)
(***************************************************************************)
EXTENDS BestMatch, FiniteSets

CONSTANTS
  Offered,    \* the watermarks /wmadd stores: IDs (0 is legal) and patterns
  Torn,       \* what a slot whose write lost power reads as
  MaxMarks,   \* bound: watermarks stored
  BlankId,    \* the ID read from erased flash: 65535
  Mul,        \* DSP_FRAME_MUL: frames in half a message
  FrameMod,   \* g_WMRecord.FrameNum is a uint16_t: 65536
  Capacity,   \* records that fit in the record area
  MaxId,      \* bound on record IDs: nothing ends a run once it is met
  MaxHalves   \* bound: halves handled since power-on

ASSUME MatchParameters ==
  /\ Offered \cup Torn \subseteq [id : Nat, pattern : Pattern]
  /\ BlankId \in Nat /\ NoMatch \notin Nat /\ MaxMarks \in Nat
  /\ Mul \in Nat \ {0} /\ FrameMod \in Nat /\ FrameMod > Mul
  /\ Capacity \in Nat /\ MaxId \in Nat /\ MaxHalves \in Nat

VARIABLES
  log, last,  \* the record area
  run,        \* g_WMRecord: WMData_ID and FrameNum of the run not written yet
  marks,      \* what GetWM reads at each index below WMFlag.WM_Data_Num
  erasing,    \* EraseWM is between its first page and the reset of the number
  pc,         \* where the USART3 interrupt is
  msg,        \* the message it handles: the bits of each half, and what the
              \* loop over the watermarks made of them
  periods,    \* parity of the periods of App_LWIP's loop
  heard,      \* history: halves handled since power-on
  written,    \* history: runs handed to WriteRecord since power-on
  before,     \* history: records in the area at power-on, 0 once it is erased
  since       \* history: runs in written when it was erased, 0 until then

store == <<log, last>>
marker == <<before, since>>
stock == <<marks, erasing>>
vars  == <<log, last, run, stock, pc, msg, periods, heard, written, marker>>

Erased == [id |-> BlankId, pattern |-> [k \in 1 .. Bits |-> 1]]
WM     == {wm.id : wm \in Offered \cup Torn \cup {Erased}}

(* What is in the fields of a torn record plays no part here. *)
Store == INSTANCE RecordLog WITH Field <- WM, Payload <- WM, Id <- 0 .. MaxId
List  == INSTANCE WatermarkList
           WITH Mark <- Torn, Capacity <- MaxMarks, list <- marks

Half  == WM \cup {NoMatch}
NoMsg == [bits |-> <<>>, match |-> <<>>]
NoRun == [id |-> 0, frames |-> 0]

TypeOK ==
  /\ last \in 0 .. MaxId /\ Len(log) <= Capacity
  /\ run \in [id : WM \cup {0}, frames : 0 .. FrameMod - 1]
  /\ marks \in BoundedSeq(Offered \cup Torn \cup {Erased}, MaxMarks)
  /\ erasing \in BOOLEAN /\ periods \in 0 .. 1
  /\ pc \in {"idle", "first", "second"}
  /\ msg = NoMsg \/ msg \in [bits : Pattern \X Pattern, match : Half \X Half]
  /\ heard \in Seq(Half)
  /\ written \in Seq([id : WM, frames : 1 .. FrameMod - 1])
  /\ before \in 0 .. Len(log) /\ since \in 0 .. Len(written)

Init ==
  /\ Store!LogInit
  /\ run = NoRun /\ List!ListInit /\ erasing = FALSE /\ pc = "idle"
  /\ periods = 0 /\ msg = NoMsg /\ heard = <<>> /\ written = <<>>
  /\ before = 0 /\ since = 0

-----------------------------------------------------------------------------
(* The 24th byte of a message: Handle_Water returns at once while no        *)
(* watermark is stored, leaving the run as it is, and else compares both    *)
(* halves with all of them.                                                 *)
Receive(first, second) ==
  /\ pc = "idle" /\ marks # <<>> /\ Len(heard) + 2 <= MaxHalves
  /\ msg' = [bits  |-> <<first, second>>,
             match |-> <<Match(marks, first), Match(marks, second)>>]
  /\ pc' = "first"
  /\ UNCHANGED <<store, run, stock, periods, heard, written, marker>>

(* Mutant: the last slot of the area is not used. *)
FlushButLast ==
  IF run.frames > 0
  THEN /\ written' = Append(written, run)
       /\ IF Len(log) + 1 < Capacity THEN Store!Write(run.id, run.frames)
                                     ELSE UNCHANGED store
  ELSE UNCHANGED <<store, written>>

(* The run is written if it has any frames; Handle_Water does not look at   *)
(* what WriteRecord returns, so a run refused by a full area is gone.       *)
Flush ==
  IF run.frames > 0
  THEN /\ written' = Append(written, run)
       /\ IF Store!HasRoom THEN Store!Write(run.id, run.frames)
                           ELSE UNCHANGED store
  ELSE UNCHANGED <<store, written>>

(* Mutant: a run that is not written before another begins. *)
TurnWithoutFlush(h) ==
  /\ h # NoMatch /\ h # run.id
  /\ run' = [id |-> h, frames |-> Mul]
  /\ UNCHANGED <<store, written>>

ContinueWide(h) ==               \* mutant: FrameNum does not wrap
  /\ h # NoMatch /\ h = run.id
  /\ run' = [run EXCEPT !.frames = @ + Mul]
  /\ UNCHANGED <<store, written>>

Continue(h) ==
  /\ h # NoMatch /\ h = run.id
  /\ run' = [run EXCEPT !.frames = (@ + Mul) % FrameMod]
  /\ UNCHANGED <<store, written>>

Turn(h) ==
  /\ h # NoMatch /\ h # run.id
  /\ Flush
  /\ run' = [id |-> h, frames |-> Mul]

Silence(h) ==
  /\ h = NoMatch
  /\ Flush
  /\ run' = NoRun

HandleHalf(at, next, h) ==
  /\ pc = at
  /\ Continue(h) \/ Turn(h) \/ Silence(h)
  /\ heard' = Append(heard, h)
  /\ pc' = next
  /\ msg' = IF next = "idle" THEN NoMsg ELSE msg
  /\ UNCHANGED <<stock, periods, marker>>

Handle_Water ==
  \/ HandleHalf("first", "second", msg.match[1])
  \/ HandleHalf("second", "idle", msg.match[2])

-----------------------------------------------------------------------------
(* The rest of the system, while the interrupt is not active. *)

WriteWM ==
  /\ pc = "idle" /\ ~erasing
  /\ \E wm \in Offered : List!Add(wm)
  /\ UNCHANGED <<store, run, erasing, pc, msg, periods, heard, written, marker>>

(* EraseWM: page by page the watermarks become erased flash (one that       *)
(* straddles two pages is taken to go with the first), ...                  *)
EraseWMPage ==
  /\ pc = "idle" /\ erasing' = TRUE
  /\ \E k \in DOMAIN marks :
       marks' = [i \in DOMAIN marks |-> IF i <= k THEN Erased ELSE marks[i]]
  /\ UNCHANGED <<store, run, pc, msg, periods, heard, written, marker>>

(* ... then WM_Data_Num. *)
EraseWMNum ==
  /\ pc = "idle" /\ (erasing => \A k \in DOMAIN marks : marks[k] = Erased)
  /\ List!Erase /\ erasing' = FALSE
  /\ UNCHANGED <<store, run, pc, msg, periods, heard, written, marker>>

EraseRecord ==
  /\ pc = "idle" /\ Store!Erase
  /\ before' = 0 /\ since' = Len(written)
  /\ UNCHANGED <<run, stock, pc, msg, periods, heard, written>>

(* One period of App_LWIP: System_Periodic_Handle runs the timers of DHCP   *)
(* and lwIP and nothing of this module.                                     *)
System_Periodic_Handle ==
  /\ pc = "idle" /\ periods' = 1 - periods
  /\ UNCHANGED <<store, run, stock, pc, msg, heard, written, marker>>

(* The stored watermarks survive, the run does not; an erase that had begun *)
(* is finished by boot.                                                     *)
PowerCycle ==
  /\ Store!Restart
  /\ IF erasing THEN List!Erase ELSE List!Restart
  /\ run' = NoRun /\ pc' = "idle" /\ msg' = NoMsg /\ erasing' = FALSE
  /\ periods' = 0 /\ heard' = <<>> /\ written' = <<>>
  /\ before' = Len(log') /\ since' = 0

Next ==
  \/ \E first, second \in Pattern : Receive(first, second)
  \/ Handle_Water
  \/ WriteWM \/ EraseWMPage \/ EraseWMNum \/ EraseRecord
  \/ PowerCycle

Spec == Init /\ [][Next]_vars

(* The scheduler runs App_LWIP's loop for ever (it delays one second per    *)
(* turn), and an interrupt that has begun ends.                             *)
FairSpec ==
  /\ Init /\ [][Next \/ System_Periodic_Handle]_vars
  /\ WF_vars(System_Periodic_Handle) /\ WF_vars(Handle_Water)

-----------------------------------------------------------------------------
(* heard[i .. i + n - 1] is a maximal block of one matching watermark.      *)
Block(i, n) ==
  /\ i + n - 1 <= Len(heard) /\ heard[i] # NoMatch
  /\ \A j \in i .. i + n - 1 : heard[j] = heard[i]
  /\ i > 1 => heard[i - 1] # heard[i]
  /\ i + n <= Len(heard) => heard[i + n] # heard[i]

(* The runs handed to WriteRecord, followed by the one still open, are      *)
(* exactly the maximal blocks of equal matching halves heard since power-on,*)
(* counted in the 16 bits of FrameNum: no half is lost, counted twice or put*)
(* in the wrong run, and no two runs stand for one block, however the       *)
(* halves fall into messages.  Only a block whose count wraps to exactly    *)
(* zero is no run.  What becomes of a run in the area is RunsStored.        *)
Runs == IF run.frames > 0 THEN Append(written, run) ELSE written
RunsAreBlocks ==
  \E at \in [DOMAIN Runs -> DOMAIN heard] :
    /\ \A j, k \in DOMAIN Runs : j < k => at[j] < at[k]
    /\ \A k \in DOMAIN Runs : \E n \in DOMAIN heard :
         /\ Block(at[k], n)
         /\ Runs[k] = [id |-> heard[at[k]], frames |-> (Mul * n) % FrameMod]
    /\ \A i, n \in DOMAIN heard : Block(i, n) /\ (Mul * n) % FrameMod > 0 =>
         \E k \in DOMAIN Runs : at[k] = i

(* What the area holds behind what it held at power-on, or since it was     *)
(* erased, is the runs that have ended since then, one record each and in   *)
(* order; those that are missing are the latest, and the area is full.      *)
RunsStored ==
  LET records == Len(log) - before   runs == Len(written) - since
  IN /\ records <= runs
     /\ \A k \in 1 .. records :
          written[since + k] = [id     |-> log[before + k].wm,
                                frames |-> log[before + k].frames]
     /\ records < runs => ~Store!HasRoom

(* The loop over the watermarks gives each half the ID of the last of the   *)
(* most similar ones that an int8_t can index, or none if that agrees in    *)
(* too few bits, whatever the list: full, with two of one ID or pattern,    *)
(* erased in part while it is read.                                         *)
MatchIsBest ==
  pc = "first" =>
    \A h \in 1 .. 2 : msg.match[h] = LastOfMostSimilar(marks, msg.bits[h])

(* A run is written once the DSP has been silent for a while                *)
(* (usr_dsp.c 184): while the board stays up and nothing more is heard, no  *)
(* run stays open for ever.                                                 *)
IdleFlush ==
  run.frames > 0 /\ pc = "idle" ~> run.frames = 0 \/ pc # "idle"
=============================================================================
