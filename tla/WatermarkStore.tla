---------------------------- MODULE WatermarkStore ----------------------------
(***************************************************************************)
(* The watermark area of APP/flash/usr_flash.c, half-word by half-word.    *)
(*                                                                         *)
(* One context writes it: Usr_Flash_Init during boot, then /wmadd and      *)
(* /wmerase of the TCP command server (ETH interrupt, priority 3).  The    *)
(* USART interrupts (priority 1) read it in Handle_Water and the listing   *)
(* 0xa2, and preempt the writer anywhere to write or erase the record area *)
(* (RecordStore).  They leave the watermark area alone but end each        *)
(* operation with FLASH_Lock: a step that such an interrupt precedes is    *)
(* "cut", and finds the controller locked.                                 *)
(*                                                                         *)
(* Addresses are half-word offsets from WM_DATA_ADDR_START.                *)
(***************************************************************************)
EXTENDS Integers, Sequences

CONSTANTS
  Area,        \* half-words in the watermark area (10 pages of 2 KB)
  PageLen,     \* half-words in a flash page
  IdLen,       \* half-words of the header's IDString
  WmLen,       \* half-words of a WM_Data: its ID, then the pattern
  W,           \* a half-word holds 0..W-1; W-1 is the erased value 0xFFFF
  Sig,         \* what each IDString half-word holds once programmed
  Watermarks   \* the images (ID and pattern) /wmadd is asked to store

Blank    == W - 1
HalfWord == 0 .. W - 1
Cell     == 0 .. Area - 1
Mark     == [1 .. WmLen -> HalfWord]
HdrLen   == IdLen + 2

ASSUME FlashParameters ==
  /\ Area \in Nat /\ PageLen \in Nat /\ IdLen \in Nat /\ WmLen \in Nat
  /\ W \in Nat
  /\ IdLen > 0 /\ PageLen > 0 /\ WmLen > 1 /\ W > 2
  /\ Area > HdrLen + WmLen /\ Area % PageLen = 0
  /\ Sig \in 1 .. W - 2
  /\ Watermarks \subseteq Mark

VARIABLES
  flash,       \* the area's half-words; survives power loss
  locked,      \* FLASH_CR.LOCK
  pgerr,       \* FLASH_SR.PGERR: the driver never clears it
  address,     \* WMFlag.WM_Data_Address
  num,         \* WMFlag.WM_Data_Num
  mode,        \* "boot" in Usr_Flash_Init, "run" after it, "fault" (HardFault)
  pc,          \* where the writer is
  pos,         \* its loop variable: half-word, page or scan address
  image,       \* the half-words it is writing
  found,       \* Usr_Flash_Init's local num
  cut,         \* history: this write or erase was cut
  clean        \* history: since the last uncut erase, no operation was cut
               \* and no watermark was accepted that reads as erased flash

writer  == <<pc, pos, image>>
flags   == <<address, num>>
history == <<cut, clean>>
vars    == <<flash, locked, pgerr, flags, mode, writer, found, history>>

-----------------------------------------------------------------------------
Slot(i)    == HdrLen + WmLen * i
Used(f, a) == f[a] # Blank \/ f[a + 1] # Blank      \* u32 # 0xFFFFFFFF

(* The ID and the first half-word of the pattern are all ones.             *)
ReadsErased(wm) == wm[1] = Blank /\ wm[2] = Blank

(* SetWMHeader copies only WMDATA_ID_MAX_LEN = 2 bytes of the 4 of FirstID: *)
(* the header's last half-word stays erased.                               *)
HeaderImage == [k \in 1 .. IdLen + 1 |-> IF k <= IdLen THEN Sig ELSE 0]

(* strcmp(IDSTRING_CONTENT, header->IDString) = 0 *)
GetWMHeader(f) == \A k \in 0 .. IdLen - 1 : f[k] = Sig

TypeOK ==
  /\ flash \in [Cell -> HalfWord]
  /\ locked \in BOOLEAN /\ pgerr \in BOOLEAN
  /\ address \in Nat /\ num \in Nat
  /\ mode \in {"boot", "run", "fault"}
  /\ pc \in {"idle", "write", "erase", "reset", "header",
             "check", "scan", "publish"}
  /\ pos \in Nat /\ image \in Seq(HalfWord) /\ found \in Nat
  /\ cut \in BOOLEAN /\ clean \in BOOLEAN

(* A new part: flash erased, first power-on. *)
Init ==
  /\ flash = [a \in Cell |-> Blank]
  /\ locked = TRUE /\ pgerr = FALSE
  /\ address = 0 /\ num = 0
  /\ mode = "boot" /\ pc = "check" /\ pos = 0 /\ image = <<>> /\ found = 0
  /\ cut = FALSE /\ clean = TRUE

(* Power fails at any point, or the board is reset: only flash is kept. *)
PowerCycle ==
  /\ locked' = TRUE /\ pgerr' = FALSE
  /\ address' = 0 /\ num' = 0
  /\ mode' = "boot" /\ pc' = "check" /\ pos' = 0 /\ image' = <<>>
  /\ found' = 0 /\ cut' = FALSE
  /\ UNCHANGED <<flash, clean>>

-----------------------------------------------------------------------------
Goto(label, p) == pc' = label /\ pos' = p

(* Back to the caller: Usr_Flash_Init goes on to its scan. *)
Leave ==
  IF mode = "boot" THEN Goto("scan", HdrLen) ELSE Goto("idle", 0)

(* Each Usr_Flash_Write call unlocks the controller first and locks it     *)
(* last; a watermark or a header takes two, split after these half-words.  *)
Split == IF pc = "write" THEN 1 ELSE IdLen

(* FLASH_ProgramHalfWord: it does nothing while an error is flagged; a     *)
(* locked controller ignores the write; a half-word that is not erased     *)
(* takes only 0x0000 and otherwise raises PGERR.                           *)
FLASH_ProgramHalfWord(a, v, closed) ==
  IF pgerr \/ closed THEN UNCHANGED <<flash, pgerr>>
  ELSE IF flash[a] = Blank \/ v = 0
       THEN flash' = [flash EXCEPT ![a] = v] /\ UNCHANGED pgerr
       ELSE pgerr' = TRUE /\ UNCHANGED flash

(* Mutant: the half-words are programmed from the last to the first. *)
Usr_Flash_WriteBackwards(start, c) ==
  LET k      == Len(image) - 1 - pos
      closed == c \/ (locked /\ pos # 0 /\ pos # Split)
  IN /\ FLASH_ProgramHalfWord(start + k, image[k + 1], closed)
     /\ locked' = (closed \/ pgerr' \/ pos + 1 \in {Split, Len(image)})

(* One turn of Usr_Flash_Write's loop, with the unlock or lock around it.   *)
(* An error ends the loop; the turns left over change nothing.              *)
Usr_Flash_Write(start, c) ==
  LET closed == c \/ (locked /\ pos # 0 /\ pos # Split)
  IN /\ FLASH_ProgramHalfWord(start + pos, image[pos + 1], closed)
     /\ locked' = (closed \/ pgerr' \/ pos + 1 \in {Split, Len(image)})

Cut(c) == cut' = (cut \/ c) /\ clean' = (clean /\ ~c)

-----------------------------------------------------------------------------
(* WriteWM, called by TCP_AddWMData: two calls of Usr_Flash_Write, then     *)
(* WMFlag advances whatever became of them.  A watermark that does not fit  *)
(* is refused and nothing changes.  The ID is any number and a pattern too  *)
(* short to decode leaves stack contents behind, so any image may come.     *)
Fits == address + WmLen < Area

WriteWM(wm) ==
  /\ mode = "run" /\ pc = "idle" /\ Fits
  /\ image' = wm /\ Goto("write", 0)
  /\ cut' = FALSE /\ clean' = (clean /\ ~ReadsErased(wm))
  /\ UNCHANGED <<flash, locked, pgerr, flags, mode, found>>

WriteHalfWord(c) ==
  /\ pc = "write"
  /\ Usr_Flash_Write(address, c) /\ Cut(c)
  /\ IF pos + 1 < WmLen
     THEN Goto("write", pos + 1) /\ UNCHANGED <<flags, image>>
     ELSE /\ address' = address + WmLen
          /\ num' = num + 1
          /\ image' = <<>> /\ Goto("idle", 0)
  /\ UNCHANGED <<mode, found>>

(* EraseWM: pages from the first, then WMFlag, then SetWMHeader.            *)
EraseFromSecondPage ==          \* mutant: the header's page is left out
  /\ locked' = FALSE /\ cut' = FALSE
  /\ Goto("erase", PageLen)
  /\ UNCHANGED <<flash, pgerr, flags, mode, image, found, clean>>

EraseWM ==
  /\ locked' = FALSE /\ cut' = FALSE
  /\ Goto("erase", 0)
  /\ UNCHANGED <<flash, pgerr, flags, mode, image, found, clean>>

(* Mutant: the erase stops before the last page. *)
ErasePageButLast(c) ==
  /\ pc = "erase" /\ pos < Area
  /\ IF pgerr
     THEN locked' = TRUE /\ Leave /\ UNCHANGED flash
     ELSE /\ flash' = IF locked \/ c \/ pos + PageLen = Area THEN flash
                      ELSE [a \in Cell |-> IF a \in pos .. pos + PageLen - 1
                                           THEN Blank ELSE flash[a]]
          /\ locked' = (locked \/ c)
          /\ Goto("erase", pos + PageLen)
  /\ Cut(c) /\ UNCHANGED <<pgerr, flags, mode, image, found>>

(* Mutant: the last page goes first. *)
ErasePageFromEnd(c) ==
  /\ pc = "erase" /\ pos < Area
  /\ IF pgerr
     THEN locked' = TRUE /\ Leave /\ UNCHANGED flash
     ELSE /\ flash' = IF locked \/ c THEN flash
                      ELSE [a \in Cell |->
                              IF a \in Area - pos - PageLen .. Area - pos - 1
                              THEN Blank ELSE flash[a]]
          /\ locked' = (locked \/ c)
          /\ Goto("erase", pos + PageLen)
  /\ Cut(c) /\ UNCHANGED <<pgerr, flags, mode, image, found>>

(* Usr_Flash_Erase of the page at pos; on an error the area stays as it is. *)
ErasePage(c) ==
  /\ pc = "erase" /\ pos < Area
  /\ IF pgerr
     THEN locked' = TRUE /\ Leave /\ UNCHANGED flash
     ELSE /\ flash' = IF locked \/ c THEN flash
                      ELSE [a \in Cell |-> IF a \in pos .. pos + PageLen - 1
                                           THEN Blank ELSE flash[a]]
          /\ locked' = (locked \/ c)
          /\ Goto("erase", pos + PageLen)
  /\ Cut(c) /\ UNCHANGED <<pgerr, flags, mode, image, found>>

PagesErasedKeepAddress ==       \* mutant: WM_Data_Address is not reset
  /\ pc = "erase" /\ pos >= Area
  /\ locked' = TRUE
  /\ Goto("reset", 0)
  /\ clean' = ~cut
  /\ UNCHANGED <<flash, pgerr, flags, mode, image, found, cut>>

PagesErased ==
  /\ pc = "erase" /\ pos >= Area
  /\ locked' = TRUE /\ address' = HdrLen
  /\ Goto("reset", 0)
  /\ clean' = ~cut
  /\ UNCHANGED <<flash, pgerr, num, mode, image, found, cut>>

ResetNum ==
  /\ pc = "reset"
  /\ num' = 0 /\ image' = HeaderImage
  /\ Goto("header", 0)
  /\ UNCHANGED <<flash, locked, pgerr, address, mode, found, history>>

SetWMHeader(c) ==
  /\ pc = "header"
  /\ Usr_Flash_Write(0, c) /\ Cut(c)
  /\ IF pos + 1 < Len(image)
     THEN Goto("header", pos + 1) /\ UNCHANGED image
     ELSE Leave /\ image' = <<>>
  /\ UNCHANGED <<flags, mode, found>>

(* /wmerase *)
TcpErase == mode = "run" /\ pc = "idle" /\ EraseWM

-----------------------------------------------------------------------------
(* Usr_Flash_Init, watermark part. *)
BootCheck ==
  /\ pc = "check"
  /\ IF GetWMHeader(flash)
     THEN Leave /\ UNCHANGED <<flash, locked, pgerr, flags, mode, image,
                               found, history>>
     ELSE EraseWM

(* Mutant: the scan moves by a record's length instead of a watermark's.    *)
BootScanOtherStep ==
  /\ pc = "scan"
  /\ IF pos + 1 >= Area
     THEN mode' = "fault" /\ pc' = "idle" /\ UNCHANGED <<address, pos, found>>
     ELSE /\ UNCHANGED mode
          /\ IF Used(flash, pos)
             THEN Goto("scan", pos + WmLen + 1) /\ found' = found + 1
                  /\ UNCHANGED address
             ELSE Goto("publish", 0) /\ address' = pos /\ UNCHANGED found
  /\ UNCHANGED <<flash, locked, pgerr, num, image, history>>

(* One read of the scan; one that ran past the area's end would meet the    *)
(* record area, and is kept apart as a fault.                               *)
BootScan ==
  /\ pc = "scan"
  /\ IF pos + 1 >= Area
     THEN mode' = "fault" /\ pc' = "idle" /\ UNCHANGED <<address, pos, found>>
     ELSE /\ UNCHANGED mode
          /\ IF Used(flash, pos)
             THEN Goto("scan", pos + WmLen) /\ found' = found + 1
                  /\ UNCHANGED address
             ELSE Goto("publish", 0) /\ address' = pos /\ UNCHANGED found
  /\ UNCHANGED <<flash, locked, pgerr, num, image, history>>

BootPublishLastIndex ==         \* mutant: the last index, not the count
  /\ pc = "publish"
  /\ num' = found - 1 /\ found' = 0 /\ mode' = "run"
  /\ Goto("idle", 0)
  /\ UNCHANGED <<flash, locked, pgerr, address, image, history>>

BootPublish ==
  /\ pc = "publish"
  /\ num' = found /\ found' = 0 /\ mode' = "run"
  /\ Goto("idle", 0)
  /\ UNCHANGED <<flash, locked, pgerr, address, image, history>>

Boot == BootCheck \/ BootScan \/ BootPublish

Next ==
  \/ \E wm \in Watermarks : WriteWM(wm)
  \/ \E c \in BOOLEAN : WriteHalfWord(c) \/ ErasePage(c) \/ SetWMHeader(c)
  \/ TcpErase \/ PagesErased \/ ResetNum
  \/ Boot
  \/ PowerCycle

Spec == Init /\ [][Next]_vars
-----------------------------------------------------------------------------
(* The area reads as n watermarks followed by nothing. *)
ListAt(f, n) ==
  /\ Slot(n) + 1 < Area
  /\ \A i \in 0 .. n - 1 : Used(f, Slot(i))
  /\ \A a \in Cell : a >= Slot(n) => f[a] = Blank

(* Between operations of a clean area WM_Data_Address is the first erased   *)
(* half-word behind WM_Data_Num watermarks (usr_flash.c 252, 253), so that  *)
(* GetWM reads stored watermarks only and the next WriteWM meets erased     *)
(* flash: whatever power failures, erases and torn writes came before.      *)
AreaShape ==
  clean /\ mode = "run" /\ pc = "idle" =>
    /\ GetWMHeader(flash)
    /\ address = Slot(num)
    /\ ListAt(flash, num)

(* Whenever power fails on a clean area, boot finds the header missing and  *)
(* erases it afresh, or some number of watermarks followed by erased flash. *)
Recoverable ==
  clean /\ GetWMHeader(flash) => \E n \in 0 .. Area : ListAt(flash, n)

(* Commands on a clean area never raise PGERR, which would stop every later *)
(* write and erase of the record area too (usr_flash.c 25 clears nothing):  *)
(* only a cut operation or a watermark that reads as erased flash can.      *)
NoErrorWhileClean == clean => ~pgerr

(* Whatever damaged the area before (holes of cut writes, watermarks hidden *)
(* behind one that reads as erased), an erase that is not cut leaves all of *)
(* it blank when WMFlag is reset.                                           *)
EraseHeals ==
  pc = "reset" /\ ~cut => ~pgerr /\ \A a \in Cell : flash[a] = Blank

(* The boot scan ends inside the area, clean or not, full or not: what is   *)
(* left at its end is too short for a watermark and never written.          *)
ScanEnds == mode # "fault"

-----------------------------------------------------------------------------
(* What a reader finds: the WM_Data_Num slots while the board runs, what    *)
(* the scan will count while it boots, nothing once the header is erased.   *)
Marks(n) == [i \in 1 .. n |->
               [k \in 1 .. WmLen |-> flash[Slot(i - 1) + k - 1]]]

HeaderGone == (pc = "erase" /\ pos > 0) \/ pc \in {"reset", "header"}

Stored ==
  CASE mode = "run" /\ ~HeaderGone -> Marks(num)
    [] mode = "boot" /\ GetWMHeader(flash) /\ ~HeaderGone ->
         Marks(CHOOSE n \in 0 .. Area : ListAt(flash, n))
    [] OTHER -> <<>>

Capacity == (Area - HdrLen - 1) \div WmLen

List == INSTANCE WatermarkList WITH Offered <- Watermarks, list <- Stored

(* While the area is clean, each step of the store is a step of the list:   *)
(* a watermark that /wmadd stored, and exactly it, is added; it is neither  *)
(* lost nor altered but by /wmerase, which empties the list at once; and a  *)
(* restart adds at most the watermark it tore.                              *)
FollowsList ==
  [][clean /\ clean' =>
       IF mode = "run" /\ mode' = "run"
       THEN [List!Add(image) \/ List!Erase]_Stored
       ELSE [List!Restart]_Stored]_vars
=============================================================================
