---------------------------- MODULE RecordStore ----------------------------
(***************************************************************************)
(* The record area of APP/flash/usr_flash.c, at the granularity at which   *)
(* power can fail: one half-word programmed, one page erased.              *)
(*                                                                         *)
(* Two contexts call into it.  "isr" is the USART2/USART3 level (NVIC      *)
(* preemption priority 1): Handle_Water writes records and the host byte   *)
(* 0xa3 erases them; the two interrupts share a priority, so one operation *)
(* of this context runs to its end before the next begins.  "base" is      *)
(* whatever these interrupts preempt: Usr_Flash_Init during boot, and the  *)
(* TCP command server (ETH interrupt, priority 3) afterwards.              *)
(*                                                                         *)
(* Addresses are half-word offsets from WM_RECORD_ADDR_START; those below   *)
(* it are negative.                                                        *)
(***************************************************************************)
EXTENDS Integers, Sequences

CONSTANTS
  Area,        \* half-words in the record area (10 pages of 2 KB)
  PageLen,     \* half-words in a flash page
  IdLen,       \* half-words of the header's IDString
  W,           \* a half-word holds 0..W-1; W-1 is the erased value 0xFFFF
  Sig,         \* what each IDString half-word holds once programmed
  Start,       \* half-words of flash below the area: WMFlag's address is 0,
               \* that is -Start here, until Usr_Flash_Init has set it
  Payload,     \* values offered for WMData_ID and FrameNum
  MaxId,       \* bound: no run ends once Last_ID reaches MaxId
  IndexLimit   \* GetRecord's int8_t index holds -IndexLimit..IndexLimit-1

Blank    == W - 1
HalfWord == 0 .. W - 1
Cell     == 0 .. Area - 1
HdrLen   == IdLen + 2          \* IDString, then the 32-bit FirstID
RecLen   == 4                  \* ID (32 bit), WMData_ID, FrameNum
Ctx      == {"isr", "base"}

ASSUME FlashParameters ==
  /\ Area \in Nat /\ PageLen \in Nat /\ IdLen \in Nat /\ W \in Nat
  /\ IdLen > 0 /\ PageLen > 0 /\ Area > IdLen + 2 + 4 /\ W > 2
  /\ Area % PageLen = 0
  /\ Sig \in 1 .. W - 2
  /\ Start \in Nat
  /\ Payload \subseteq 0 .. W - 1
  /\ MaxId \in Nat /\ MaxId < W * W - 1
  /\ IndexLimit \in Nat /\ IndexLimit > 0

VARIABLES
  flash,       \* the area's half-words; survives power loss
  locked,      \* FLASH_CR.LOCK
  pgerr,       \* FLASH_SR.PGERR: the driver never clears it
  address,     \* WMFlag.WM_Record_Address
  num,         \* WMFlag.WM_Record_Num
  lastId,      \* WMFlag.WM_Record_Last_ID
  mode,        \* "boot" in Usr_Flash_Init, "run" after it, "fault" (HardFault)
  pc,          \* where each context is
  pos,         \* its loop variable: half-word, page or scan address
  image,       \* the half-words it is writing
  found        \* Usr_Flash_Init's local num

ram   == <<address, num, lastId>>
vars  == <<flash, locked, pgerr, address, num, lastId, mode, pc, pos, image,
           found>>

-----------------------------------------------------------------------------
(* The 32-bit ID as two half-words, the low one first.                     *)
LoUntruncated(id) == id         \* mutant: no cast to uint16_t
Lo(id)     == id % W
Hi(id)     == id \div W
U32(lo, hi) == lo + W * hi

NextId     == (lastId + 1) % (W * W)      \* GetRecordLastID() + 1

Slot(i)    == HdrLen + RecLen * i
IdAt(f, a) == U32(f[a], f[a + 1])
Used(f, a) == f[a] # Blank \/ f[a + 1] # Blank      \* u32 # 0xFFFFFFFF

RecordImage(id, wm, frames) == <<Lo(id), Hi(id), wm, frames>>
HeaderImage(id) ==
  [k \in 1 .. HdrLen |-> CASE k <= IdLen    -> Sig
                           [] k = IdLen + 1 -> Lo(id)
                           [] k = HdrLen    -> Hi(id)]

(* strcmp(IDSTRING_CONTENT, header->IDString) = 0 *)
GetRecordHeader(f) == \A k \in 0 .. IdLen - 1 : f[k] = Sig

(* The int8_t a caller's int becomes when it is passed as an index. *)
Int8(i) == ((i + IndexLimit) % (2 * IndexLimit)) - IndexLimit

(* The IDs GetRecord may leave in the caller's record.  It copies nothing  *)
(* for an index it rejects, and Usr_Flash_Init's local is uninitialised.   *)
GetRecordID(index) ==
  IF index > num \/ index < 0
  THEN 0 .. W * W - 1
  ELSE {IdAt(flash, Slot(index))}

-----------------------------------------------------------------------------
TypeOK ==
  /\ flash \in [Cell -> HalfWord]
  /\ locked \in BOOLEAN /\ pgerr \in BOOLEAN
  /\ address \in Int /\ num \in Nat /\ lastId \in Nat
  /\ mode \in {"boot", "run", "fault"}
  /\ pc \in [Ctx -> {"idle", "write", "erase", "reset", "header",
                     "check", "scan", "publish", "lastid"}]
  /\ pos \in [Ctx -> Nat]
  /\ image \in [Ctx -> Seq(HalfWord)]
  /\ found \in Nat

Reset ==
  /\ locked' = TRUE /\ pgerr' = FALSE
  /\ address' = -Start /\ num' = 0 /\ lastId' = 0
  /\ mode' = "boot" /\ found' = 0
  /\ pc' = [c \in Ctx |-> IF c = "base" THEN "check" ELSE "idle"]
  /\ pos' = [c \in Ctx |-> 0]
  /\ image' = [c \in Ctx |-> <<>>]

(* A new part: flash erased, first power-on. *)
Init ==
  /\ flash = [a \in Cell |-> Blank]
  /\ locked = TRUE /\ pgerr = FALSE
  /\ address = -Start /\ num = 0 /\ lastId = 0
  /\ mode = "boot" /\ found = 0
  /\ pc = [c \in Ctx |-> IF c = "base" THEN "check" ELSE "idle"]
  /\ pos = [c \in Ctx |-> 0]
  /\ image = [c \in Ctx |-> <<>>]

(* Power fails at any point, or the board is reset: only flash is kept. *)
PowerCycle == Reset /\ UNCHANGED flash

-----------------------------------------------------------------------------
(* "base" runs only while no USART interrupt is active. *)
Runs(c) == mode # "fault" /\ (c = "base" => pc["isr"] = "idle")

Goto(c, label, p) ==
  /\ pc'  = [pc EXCEPT ![c] = label]
  /\ pos' = [pos EXCEPT ![c] = p]

(* Back to the caller: Usr_Flash_Init goes on to its scan. *)
Leave(c) ==
  IF c = "base" /\ mode = "boot" THEN Goto(c, "scan", HdrLen)
                                 ELSE Goto(c, "idle", 0)

(* Field boundaries of the Usr_Flash_Write calls a record or header takes;  *)
(* each call unlocks the controller first and locks it last.                *)
FieldStartOnce(c) == {0}        \* mutant: only the first call unlocks
FieldStart(c) == IF pc[c] = "write" THEN {0, 2, 3} ELSE {0, IdLen}
FieldEnd(c)   == IF pc[c] = "write" THEN {2, 3, 4} ELSE {IdLen, HdrLen}

(* FLASH_ProgramHalfWord: it does nothing while an error is flagged; a      *)
(* locked controller ignores the write; a half-word that is not erased     *)
(* takes only 0x0000 and otherwise raises PGERR.  Below the area is the    *)
(* program, which is not erased; whether its alias at address 0 takes part  *)
(* in that the manual leaves open.                                         *)
FLASH_ProgramHalfWord(a, v, closed) ==
  IF pgerr \/ closed THEN UNCHANGED <<flash, pgerr>>
  ELSE IF a \notin Cell THEN pgerr' \in BOOLEAN /\ UNCHANGED flash
  ELSE IF flash[a] = Blank \/ v = 0
       THEN flash' = [flash EXCEPT ![a] = v] /\ UNCHANGED pgerr
       ELSE pgerr' = TRUE /\ UNCHANGED flash

(* Mutant: the half-words are programmed from the last to the first. *)
Usr_Flash_WriteBackwards(c, start) ==
  LET k      == Len(image[c]) - 1 - pos[c]
      closed == locked /\ pos[c] \notin FieldStart(c)
  IN /\ FLASH_ProgramHalfWord(start + k, image[c][k + 1], closed)
     /\ locked' = (closed \/ pgerr' \/ pos[c] + 1 \in FieldEnd(c))

(* One turn of Usr_Flash_Write's loop, with the unlock or lock around it.   *)
(* An error ends the loop; the turns left over change nothing.              *)
Usr_Flash_Write(c, start) ==
  LET k      == pos[c]
      closed == locked /\ k \notin FieldStart(c)
  IN /\ FLASH_ProgramHalfWord(start + k, image[c][k + 1], closed)
     /\ locked' = (closed \/ pgerr' \/ k + 1 \in FieldEnd(c))

-----------------------------------------------------------------------------
(* WriteRecord, called by Handle_Water: the ID is taken, then four          *)
(* half-words are programmed and, whatever became of them, WMFlag advances. *)
(* A record that does not fit is refused and nothing changes.               *)
Fits == address + RecLen < Area

(* Mutant: the ID is taken without its increment. *)
WriteRecordSameId(wm, frames) ==
  /\ mode # "fault" /\ pc["isr"] = "idle" /\ Fits
  /\ image' = [image EXCEPT !["isr"] = RecordImage(lastId, wm, frames)]
  /\ Goto("isr", "write", 0)
  /\ UNCHANGED <<flash, locked, pgerr, ram, mode, found>>

WriteRecord(wm, frames) ==
  /\ mode # "fault" /\ pc["isr"] = "idle" /\ Fits
  /\ image' = [image EXCEPT !["isr"] = RecordImage(NextId, wm, frames)]
  /\ Goto("isr", "write", 0)
  /\ UNCHANGED <<flash, locked, pgerr, ram, mode, found>>

WriteHalfWord ==
  /\ pc["isr"] = "write" /\ Runs("isr")
  /\ Usr_Flash_Write("isr", address)
  /\ IF pos["isr"] + 1 < RecLen
     THEN Goto("isr", "write", pos["isr"] + 1) /\ UNCHANGED <<ram, image>>
     ELSE /\ address' = address + RecLen
          /\ num' = num + 1
          /\ lastId' = NextId
          /\ image' = [image EXCEPT !["isr"] = <<>>]
          /\ Goto("isr", "idle", 0)
  /\ UNCHANGED <<mode, found>>

(* EraseRecord: pages from the first, then WMFlag, then SetRecordHeader.    *)
EraseRecord(c) ==
  /\ locked' = FALSE
  /\ Goto(c, "erase", 0)
  /\ UNCHANGED <<flash, pgerr, ram, mode, image, found>>

(* Mutants: the last page goes first; the error return forgets FLASH_Lock.  *)
ErasePageFromEnd(c) ==
  /\ pc[c] = "erase" /\ Runs(c) /\ pos[c] < Area
  /\ flash' = [a \in Cell |-> IF a \in Area - pos[c] - PageLen .. Area - pos[c] - 1
                             THEN Blank ELSE flash[a]]
  /\ Goto(c, "erase", pos[c] + PageLen)
  /\ UNCHANGED <<locked, pgerr, ram, mode, image, found>>

ErasePageUnlocked(c) ==
  /\ pc[c] = "erase" /\ Runs(c) /\ pos[c] < Area
  /\ IF pgerr THEN Leave(c) /\ UNCHANGED flash
     ELSE /\ flash' = IF locked THEN flash
                      ELSE [a \in Cell |->
                              IF a \in pos[c] .. pos[c] + PageLen - 1
                              THEN Blank ELSE flash[a]]
          /\ Goto(c, "erase", pos[c] + PageLen)
  /\ UNCHANGED <<locked, pgerr, ram, mode, image, found>>

(* Usr_Flash_Erase of the page at pos; on an error the area stays as it is. *)
ErasePage(c) ==
  /\ pc[c] = "erase" /\ Runs(c) /\ pos[c] < Area
  /\ IF pgerr
     THEN locked' = TRUE /\ Leave(c) /\ UNCHANGED flash
     ELSE /\ flash' = IF locked THEN flash
                      ELSE [a \in Cell |->
                              IF a \in pos[c] .. pos[c] + PageLen - 1
                              THEN Blank ELSE flash[a]]
          /\ Goto(c, "erase", pos[c] + PageLen)
          /\ UNCHANGED locked
  /\ UNCHANGED <<pgerr, ram, mode, image, found>>

(* Mutant: WM_Record_Address is left where it was. *)
PagesErasedKeepAddress(c) ==
  /\ pc[c] = "erase" /\ Runs(c) /\ pos[c] >= Area
  /\ locked' = TRUE
  /\ Goto(c, "reset", 0)
  /\ UNCHANGED <<flash, pgerr, ram, mode, image, found>>

PagesErased(c) ==
  /\ pc[c] = "erase" /\ Runs(c) /\ pos[c] >= Area
  /\ locked' = TRUE
  /\ address' = HdrLen
  /\ Goto(c, "reset", 0)
  /\ UNCHANGED <<flash, pgerr, num, lastId, mode, image, found>>

(* WM_Record_Num = 0, then SetRecordHeader copies GetRecordLastID.          *)
ResetNum(c) ==
  /\ pc[c] = "reset" /\ Runs(c)
  /\ num' = 0
  /\ image' = [image EXCEPT ![c] = HeaderImage(lastId)]
  /\ Goto(c, "header", 0)
  /\ UNCHANGED <<flash, locked, pgerr, address, lastId, mode, found>>

SetRecordHeader(c) ==
  /\ pc[c] = "header" /\ Runs(c)
  /\ Usr_Flash_Write(c, 0)
  /\ IF pos[c] + 1 < HdrLen
     THEN Goto(c, "header", pos[c] + 1) /\ UNCHANGED image
     ELSE Leave(c) /\ image' = [image EXCEPT ![c] = <<>>]
  /\ UNCHANGED <<ram, mode, found>>

EraseStep(c) ==
  ErasePage(c) \/ PagesErased(c) \/ ResetNum(c) \/ SetRecordHeader(c)

-----------------------------------------------------------------------------
(* Usr_Flash_Init, record part. *)
BootCheck ==
  /\ mode = "boot" /\ pc["base"] = "check" /\ Runs("base")
  /\ IF GetRecordHeader(flash)
     THEN Leave("base") /\ UNCHANGED <<locked, flash, pgerr, ram, mode, image,
                                       found>>
     ELSE EraseRecord("base")

(* Mutant: the scan looks for an ID of zero. *)
BootScanZero ==
  /\ mode = "boot" /\ pc["base"] = "scan" /\ Runs("base")
  /\ LET a == pos["base"]
     IN IF a + 1 >= Area
        THEN /\ mode' = "fault"
             /\ UNCHANGED <<address, found, pc, pos>>
        ELSE /\ UNCHANGED mode
             /\ IF IdAt(flash, a) # 0
                THEN /\ Goto("base", "scan", a + RecLen)
                     /\ found' = found + 1 /\ UNCHANGED address
                ELSE /\ address' = a /\ UNCHANGED found
                     /\ Goto("base", "publish", 0)
  /\ UNCHANGED <<flash, locked, pgerr, num, lastId, image>>

(* One read of the scan.  The u32 at an address one half-word short of the  *)
(* end of the area runs past the end of the flash.                          *)
BootScan ==
  /\ mode = "boot" /\ pc["base"] = "scan" /\ Runs("base")
  /\ LET a == pos["base"]
     IN IF a + 1 >= Area
        THEN /\ mode' = "fault"
             /\ UNCHANGED <<address, found, pc, pos>>
        ELSE /\ UNCHANGED mode
             /\ IF Used(flash, a)
                THEN /\ Goto("base", "scan", a + RecLen)
                     /\ found' = found + 1 /\ UNCHANGED address
                ELSE /\ address' = a /\ UNCHANGED found
                     /\ Goto("base", "publish", 0)
  /\ UNCHANGED <<flash, locked, pgerr, num, lastId, image>>

BootPublish ==
  /\ mode = "boot" /\ pc["base"] = "publish" /\ Runs("base")
  /\ num' = found
  /\ Goto("base", "lastid", 0)
  /\ UNCHANGED <<flash, locked, pgerr, address, lastId, mode, image, found>>

BootLastId ==
  /\ mode = "boot" /\ pc["base"] = "lastid" /\ Runs("base")
  /\ IF found > 0 THEN lastId' \in GetRecordID(Int8(found - 1))
                  ELSE UNCHANGED lastId
  /\ mode' = "run" /\ found' = 0
  /\ Goto("base", "idle", 0)
  /\ UNCHANGED <<flash, locked, pgerr, address, num, image>>

-----------------------------------------------------------------------------
(* A run of matching halves ends.  The serial interrupts are enabled before *)
(* Usr_Flash_Init is called (main.c, System_Setup), so a DSP that streams   *)
(* already can end one during boot: the watermarks to match are counted     *)
(* (WM_Data_Num) just before the record part of Usr_Flash_Init begins.      *)
RunEnds ==
  lastId < MaxId /\ \E wm, frames \in Payload : WriteRecord(wm, frames)

Report     == mode = "run" /\ RunEnds
ReportBoot == mode = "boot" /\ RunEnds

(* The host's 0xa3, and the same byte during boot. *)
HostErase     == mode = "run" /\ pc["isr"] = "idle" /\ EraseRecord("isr")
HostEraseBoot == mode = "boot" /\ pc["isr"] = "idle" /\ EraseRecord("isr")

(* /eraserecord in the TCP command server. *)
TcpErase ==
  mode = "run" /\ pc["base"] = "idle" /\ Runs("base") /\ EraseRecord("base")

Boot == BootCheck \/ BootScan \/ BootPublish \/ BootLastId

Next ==
  \/ Report
  \/ WriteHalfWord
  \/ HostErase
  \/ \E c \in Ctx : EraseStep(c)
  \/ Boot
  \/ PowerCycle

(* Every caller of the source.  Next leaves out the three that can meet an  *)
(* operation of the other context halfway.                                  *)
NextAll == Next \/ TcpErase \/ HostEraseBoot \/ ReportBoot

Spec    == Init /\ [][Next]_vars
SpecTcp == Init /\ [][Next \/ TcpErase]_vars
SpecAll == Init /\ [][NextAll]_vars

-----------------------------------------------------------------------------
(* The area reads as n records followed by nothing. *)
LogAt(f, n) ==
  /\ Slot(n) < Area
  /\ \A i \in 0 .. n - 1 : Used(f, Slot(i))
  /\ \A a \in Cell : a >= Slot(n) => f[a] = Blank

Quiet == mode = "run" /\ \A c \in Ctx : pc[c] = "idle"

(* Between operations WM_Record_Address is the first erased half-word after *)
(* WM_Record_Num records, and no program or erase has failed: so the next   *)
(* WriteRecord meets erased flash (usr_flash.c 267, 268).                   *)
LogShape ==
  Quiet => /\ GetRecordHeader(flash)
           /\ address = Slot(num)
           /\ LogAt(flash, num)
           /\ ~pgerr

(* Whenever power fails, in the middle of a write, of an erase or of boot   *)
(* itself, the area is one that Usr_Flash_Init recovers: either the header  *)
(* is missing and the area is erased afresh, or it reads as some number of  *)
(* records followed by erased flash.  No half-erased area shows old records.*)
Recoverable ==
  GetRecordHeader(flash) => \E n \in 0 .. Area : LogAt(flash, n)

(* When WriteRecord returns, the slot it advances over holds exactly the    *)
(* record it was given, in a log that was not damaged meanwhile.            *)
WriteLands ==
  [][mode = "run" /\ num' > num
       => \A k \in 1 .. RecLen : flash'[address + k - 1] = image["isr"][k]]_vars

(* Nobody leaves the controller unlocked: once both contexts are idle, the  *)
(* LOCK bit is set, whichever way their operations nested or failed.        *)
LockedWhenIdle == Quiet => locked

(* Booting never runs off the end of the flash. *)
NoFault == mode # "fault"

(* It does so only when the area is full of whole records and one           *)
(* half-word is left over at its end, never on any area that still has room *)
(* or that an erase or a torn write left behind.                            *)
FaultOnlyWhenFull ==
  mode = "fault" => \E n \in 0 .. Area : Slot(n) = Area - 1 /\ LogAt(flash, n)

(* After boot, and from then on, WM_Record_Last_ID is at least the ID of    *)
(* the newest record stored (usr_flash.c 270).                              *)
LastIdIsNewest == Quiet /\ num > 0 => lastId >= IdAt(flash, Slot(num - 1))
=============================================================================
