------------------------- MODULE RecordStore_proofs ------------------------
(* Theorems about RecordStore, for every size of area, page and half-word.  *)
EXTENDS RecordStore, TLAPS

-----------------------------------------------------------------------------
(* The two halves of a 32-bit ID.                                           *)

(* A u32 read from two half-words is within 32 bits. *)
LEMMA U32InRange ==
  ASSUME NEW lo \in HalfWord, NEW hi \in HalfWord
  PROVE  U32(lo, hi) \in 0 .. W * W - 1
<1>1. W \in Nat /\ W > 2
  BY FlashParameters
<1>2. W * hi <= W * (W - 1)
  BY <1>1 DEF HalfWord
<1>3. W * (W - 1) = W * W - W
  BY <1>1
<1>4. W * hi \in Nat
  BY <1>1 DEF HalfWord
<1> QED
  BY <1>1, <1>2, <1>3, <1>4 DEF U32, HalfWord

(* An ID is split into half-words that make it up again. *)
LEMMA HalvesOfId ==
  ASSUME NEW id \in 0 .. W * W - 1
  PROVE  Lo(id) \in HalfWord /\ Hi(id) \in HalfWord /\ U32(Lo(id), Hi(id)) = id
<1>1. W \in Nat /\ W > 2
  BY FlashParameters
<1>2. id = W * (id \div W) + (id % W) /\ id % W \in 0 .. W - 1 /\ id \div W \in Int
  BY <1>1
<1>3. W * (id \div W) < W * W
  BY <1>1, <1>2
<1>4. id \div W < W
  BY <1>1, <1>2, <1>3
<1>5. id \div W >= 0
  BY <1>1, <1>2
<1> QED
  BY <1>1, <1>2, <1>4, <1>5 DEF Lo, Hi, U32, HalfWord

(* Only the all-ones ID has two erased halves. *)
LEMMA IdNotErased ==
  ASSUME NEW id \in Nat, id < W * W - 1
  PROVE  Lo(id) # Blank \/ Hi(id) # Blank
<1>1. W \in Nat /\ W > 2
  BY FlashParameters
<1>2. U32(Lo(id), Hi(id)) = id
  BY <1>1, HalvesOfId
<1>3. U32(W - 1, W - 1) = W * W - 1
  BY <1>1 DEF U32
<1> QED
  BY <1>2, <1>3 DEF Blank

(* The ID after the last one, within 32 bits; it wraps only from the        *)
(* all-ones ID to zero.                                                     *)
LEMMA NextIdIs ==
  ASSUME lastId \in Nat
  PROVE  /\ NextId \in 0 .. W * W - 1
         /\ lastId + 1 < W * W => NextId = lastId + 1
<1>1. PICK m \in Nat : m = W * W
  BY FlashParameters
<1>2. m > 0
  <2>1. W \in Nat /\ W > 2
    BY FlashParameters
  <2>2. W * W > 0
    BY <2>1
  <2> QED
    BY <1>1, <2>2
<1>3. (lastId + 1) % m \in 0 .. m - 1
  BY <1>2
<1>4. lastId + 1 < m => (lastId + 1) % m = lastId + 1
  BY <1>2
<1> QED
  BY <1>1, <1>3, <1>4 DEF NextId

-----------------------------------------------------------------------------
(***************************************************************************)
(* The inductive invariant of Spec.  LogShape speaks of idle states only;  *)
(* to carry it through an operation, each phase of each context says what  *)
(* the area holds so far.                                                  *)
(***************************************************************************)

(* Where the two contexts can be: interrupts only while running, "base"     *)
(* only while booting, so their operations never meet.                      *)
Contexts ==
  /\ pc["isr"] \in {"idle", "write", "erase", "reset", "header"}
  /\ pc["isr"] # "idle" => mode = "run"
  /\ mode = "run" => pc["base"] = "idle"
  /\ mode # "run" => pc["base"] \in {"check", "scan", "publish", "lastid",
                                     "erase", "reset", "header"}

ErasedFrom(f, a) == \A b \in Cell : b >= a => f[b] = Blank
UsedBelow(f, n)  == \A i \in 0 .. n - 1 : Used(f, Slot(i))
Holds(f, start, img, k) == \A j \in 0 .. k - 1 : f[start + j] = img[j + 1]

(* No operation under way: WMFlag describes the area. *)
IdlePhase ==
  mode = "run" /\ pc["isr"] = "idle" =>
    GetRecordHeader(flash) /\ address = Slot(num) /\ LogAt(flash, num)

(* A write: the log as before, the half-words done, and erased flash. *)
WritePhase ==
  pc["isr"] = "write" =>
    /\ GetRecordHeader(flash) /\ address = Slot(num) /\ Fits
    /\ UsedBelow(flash, num)
    /\ lastId + 1 < W * W
    /\ image["isr"] \in [1 .. RecLen -> HalfWord]
    /\ image["isr"][1] # Blank \/ image["isr"][2] # Blank
    /\ pos["isr"] < RecLen
    /\ pos["isr"] \notin {0, 2, 3} => ~locked
    /\ ErasedFrom(flash, address + pos["isr"])
    /\ Holds(flash, address, image["isr"], pos["isr"])

(* An erase: still the old log, or erased up to the page it has reached. *)
ErasePhase(c) ==
  pc[c] = "erase" =>
    /\ ~locked
    /\ pos[c] = 0 => Recoverable
    /\ \A a \in Cell : a < pos[c] => flash[a] = Blank

ResetPhase(c) ==
  pc[c] = "reset" => ErasedFrom(flash, 0) /\ address = HdrLen

HeaderPhase(c) ==
  pc[c] = "header" =>
    /\ address = HdrLen /\ num = 0
    /\ image[c] \in [1 .. HdrLen -> HalfWord]
    /\ \A k \in 1 .. IdLen : image[c][k] = Sig
    /\ pos[c] < HdrLen
    /\ pos[c] \notin {0, IdLen} => ~locked
    /\ ErasedFrom(flash, pos[c])
    /\ Holds(flash, 0, image[c], pos[c])

(* Boot: the scan has passed only records and, once over, has found the end.*)
BootPhase ==
  /\ pc["base"] = "check" => Recoverable
  /\ mode = "fault" => Recoverable
  /\ pc["base"] = "scan" =>
       /\ GetRecordHeader(flash) /\ Recoverable
       /\ pos["base"] = Slot(found) /\ UsedBelow(flash, found)
       /\ pos["base"] < Area + 3
  /\ pc["base"] \in {"publish", "lastid"} =>
       /\ GetRecordHeader(flash) /\ LogAt(flash, found)
       /\ address = Slot(found) /\ address + 1 < Area
  /\ pc["base"] = "lastid" => num = found
  /\ pc["base"] \in {"idle", "check", "erase", "reset", "header"} => found = 0

IInv ==
  /\ TypeOK /\ lastId < W * W /\ ~pgerr /\ Contexts
  /\ IdlePhase /\ WritePhase /\ BootPhase
  /\ \A c \in Ctx : ErasePhase(c) /\ ResetPhase(c) /\ HeaderPhase(c)

LEMMA SizesAreNat ==
  /\ HdrLen \in Nat /\ HdrLen > IdLen /\ HdrLen + RecLen < Area
  /\ Blank \in HalfWord /\ Sig \in HalfWord /\ Sig # Blank
  /\ 0 \in Cell /\ "isr" \in Ctx /\ "base" \in Ctx
  /\ IdLen \in Nat /\ IdLen > 0 /\ Area \in Nat /\ W \in Nat /\ W > 2
  /\ PageLen \in Nat /\ PageLen > 0 /\ -Start \in Int
BY FlashParameters DEF HdrLen, RecLen, Blank, HalfWord, Cell, Ctx

LEMMA InitIInv == Init => IInv
<1> SUFFICES ASSUME Init PROVE IInv
  OBVIOUS
<1>1. TypeOK
  <2>1. flash \in [Cell -> HalfWord]
    BY SizesAreNat DEF Init
  <2>2. image \in [Ctx -> Seq(HalfWord)]
    BY DEF Init
  <2>3. pos \in [Ctx -> Nat]
    BY DEF Init
  <2>4. pc \in [Ctx -> {"idle", "check"}]
    BY DEF Init, Ctx
  <2> QED
    BY <2>1, <2>2, <2>3, <2>4, SizesAreNat DEF Init, TypeOK
<1>2. Recoverable
  BY SizesAreNat DEF Init, Recoverable, GetRecordHeader, Cell
<1>3. Contexts /\ lastId < W * W /\ ~pgerr
  BY SizesAreNat DEF Init, Contexts, Ctx
<1> QED
  BY <1>1, <1>2, <1>3 DEF IInv, Init, IdlePhase, WritePhase, BootPhase,
     ErasePhase, ResetPhase, HeaderPhase, Ctx

(* A well-shaped area is recoverable. *)
LEMMA LogAtRecoverable ==
  ASSUME NEW n \in Nat, LogAt(flash, n)
  PROVE  Recoverable
<1>1. n \in 0 .. Area
  BY SizesAreNat DEF LogAt, Slot, RecLen
<1> QED
  BY <1>1 DEF Recoverable

(* So is an area whose first half-word is erased: it has no header. *)
LEMMA ErasedRecoverable ==
  ASSUME flash[0] = Blank
  PROVE  Recoverable
BY SizesAreNat DEF Recoverable, GetRecordHeader

LEMMA WriteRecoverable ==
  ASSUME TypeOK, WritePhase, pc["isr"] = "write"
  PROVE  Recoverable
<1> DEFINE p == pos["isr"]
<1>1. p \in Nat /\ p < RecLen /\ num \in Nat /\ address \in Nat
  BY SizesAreNat DEF TypeOK, WritePhase, Slot, RecLen
<1>2. address = HdrLen + 4 * num /\ address + 4 < Area
  BY <1>1 DEF WritePhase, Slot, RecLen, Fits
<1>3. UsedBelow(flash, num) /\ ErasedFrom(flash, address + p)
  BY DEF WritePhase
<1>4. CASE flash[address] = Blank /\ flash[address + 1] = Blank
  <2>1. p = 0 \/ p = 1
    BY <1>1, <1>4 DEF WritePhase, Holds, RecLen
  <2>2. ErasedFrom(flash, address)
    BY <1>1, <1>3, <1>4, <2>1 DEF ErasedFrom, Cell
  <2>3. LogAt(flash, num)
    BY <1>1, <1>2, <1>3, <2>2, SizesAreNat
    DEF LogAt, UsedBelow, ErasedFrom, Slot, RecLen
  <2> QED
    BY <1>1, <2>3, LogAtRecoverable
<1>5. CASE ~(flash[address] = Blank /\ flash[address + 1] = Blank)
  <2>1. Used(flash, address) /\ address = Slot(num)
    BY <1>1, <1>2, <1>5 DEF Used, Slot, RecLen
  <2>2. Slot(num + 1) = address + 4
    BY <1>1, <1>2, SizesAreNat DEF Slot, RecLen
  <2>3. UsedBelow(flash, num + 1)
    BY <1>1, <1>3, <2>1 DEF UsedBelow
  <2>4. ErasedFrom(flash, address + 4)
    BY <1>1, <1>3 DEF ErasedFrom, RecLen, Cell
  <2>5. LogAt(flash, num + 1)
    BY <1>1, <1>2, <2>2, <2>3, <2>4 DEF LogAt, UsedBelow, ErasedFrom
  <2> QED
    BY <1>1, <2>5, LogAtRecoverable
<1> QED
  BY <1>4, <1>5

LEMMA EraseRecoverable ==
  ASSUME NEW c \in Ctx, TypeOK, ErasePhase(c), ResetPhase(c), HeaderPhase(c),
         pc[c] \in {"erase", "reset", "header"}
  PROVE  Recoverable
<1>1. pos[c] \in Nat
  BY DEF TypeOK
<1>2. CASE pc[c] = "erase"
  BY <1>1, <1>2, ErasedRecoverable, SizesAreNat DEF ErasePhase
<1>3. CASE pc[c] = "reset"
  BY <1>3, ErasedRecoverable, SizesAreNat DEF ResetPhase, ErasedFrom
<1>4. CASE pc[c] = "header"
  <2>1. ErasedFrom(flash, pos[c])
    BY <1>4 DEF HeaderPhase
  <2>2. CASE pos[c] < IdLen
    <3>1. pos[c] \in Cell /\ pos[c] \in 0 .. IdLen - 1
      BY <1>1, <2>2, SizesAreNat DEF Cell, RecLen
    <3>2. flash[pos[c]] = Blank
      BY <1>1, <2>1, <3>1 DEF ErasedFrom
    <3> QED
      BY <3>1, <3>2, SizesAreNat DEF Recoverable, GetRecordHeader
  <2>3. CASE pos[c] >= IdLen
    <3>1. Slot(0) = HdrLen /\ Slot(0) < Area
      BY SizesAreNat DEF Slot, RecLen
    <3>2. pos[c] < HdrLen
      BY <1>4 DEF HeaderPhase
    <3>3. \A a \in Cell : a >= Slot(0) => flash[a] = Blank
      BY <1>1, <2>1, <3>1, <3>2, SizesAreNat DEF ErasedFrom, Cell
    <3>4. LogAt(flash, 0)
      BY <3>1, <3>3 DEF LogAt
    <3> QED
      BY <3>4, LogAtRecoverable
  <2> QED
    BY <1>1, <2>2, <2>3, SizesAreNat
<1> QED
  BY <1>2, <1>3, <1>4

LEMMA IInvRecoverable == IInv => Recoverable
<1> SUFFICES ASSUME IInv PROVE Recoverable
  OBVIOUS
<1>1. TypeOK /\ Contexts /\ num \in Nat /\ found \in Nat
  BY DEF IInv, TypeOK
<1>2. CASE mode = "run" /\ pc["isr"] = "idle"
  BY <1>1, <1>2, LogAtRecoverable DEF IInv, IdlePhase
<1>3. CASE pc["isr"] = "write"
  BY <1>3, WriteRecoverable DEF IInv
<1>4. CASE \E c \in Ctx : pc[c] \in {"erase", "reset", "header"}
  BY <1>4, EraseRecoverable DEF IInv
<1>5. CASE mode # "run" /\ pc["base"] \in {"check", "scan", "publish", "lastid"}
  BY <1>1, <1>5, LogAtRecoverable DEF IInv, BootPhase
<1> QED
  BY <1>1, <1>2, <1>3, <1>4, <1>5 DEF Contexts, Ctx

LEMMA PowerCycleIInv == IInv /\ PowerCycle => IInv'
<1> SUFFICES ASSUME IInv, PowerCycle PROVE IInv'
  OBVIOUS
<1>1. Recoverable'
  BY IInvRecoverable DEF PowerCycle, Recoverable, LogAt
<1>2. TypeOK'
  <2>1. flash' \in [Cell -> HalfWord]
    BY DEF IInv, TypeOK, PowerCycle
  <2>2. image' \in [Ctx -> Seq(HalfWord)] /\ pos' \in [Ctx -> Nat]
    BY DEF PowerCycle, Reset
  <2>3. pc' \in [Ctx -> {"idle", "check"}]
    BY DEF PowerCycle, Reset, Ctx
  <2> QED
    BY <2>1, <2>2, <2>3, SizesAreNat DEF TypeOK, PowerCycle, Reset
<1>3. Contexts' /\ (lastId < W * W)' /\ ~pgerr'
  BY SizesAreNat DEF PowerCycle, Reset, Contexts, Ctx
<1> QED
  BY <1>1, <1>2, <1>3 DEF IInv, PowerCycle, Reset, IdlePhase, WritePhase,
     BootPhase, ErasePhase, ResetPhase, HeaderPhase, Ctx

-----------------------------------------------------------------------------
(* Writing a record. *)

LEMMA WriteRecordIInv ==
  ASSUME NEW wm \in Payload, NEW frames \in Payload, IInv,
         mode = "run", lastId < MaxId, WriteRecord(wm, frames)
  PROVE  IInv'
<1> DEFINE img == RecordImage(lastId + 1, wm, frames)
<1>0. TypeOK /\ Contexts /\ lastId \in Nat /\ lastId + 1 < W * W - 1
      /\ W * W \in Nat
  BY FlashParameters DEF IInv, TypeOK
<1>1. TypeOK /\ Contexts /\ lastId \in Nat /\ lastId + 1 < W * W - 1
      /\ NextId = lastId + 1
  BY <1>0, NextIdIs
<1>2. img \in [1 .. RecLen -> HalfWord] /\ img \in Seq(HalfWord)
  <2>1. Lo(lastId + 1) \in HalfWord /\ Hi(lastId + 1) \in HalfWord
    BY <1>1, HalvesOfId, SizesAreNat
  <2>2. wm \in HalfWord /\ frames \in HalfWord
    BY FlashParameters DEF HalfWord
  <2> QED
    BY <2>1, <2>2 DEF RecordImage, RecLen
<1>3. img[1] # Blank \/ img[2] # Blank
  BY <1>1, IdNotErased DEF RecordImage
<1>4. /\ pc' = [pc EXCEPT !["isr"] = "write"] /\ pos' = [pos EXCEPT !["isr"] = 0]
      /\ image' = [image EXCEPT !["isr"] = img]
      /\ UNCHANGED <<flash, locked, pgerr, address, num, lastId, mode, found>>
      /\ mode = "run" /\ pc["isr"] = "idle" /\ Fits
  BY <1>1 DEF WriteRecord, Goto, ram
<1>5. TypeOK' /\ Contexts'
  BY <1>1, <1>2, <1>4 DEF TypeOK, Contexts, Ctx
<1>6. IdlePhase' /\ BootPhase'
  BY <1>1, <1>4 DEF IInv, BootPhase, IdlePhase, Contexts, TypeOK, Ctx, Recoverable
<1>7. WritePhase'
  <2>1. GetRecordHeader(flash) /\ address = Slot(num) /\ LogAt(flash, num)
    BY <1>4 DEF IInv, IdlePhase
  <2>2. image'["isr"] = img /\ pos'["isr"] = 0 /\ pc'["isr"] = "write"
    BY <1>1, <1>4 DEF TypeOK, Ctx
  <2>3. ErasedFrom(flash, address + 0) /\ UsedBelow(flash, num)
    BY <1>1, <2>1 DEF LogAt, ErasedFrom, UsedBelow, TypeOK
  <2>4. Holds(flash', address', image'["isr"], pos'["isr"])
    BY <2>2 DEF Holds
  <2> QED
    <3>1. /\ GetRecordHeader(flash') /\ address' = Slot(num') /\ Fits'
          /\ UsedBelow(flash', num') /\ ErasedFrom(flash', address' + pos'["isr"])
      BY <1>4, <2>1, <2>2, <2>3 DEF Fits
    <3>2. lastId' + 1 < W * W /\ 0 < RecLen
      BY <1>1, <1>4, SizesAreNat DEF RecLen
    <3> QED
      BY <1>2, <1>3, <2>2, <2>4, <3>1, <3>2 DEF WritePhase
<1>8. \A c \in Ctx : ErasePhase(c)' /\ ResetPhase(c)' /\ HeaderPhase(c)'
  BY <1>1, <1>4 DEF Contexts, TypeOK, ErasePhase, ResetPhase, HeaderPhase, Ctx
<1> QED
  BY <1>1, <1>4, <1>5, <1>6, <1>7, <1>8 DEF IInv

(* Programming an erased half-word of the area with the controller open     *)
(* takes effect and raises no error.                                        *)
LEMMA ProgramErased ==
  ASSUME NEW a \in Cell, NEW v \in HalfWord, TypeOK, ~pgerr,
         flash[a] = Blank, FLASH_ProgramHalfWord(a, v, FALSE)
  PROVE  /\ flash' = [flash EXCEPT ![a] = v] /\ pgerr' = pgerr
         /\ flash' \in [Cell -> HalfWord]
BY DEF FLASH_ProgramHalfWord, TypeOK

LEMMA WriteHalfWordStep ==
  ASSUME IInv, WriteHalfWord
  PROVE  /\ pos["isr"] \in 0 .. RecLen - 1 /\ address + pos["isr"] \in Cell
         /\ flash' = [flash EXCEPT ![address + pos["isr"]] =
                                     image["isr"][pos["isr"] + 1]]
         /\ flash' \in [Cell -> HalfWord] /\ ~pgerr'
         /\ locked' \in BOOLEAN /\ pgerr' \in BOOLEAN
         /\ pos["isr"] + 1 \notin {2, 3, 4} => ~locked'
<1> DEFINE p == pos["isr"]
           v == image["isr"][p + 1]
           closed == locked /\ p \notin {0, 2, 3}
<1>1. WritePhase /\ TypeOK /\ ~pgerr /\ pc["isr"] = "write"
  BY DEF IInv, WriteHalfWord
<1>2. p \in Nat /\ p < RecLen /\ address \in Nat /\ address + RecLen < Area
  BY <1>1, SizesAreNat DEF WritePhase, TypeOK, Ctx, Fits, Slot, RecLen
<1>3. address + p \in Cell /\ p \in 0 .. RecLen - 1 /\ p + 1 \in 1 .. RecLen
  BY <1>2, SizesAreNat DEF Cell, RecLen
<1>4. ~closed /\ v \in HalfWord /\ flash[address + p] = Blank
  <2>1. ~closed
    BY <1>1 DEF WritePhase
  <2>2. v \in HalfWord
    BY <1>1, <1>3 DEF WritePhase
  <2>3. flash[address + p] = Blank
    BY <1>1, <1>2, <1>3 DEF WritePhase, ErasedFrom
  <2> QED
    BY <2>1, <2>2, <2>3
<1>5. /\ FLASH_ProgramHalfWord(address + p, v, closed)
      /\ locked' = (closed \/ pgerr' \/ p + 1 \in {2, 3, 4})
  BY <1>1 DEF WriteHalfWord, Usr_Flash_Write, FieldStart, FieldEnd
<1>6. closed = FALSE
  BY <1>1, <1>4 DEF TypeOK
<1>7. FLASH_ProgramHalfWord(address + p, v, FALSE)
  BY <1>5, <1>6
<1>8. /\ flash' = [flash EXCEPT ![address + p] = v] /\ pgerr' = pgerr
      /\ flash' \in [Cell -> HalfWord]
  BY <1>1, <1>3, <1>4, <1>7, ProgramErased
<1>9. locked' \in BOOLEAN
  BY <1>5
<1>10. p + 1 \notin {2, 3, 4} => ~locked'
  BY <1>1, <1>4, <1>5, <1>8
<1>11. ~pgerr' /\ pgerr' \in BOOLEAN
  BY <1>1, <1>8 DEF TypeOK
<1> QED
  BY <1>3, <1>8, <1>9, <1>10, <1>11

(* The half-word programmed extends what the slot holds, touches neither    *)
(* the header nor an earlier record, and leaves the rest erased.            *)
LEMMA WriteHalfWordEffect ==
  ASSUME IInv, WriteHalfWord
  PROVE  /\ GetRecordHeader(flash') /\ UsedBelow(flash', num)
         /\ ErasedFrom(flash', address + (pos["isr"] + 1))
         /\ Holds(flash', address, image["isr"], pos["isr"] + 1)
<1> DEFINE p == pos["isr"]
<1>1. WritePhase /\ TypeOK /\ pc["isr"] = "write"
  BY DEF IInv, WriteHalfWord
<1>2. /\ p \in 0 .. RecLen - 1 /\ address + p \in Cell
      /\ flash' = [flash EXCEPT ![address + p] = image["isr"][p + 1]]
      /\ flash \in [Cell -> HalfWord]
  BY <1>1, WriteHalfWordStep DEF TypeOK
<1>3. /\ num \in Nat /\ address = HdrLen + 4 * num /\ address + 4 < Area
      /\ GetRecordHeader(flash) /\ UsedBelow(flash, num)
      /\ ErasedFrom(flash, address + p) /\ Holds(flash, address, image["isr"], p)
  BY <1>1 DEF WritePhase, TypeOK, Slot, RecLen, Fits
<1>4. GetRecordHeader(flash')
  <2> SUFFICES ASSUME NEW k \in 0 .. IdLen - 1 PROVE flash'[k] = Sig
    BY DEF GetRecordHeader
  <2>1. k \in Cell /\ k < address + p
    BY <1>2, <1>3, SizesAreNat DEF Cell, RecLen
  <2> QED
    BY <1>2, <1>3, <2>1 DEF GetRecordHeader
<1>5. UsedBelow(flash', num)
  <2> SUFFICES ASSUME NEW i \in 0 .. num - 1 PROVE Used(flash', Slot(i))
    BY DEF UsedBelow
  <2>1. /\ Slot(i) \in Cell /\ Slot(i) + 1 \in Cell
        /\ Slot(i) < address + p /\ Slot(i) + 1 < address + p
    BY <1>2, <1>3, SizesAreNat DEF Slot, Cell, RecLen
  <2>2. flash'[Slot(i)] = flash[Slot(i)] /\ flash'[Slot(i) + 1] = flash[Slot(i) + 1]
    BY <1>2, <1>3, <2>1, SizesAreNat DEF Cell
  <2> QED
    BY <1>3, <2>2 DEF UsedBelow, Used
<1>6. ErasedFrom(flash', address + (p + 1))
  <2> SUFFICES ASSUME NEW b \in Cell, b >= address + (p + 1)
               PROVE  flash'[b] = Blank
    BY DEF ErasedFrom
  <2>1. b > address + p /\ b >= address + p
    BY <1>2, <1>3, SizesAreNat DEF Cell, RecLen
  <2>2. flash[b] = Blank
    BY <1>3, <2>1 DEF ErasedFrom
  <2> QED
    BY <1>2, <2>1, <2>2 DEF Cell
<1>7. Holds(flash', address, image["isr"], p + 1)
  <2> SUFFICES ASSUME NEW j \in 0 .. p
               PROVE  flash'[address + j] = image["isr"][j + 1]
    BY <1>2, SizesAreNat DEF Holds, RecLen
  <2>1. address + j \in Cell
    <3>1. HdrLen \in Nat /\ Area \in Nat
      BY SizesAreNat
    <3>2. address \in Nat /\ j \in 0 .. 3
      BY <1>2, <1>3, <3>1 DEF RecLen
    <3> QED
      BY <1>3, <3>1, <3>2 DEF Cell
  <2>2. CASE j = p
    BY <1>2, <2>2
  <2>3. CASE j < p
    BY <1>2, <1>3, <2>1, <2>3, SizesAreNat DEF Holds, RecLen
  <2> QED
    BY <1>2, <2>2, <2>3 DEF RecLen
<1> QED
  BY <1>4, <1>5, <1>6, <1>7

LEMMA WriteHalfWordIInv == IInv /\ WriteHalfWord => IInv'
<1> SUFFICES ASSUME IInv, WriteHalfWord PROVE IInv'
  OBVIOUS
<1> DEFINE p == pos["isr"]
<1>1. TypeOK /\ Contexts /\ WritePhase /\ pc["isr"] = "write" /\ mode = "run"
  BY DEF IInv, WriteHalfWord, Contexts
<1>2. /\ p \in 0 .. RecLen - 1
      /\ flash' \in [Cell -> HalfWord] /\ ~pgerr'
      /\ locked' \in BOOLEAN /\ pgerr' \in BOOLEAN
      /\ p + 1 \notin {2, 3, 4} => ~locked'
  BY WriteHalfWordStep
<1>3. /\ GetRecordHeader(flash') /\ UsedBelow(flash', num)
      /\ ErasedFrom(flash', address + (p + 1))
      /\ Holds(flash', address, image["isr"], p + 1)
  BY WriteHalfWordEffect
<1>4. UNCHANGED <<mode, found>>
  BY DEF WriteHalfWord
<1>5. lastId \in Nat /\ num \in Nat /\ address = Slot(num) /\ address \in Nat
      /\ address + RecLen < Area /\ lastId + 1 < W * W
  BY <1>1, SizesAreNat DEF TypeOK, WritePhase, Fits, Slot, RecLen
<1>6. CASE p + 1 < RecLen
  <2>1. /\ pc' = [pc EXCEPT !["isr"] = "write"] /\ pos' = [pos EXCEPT !["isr"] = p + 1]
        /\ UNCHANGED <<address, num, lastId, image>>
    BY <1>6 DEF WriteHalfWord, Goto, ram
  <2>2. TypeOK' /\ Contexts'
    <3>1. pc' = pc
      BY <1>1, <2>1 DEF TypeOK, Ctx
    <3>2. p + 1 \in Nat
      BY <1>2 DEF RecLen
    <3>3. pos' \in [Ctx -> Nat]
      BY <1>1, <2>1, <3>2 DEF TypeOK
    <3> QED
      BY <1>1, <1>2, <1>4, <2>1, <3>1, <3>3 DEF TypeOK, Contexts
  <2>3. pc'["isr"] = "write" /\ pos'["isr"] = p + 1 /\ pc'["base"] = "idle"
    BY <1>1, <2>1 DEF TypeOK, Contexts, Ctx
  <2>4. WritePhase'
    <3>1. p + 1 \notin {0, 2, 3} => ~locked'
      BY <1>2, <1>6 DEF RecLen
    <3>2. Fits'
      BY <1>5, <2>1 DEF Fits
    <3> QED
      BY <1>1, <1>3, <1>5, <1>6, <2>1, <2>3, <3>1, <3>2 DEF WritePhase
  <2>5. IdlePhase' /\ BootPhase'
    BY <1>1, <1>4, <2>3 DEF IdlePhase, BootPhase, IInv, Contexts
  <2>6. \A c \in Ctx : ErasePhase(c)' /\ ResetPhase(c)' /\ HeaderPhase(c)'
    BY <2>3 DEF ErasePhase, ResetPhase, HeaderPhase, Ctx
  <2> QED
    BY <1>2, <1>5, <2>1, <2>2, <2>4, <2>5, <2>6 DEF IInv
<1>7. CASE p + 1 >= RecLen
  <2>1. /\ pc' = [pc EXCEPT !["isr"] = "idle"] /\ pos' = [pos EXCEPT !["isr"] = 0]
        /\ image' = [image EXCEPT !["isr"] = <<>>]
        /\ address' = address + RecLen /\ num' = num + 1 /\ lastId' = lastId + 1
    BY <1>2, <1>5, <1>7, NextIdIs DEF WriteHalfWord, Goto, RecLen
  <2>2. pc'["isr"] = "idle" /\ pc'["base"] = "idle"
    BY <1>1, <2>1 DEF TypeOK, Contexts, Ctx
  <2>3. TypeOK' /\ Contexts'
    <3>1. image' \in [Ctx -> Seq(HalfWord)]
      <4>1. << >> \in Seq(HalfWord)
        OBVIOUS
      <4> QED
        BY <1>1, <2>1, <4>1 DEF TypeOK
    <3>2. pc' \in [Ctx -> {"idle", "write", "erase", "reset", "header",
                           "check", "scan", "publish", "lastid"}]
      BY <1>1, <2>1 DEF TypeOK
    <3>3. pos' \in [Ctx -> Nat]
      BY <1>1, <2>1 DEF TypeOK
    <3>4. address' \in Nat /\ num' \in Nat /\ lastId' \in Nat
      BY <1>5, <2>1 DEF RecLen
    <3> QED
      BY <1>1, <1>2, <1>4, <2>2, <3>1, <3>2, <3>3, <3>4 DEF TypeOK, Contexts
  <2>4. p = 3 /\ RecLen = 4
    BY <1>2, <1>7 DEF RecLen
  <2>5. flash'[address] = image["isr"][1] /\ flash'[address + 1] = image["isr"][2]
    BY <1>3, <1>5, <2>4 DEF Holds
  <2>6. Used(flash', Slot(num))
    BY <1>1, <1>5, <2>5 DEF WritePhase, Used
  <2>7. UsedBelow(flash', num + 1)
    BY <1>3, <1>5, <2>6 DEF UsedBelow
  <2>8. address' = Slot(num') /\ Slot(num') < Area
    BY <1>5, <2>1, SizesAreNat DEF Slot, RecLen
  <2>9. LogAt(flash', num')
    BY <1>3, <1>5, <2>1, <2>4, <2>7, <2>8 DEF LogAt, UsedBelow, ErasedFrom
  <2>10. IdlePhase' /\ BootPhase' /\ WritePhase'
    BY <1>1, <1>3, <1>4, <2>2, <2>8, <2>9
    DEF IdlePhase, BootPhase, WritePhase, IInv, Contexts
  <2>11. \A c \in Ctx : ErasePhase(c)' /\ ResetPhase(c)' /\ HeaderPhase(c)'
    BY <2>2 DEF ErasePhase, ResetPhase, HeaderPhase, Ctx
  <2> QED
    BY <1>2, <1>5, <2>1, <2>3, <2>10, <2>11 DEF IInv
<1> QED
  BY <1>2, <1>6, <1>7, SizesAreNat DEF RecLen

-----------------------------------------------------------------------------
(* Erasing the area, from a USART interrupt or from Usr_Flash_Init.         *)

Erasing(c) ==
  /\ \/ c = "isr" /\ mode = "run"
     \/ c = "base" /\ mode = "boot"
  /\ \A d \in Ctx : d # c => pc[d] = "idle"
  /\ found = 0 /\ lastId \in Nat /\ lastId < W * W

(* A context in the middle of an erase is the only active one. *)
LEMMA OneErasing ==
  ASSUME IInv, NEW c \in Ctx, mode # "fault",
         pc[c] \in {"erase", "reset", "header"}
  PROVE  Erasing(c) /\ pos[c] \in Nat /\ ~pgerr
<1>1. TypeOK /\ Contexts /\ BootPhase /\ ~pgerr /\ lastId < W * W
  BY DEF IInv
<1>2. CASE c = "isr"
  <2>1. mode = "run" /\ pc["base"] = "idle" /\ found = 0
    BY <1>1, <1>2 DEF TypeOK, Contexts, BootPhase
  <2> QED
    BY <1>1, <1>2, <2>1 DEF TypeOK, Erasing, Ctx
<1>3. CASE c = "base"
  <2>1. mode = "boot" /\ pc["isr"] = "idle" /\ found = 0
    BY <1>1, <1>3 DEF TypeOK, Contexts, BootPhase
  <2> QED
    BY <1>1, <1>3, <2>1 DEF TypeOK, Erasing, Ctx
<1> QED
  BY <1>2, <1>3 DEF Ctx

(* In such a state the invariant is that of the erase alone. *)
LEMMA ErasingIInv ==
  ASSUME NEW c \in Ctx, TypeOK', Erasing(c)', ~pgerr',
         pc'[c] \in {"erase", "reset", "header"},
         ErasePhase(c)', ResetPhase(c)', HeaderPhase(c)'
  PROVE  IInv'
<1>1. Contexts' /\ WritePhase' /\ BootPhase' /\ IdlePhase'
  BY DEF Erasing, Contexts, WritePhase, BootPhase, IdlePhase, Ctx
<1>2. \A d \in Ctx : ErasePhase(d)' /\ ResetPhase(d)' /\ HeaderPhase(d)'
  BY DEF Erasing, ErasePhase, ResetPhase, HeaderPhase
<1>3. (lastId < W * W)'
  BY DEF Erasing
<1> QED
  BY <1>1, <1>2, <1>3 DEF IInv

(* A context changes its label and loop variable; the types are kept.       *)
LEMMA GotoTypes ==
  ASSUME NEW c \in Ctx, NEW p \in Nat, TypeOK,
         NEW l \in {"idle", "write", "erase", "reset", "header",
                    "check", "scan", "publish", "lastid"},
         Goto(c, l, p)
  PROVE  /\ pc' \in [Ctx -> {"idle", "write", "erase", "reset", "header",
                              "check", "scan", "publish", "lastid"}]
         /\ pos' \in [Ctx -> Nat]
         /\ pc'[c] = l /\ pos'[c] = p
         /\ \A d \in Ctx : d # c => pc'[d] = pc[d]
BY DEF Goto, TypeOK

LEMMA EraseRecordIInv ==
  ASSUME NEW c \in Ctx, IInv, EraseRecord(c),
         \/ c = "isr" /\ mode = "run" /\ pc["isr"] = "idle"
         \/ c = "base" /\ mode = "boot" /\ pc["base"] = "check"
  PROVE  IInv'
<1>1. /\ TypeOK /\ Contexts /\ Recoverable /\ BootPhase
      /\ lastId < W * W /\ ~pgerr
  BY IInvRecoverable DEF IInv
<1>2. /\ locked' = FALSE /\ Goto(c, "erase", 0)
      /\ UNCHANGED <<flash, pgerr, address, num, lastId, mode, image, found>>
  BY DEF EraseRecord, ram
<1>3. /\ pc' \in [Ctx -> {"idle", "write", "erase", "reset", "header",
                           "check", "scan", "publish", "lastid"}]
      /\ pos' \in [Ctx -> Nat] /\ pc'[c] = "erase" /\ pos'[c] = 0
      /\ \A d \in Ctx : d # c => pc'[d] = pc[d]
  BY <1>1, <1>2, GotoTypes
<1>4. TypeOK'
  BY <1>1, <1>2, <1>3 DEF TypeOK
<1>5. Erasing(c)'
  <2>1. \A d \in Ctx : d # c => pc'[d] = "idle"
    BY <1>1, <1>3 DEF Contexts, Ctx
  <2>2. found = 0
    BY <1>1 DEF Contexts, BootPhase
  <2> QED
    BY <1>1, <1>2, <1>4, <2>1, <2>2, SizesAreNat DEF Erasing, TypeOK
<1>6. Recoverable'
  BY <1>1, <1>2 DEF Recoverable
<1>7. ErasePhase(c)' /\ ResetPhase(c)' /\ HeaderPhase(c)'
  BY <1>2, <1>3, <1>6, SizesAreNat DEF ErasePhase, ResetPhase, HeaderPhase, Cell
<1> QED
  BY <1>1, <1>2, <1>3, <1>4, <1>5, <1>7, ErasingIInv

LEMMA ErasePageIInv ==
  ASSUME NEW c \in Ctx, IInv, ErasePage(c)
  PROVE  IInv'
<1>1. TypeOK /\ ErasePhase(c) /\ pc[c] = "erase" /\ mode # "fault"
  BY DEF IInv, ErasePage, Runs
<1>2. Erasing(c) /\ pos[c] \in Nat /\ ~pgerr /\ ~locked
  BY <1>1, OneErasing DEF ErasePhase
<1>3. /\ flash' = [a \in Cell |-> IF a \in pos[c] .. pos[c] + PageLen - 1
                                  THEN Blank ELSE flash[a]]
      /\ Goto(c, "erase", pos[c] + PageLen)
      /\ UNCHANGED <<locked, pgerr, address, num, lastId, mode, image, found>>
  BY <1>2 DEF ErasePage, ram
<1>4. pos[c] + PageLen \in Nat /\ pos[c] + PageLen > 0
  BY <1>2, SizesAreNat
<1>5. /\ pc' \in [Ctx -> {"idle", "write", "erase", "reset", "header",
                           "check", "scan", "publish", "lastid"}]
      /\ pos' \in [Ctx -> Nat] /\ pc'[c] = "erase" /\ pos'[c] = pos[c] + PageLen
      /\ \A d \in Ctx : d # c => pc'[d] = pc[d]
  BY <1>1, <1>3, <1>4, GotoTypes
<1>6. flash' \in [Cell -> HalfWord]
  BY <1>1, <1>3, SizesAreNat DEF TypeOK
<1>7. TypeOK'
  BY <1>1, <1>3, <1>5, <1>6 DEF TypeOK
<1>8. Erasing(c)'
  BY <1>2, <1>3, <1>5 DEF Erasing
<1>9. \A a \in Cell : a < pos[c] + PageLen => flash'[a] = Blank
  BY <1>1, <1>2, <1>3, SizesAreNat DEF ErasePhase, Cell
<1>10. ErasePhase(c)' /\ ResetPhase(c)' /\ HeaderPhase(c)'
  BY <1>2, <1>3, <1>4, <1>5, <1>9 DEF ErasePhase, ResetPhase, HeaderPhase
<1> QED
  BY <1>2, <1>3, <1>5, <1>7, <1>8, <1>10, ErasingIInv

LEMMA PagesErasedIInv ==
  ASSUME NEW c \in Ctx, IInv, PagesErased(c)
  PROVE  IInv'
<1>1. TypeOK /\ ErasePhase(c) /\ pc[c] = "erase" /\ mode # "fault" /\ pos[c] >= Area
  BY DEF IInv, PagesErased, Runs
<1>2. Erasing(c) /\ pos[c] \in Nat /\ ~pgerr
  BY <1>1, OneErasing
<1>3. /\ locked' = TRUE /\ address' = HdrLen /\ Goto(c, "reset", 0)
      /\ UNCHANGED <<flash, pgerr, num, lastId, mode, image, found>>
  BY DEF PagesErased
<1>4. /\ pc' \in [Ctx -> {"idle", "write", "erase", "reset", "header",
                           "check", "scan", "publish", "lastid"}]
      /\ pos' \in [Ctx -> Nat] /\ pc'[c] = "reset"
      /\ \A d \in Ctx : d # c => pc'[d] = pc[d]
  BY <1>1, <1>3, GotoTypes
<1>5. TypeOK'
  BY <1>1, <1>3, <1>4, SizesAreNat DEF TypeOK
<1>6. Erasing(c)'
  BY <1>2, <1>3, <1>4 DEF Erasing
<1>7. ErasedFrom(flash, 0)
  BY <1>1, <1>2, SizesAreNat DEF ErasePhase, ErasedFrom, Cell
<1>8. ErasePhase(c)' /\ ResetPhase(c)' /\ HeaderPhase(c)'
  BY <1>3, <1>4, <1>7 DEF ErasePhase, ResetPhase, HeaderPhase, ErasedFrom
<1> QED
  BY <1>2, <1>3, <1>4, <1>5, <1>6, <1>8, ErasingIInv

LEMMA ResetNumIInv ==
  ASSUME NEW c \in Ctx, IInv, ResetNum(c)
  PROVE  IInv'
<1> DEFINE img == HeaderImage(lastId)
<1>1. TypeOK /\ ResetPhase(c) /\ pc[c] = "reset" /\ mode # "fault"
  BY DEF IInv, ResetNum, Runs
<1>2. Erasing(c) /\ ~pgerr
  BY <1>1, OneErasing
<1>3. /\ num' = 0 /\ image' = [image EXCEPT ![c] = img] /\ Goto(c, "header", 0)
      /\ UNCHANGED <<flash, locked, pgerr, address, lastId, mode, found>>
  BY DEF ResetNum
<1>4. /\ pc' \in [Ctx -> {"idle", "write", "erase", "reset", "header",
                           "check", "scan", "publish", "lastid"}]
      /\ pos' \in [Ctx -> Nat] /\ pc'[c] = "header" /\ pos'[c] = 0
      /\ \A d \in Ctx : d # c => pc'[d] = pc[d]
  BY <1>1, <1>3, GotoTypes
<1>5. /\ img \in [1 .. HdrLen -> HalfWord]
      /\ \A k \in 1 .. IdLen : img[k] = Sig
  <2>1. Lo(lastId) \in HalfWord /\ Hi(lastId) \in HalfWord
    BY <1>2, HalvesOfId, SizesAreNat DEF Erasing
  <2> QED
    BY <2>1, SizesAreNat DEF HeaderImage, HdrLen
<1>6. img \in Seq(HalfWord)
  BY <1>5, SizesAreNat
<1>7. TypeOK'
  <2>1. image' \in [Ctx -> Seq(HalfWord)]
    BY <1>1, <1>3, <1>6 DEF TypeOK
  <2> QED
    BY <1>1, <1>3, <1>4, <2>1 DEF TypeOK
<1>8. Erasing(c)'
  BY <1>2, <1>3, <1>4 DEF Erasing
<1>9. image'[c] = img
  BY <1>1, <1>3 DEF TypeOK
<1>10. HeaderPhase(c)'
  BY <1>1, <1>3, <1>4, <1>5, <1>9, SizesAreNat
  DEF ResetPhase, HeaderPhase, ErasedFrom, Holds
<1>11. ErasePhase(c)' /\ ResetPhase(c)'
  BY <1>4 DEF ErasePhase, ResetPhase
<1> QED
  BY <1>2, <1>3, <1>4, <1>7, <1>8, <1>10, <1>11, ErasingIInv

LEMMA SetRecordHeaderStep ==
  ASSUME NEW c \in Ctx, IInv, SetRecordHeader(c)
  PROVE  /\ pos[c] \in Nat /\ pos[c] < HdrLen
         /\ flash' \in [Cell -> HalfWord] /\ ~pgerr'
         /\ locked' \in BOOLEAN /\ pgerr' \in BOOLEAN
         /\ pos[c] + 1 \notin {IdLen, HdrLen} => ~locked'
         /\ ErasedFrom(flash', pos[c] + 1)
         /\ Holds(flash', 0, image[c], pos[c] + 1)
<1> DEFINE p == pos[c]
           v == image[c][p + 1]
           closed == locked /\ p \notin {0, IdLen}
<1>1. HeaderPhase(c) /\ TypeOK /\ ~pgerr /\ pc[c] = "header"
  BY DEF IInv, SetRecordHeader
<1>2. /\ p \in Nat /\ p < HdrLen /\ image[c] \in [1 .. HdrLen -> HalfWord]
      /\ ErasedFrom(flash, p) /\ Holds(flash, 0, image[c], p)
  BY <1>1 DEF HeaderPhase, TypeOK
<1>3. p \in Cell /\ p + 1 \in 1 .. HdrLen
  BY <1>2, SizesAreNat DEF Cell, RecLen
<1>4. v \in HalfWord /\ flash[p] = Blank
  <2>1. v \in HalfWord
    BY <1>2, <1>3
  <2>2. flash[p] = Blank
    BY <1>2, <1>3 DEF ErasedFrom
  <2> QED
    BY <2>1, <2>2
<1>5. closed = FALSE
  <2>1. ~closed
    BY <1>1 DEF HeaderPhase
  <2> QED
    BY <1>1, <2>1 DEF TypeOK
<1>6. /\ FLASH_ProgramHalfWord(0 + p, v, closed)
      /\ locked' = (closed \/ pgerr' \/ p + 1 \in {IdLen, HdrLen})
  BY <1>1 DEF SetRecordHeader, Usr_Flash_Write, FieldStart, FieldEnd
<1>7. FLASH_ProgramHalfWord(p, v, FALSE)
  <2>1. 0 + p = p
    BY <1>2
  <2> QED
    BY <1>5, <1>6, <2>1
<1>8. /\ flash' = [flash EXCEPT ![p] = v] /\ pgerr' = pgerr
      /\ flash' \in [Cell -> HalfWord]
  BY <1>1, <1>3, <1>4, <1>7, ProgramErased
<1>9. locked' \in BOOLEAN
  BY <1>6
<1>10. p + 1 \notin {IdLen, HdrLen} => ~locked'
  BY <1>1, <1>5, <1>6, <1>8
<1>11. ~pgerr' /\ pgerr' \in BOOLEAN
  BY <1>1, <1>8 DEF TypeOK
<1>12. ErasedFrom(flash', p + 1)
  <2> SUFFICES ASSUME NEW b \in Cell, b >= p + 1
               PROVE  flash'[b] = Blank
    BY DEF ErasedFrom
  <2>1. b # p /\ b >= p
    BY <1>2, SizesAreNat DEF Cell
  <2> QED
    BY <1>2, <1>8, <2>1, <1>1 DEF ErasedFrom, TypeOK
<1>13. Holds(flash', 0, image[c], p + 1)
  <2> SUFFICES ASSUME NEW j \in 0 .. p
               PROVE  flash'[0 + j] = image[c][j + 1]
    BY <1>2 DEF Holds
  <2>1. 0 + j = j /\ j \in Cell
    BY <1>2, SizesAreNat DEF Cell, RecLen
  <2>2. CASE j = p
    BY <1>1, <1>3, <1>8, <2>1, <2>2 DEF TypeOK
  <2>3. CASE j < p
    <3>1. flash[0 + j] = image[c][j + 1]
      BY <1>2, <2>3 DEF Holds
    <3> QED
      BY <1>2, <1>8, <2>1, <2>3, <3>1, <1>1 DEF TypeOK
  <2> QED
    BY <1>2, <2>2, <2>3
<1> QED
  BY <1>2, <1>8, <1>9, <1>10, <1>11, <1>12, <1>13

(* The header is complete: the area is an empty log. *)
LEMMA HeaderDone ==
  ASSUME NEW c \in Ctx, IInv, SetRecordHeader(c), pos[c] + 1 >= HdrLen
  PROVE  /\ GetRecordHeader(flash') /\ LogAt(flash', 0) /\ UsedBelow(flash', 0)
         /\ Slot(0) = HdrLen
<1>1. /\ pos[c] \in Nat /\ pos[c] + 1 = HdrLen
      /\ ErasedFrom(flash', HdrLen) /\ Holds(flash', 0, image[c], HdrLen)
  <2>1. pos[c] + 1 = HdrLen
    BY SetRecordHeaderStep, SizesAreNat
  <2> QED
    BY <2>1, SetRecordHeaderStep
<1>2. \A k \in 1 .. IdLen : image[c][k] = Sig
  BY DEF IInv, SetRecordHeader, HeaderPhase
<1>3. GetRecordHeader(flash')
  <2> SUFFICES ASSUME NEW k \in 0 .. IdLen - 1 PROVE flash'[k] = Sig
    BY DEF GetRecordHeader
  <2>1. k \in 0 .. HdrLen - 1 /\ 0 + k = k /\ k + 1 \in 1 .. IdLen
    BY SizesAreNat
  <2> QED
    BY <1>1, <1>2, <2>1 DEF Holds
<1>4. Slot(0) = HdrLen /\ HdrLen < Area
  BY SizesAreNat DEF Slot, RecLen
<1> QED
  BY <1>1, <1>3, <1>4, SizesAreNat DEF LogAt, UsedBelow, ErasedFrom

LEMMA SetRecordHeaderIInv ==
  ASSUME NEW c \in Ctx, IInv, SetRecordHeader(c)
  PROVE  IInv'
<1>1. TypeOK /\ HeaderPhase(c) /\ pc[c] = "header" /\ mode # "fault"
  BY DEF IInv, SetRecordHeader, Runs
<1>2. Erasing(c) /\ address = HdrLen /\ num = 0
  BY <1>1, OneErasing DEF HeaderPhase
<1>3. /\ pos[c] \in Nat /\ pos[c] < HdrLen
      /\ flash' \in [Cell -> HalfWord] /\ ~pgerr'
      /\ locked' \in BOOLEAN /\ pgerr' \in BOOLEAN
      /\ pos[c] + 1 \notin {IdLen, HdrLen} => ~locked'
      /\ ErasedFrom(flash', pos[c] + 1)
      /\ Holds(flash', 0, image[c], pos[c] + 1)
  BY SetRecordHeaderStep
<1>4. UNCHANGED <<address, num, lastId, mode, found>>
  BY DEF SetRecordHeader, ram
<1>5. CASE pos[c] + 1 < HdrLen
  <2>1. Goto(c, "header", pos[c] + 1) /\ image' = image
    BY <1>5 DEF SetRecordHeader
  <2>2. /\ pc' \in [Ctx -> {"idle", "write", "erase", "reset", "header",
                             "check", "scan", "publish", "lastid"}]
        /\ pos' \in [Ctx -> Nat] /\ pc'[c] = "header" /\ pos'[c] = pos[c] + 1
        /\ \A d \in Ctx : d # c => pc'[d] = pc[d]
    BY <1>1, <1>3, <2>1, GotoTypes
  <2>3. TypeOK'
    BY <1>1, <1>3, <1>4, <2>1, <2>2 DEF TypeOK
  <2>4. Erasing(c)'
    BY <1>2, <1>4, <2>2 DEF Erasing
  <2>5. HeaderPhase(c)'
    <3>1. pos'[c] \notin {0, IdLen} => ~locked'
      BY <1>3, <1>5, <2>2, SizesAreNat
    <3> QED
      BY <1>1, <1>2, <1>3, <1>4, <1>5, <2>1, <2>2, <3>1 DEF HeaderPhase
  <2>6. ErasePhase(c)' /\ ResetPhase(c)'
    BY <2>2 DEF ErasePhase, ResetPhase
  <2> QED
    BY <1>3, <2>2, <2>3, <2>4, <2>5, <2>6, ErasingIInv
<1>6. CASE pos[c] + 1 >= HdrLen
  <2>1. /\ Leave(c) /\ image' = [image EXCEPT ![c] = <<>>]
    BY <1>3, <1>6, SizesAreNat DEF SetRecordHeader
  <2>2. /\ GetRecordHeader(flash') /\ LogAt(flash', 0) /\ UsedBelow(flash', 0)
        /\ Slot(0) = HdrLen
    BY <1>6, HeaderDone
  <2>3. image' \in [Ctx -> Seq(HalfWord)]
    <3>1. << >> \in Seq(HalfWord)
      OBVIOUS
    <3> QED
      BY <1>1, <2>1, <3>1 DEF TypeOK
  <2>4. Recoverable'
    <3>1. 0 \in 0 .. Area
      BY SizesAreNat
    <3> QED
      BY <2>2, <3>1 DEF Recoverable
  <2>5. CASE c = "isr"
    <3>1. Goto(c, "idle", 0)
      BY <2>1, <2>5 DEF Leave
    <3>2. /\ pc' \in [Ctx -> {"idle", "write", "erase", "reset", "header",
                               "check", "scan", "publish", "lastid"}]
          /\ pos' \in [Ctx -> Nat] /\ pc'[c] = "idle"
          /\ \A d \in Ctx : d # c => pc'[d] = pc[d]
      BY <1>1, <3>1, GotoTypes
    <3>3. \A d \in Ctx : pc'[d] = "idle"
      BY <1>2, <3>2 DEF Erasing
    <3>4. mode' = "run" /\ found' = 0 /\ (lastId < W * W)'
      BY <1>2, <1>4, <2>5 DEF Erasing
    <3>5. TypeOK'
      BY <1>1, <1>3, <1>4, <2>3, <3>2 DEF TypeOK
    <3>6. IdlePhase'
      BY <1>2, <1>4, <2>2 DEF IdlePhase
    <3> QED
      BY <1>3, <3>3, <3>4, <3>5, <3>6 DEF IInv, Contexts, WritePhase, BootPhase,
         ErasePhase, ResetPhase, HeaderPhase, Ctx
  <2>6. CASE c = "base"
    <3>1. Goto(c, "scan", HdrLen) /\ mode' = "boot"
      BY <1>2, <1>4, <2>1, <2>6 DEF Leave, Erasing
    <3>2. /\ pc' \in [Ctx -> {"idle", "write", "erase", "reset", "header",
                               "check", "scan", "publish", "lastid"}]
          /\ pos' \in [Ctx -> Nat] /\ pc'[c] = "scan" /\ pos'[c] = HdrLen
          /\ \A d \in Ctx : d # c => pc'[d] = pc[d]
      BY <1>1, <3>1, GotoTypes, SizesAreNat
    <3>3. pc'["isr"] = "idle" /\ pc'["base"] = "scan"
      BY <1>2, <2>6, <3>2 DEF Erasing, Ctx
    <3>4. found' = 0 /\ (lastId < W * W)'
      BY <1>2, <1>4 DEF Erasing
    <3>5. TypeOK'
      BY <1>1, <1>3, <1>4, <2>3, <3>2 DEF TypeOK
    <3>6. HdrLen < Area + 3
      BY SizesAreNat DEF RecLen
    <3>7. BootPhase'
      BY <2>2, <2>4, <2>6, <3>1, <3>2, <3>3, <3>4, <3>6 DEF BootPhase
    <3> QED
      BY <1>3, <3>1, <3>3, <3>4, <3>5, <3>7 DEF IInv, Contexts, WritePhase,
         IdlePhase, ErasePhase, ResetPhase, HeaderPhase, Ctx
  <2> QED
    BY <2>5, <2>6 DEF Ctx
<1> QED
  BY <1>3, <1>5, <1>6, SizesAreNat

-----------------------------------------------------------------------------
(* Booting. *)

LEMMA BootCheckIInv == IInv /\ BootCheck => IInv'
<1> SUFFICES ASSUME IInv, BootCheck PROVE IInv'
  OBVIOUS
<1>1. /\ TypeOK /\ Contexts /\ BootPhase /\ Recoverable /\ ~pgerr /\ lastId < W * W
      /\ mode = "boot" /\ pc["base"] = "check" /\ pc["isr"] = "idle" /\ found = 0
  BY IInvRecoverable DEF IInv, BootCheck, Runs, BootPhase
<1>2. CASE ~GetRecordHeader(flash)
  BY <1>1, <1>2, EraseRecordIInv DEF BootCheck, Ctx
<1>3. CASE GetRecordHeader(flash)
  <2>1. /\ Goto("base", "scan", HdrLen)
        /\ UNCHANGED <<locked, flash, pgerr, address, num, lastId, mode, image, found>>
    BY <1>1, <1>3 DEF BootCheck, Leave, ram
  <2>2. /\ pc' \in [Ctx -> {"idle", "write", "erase", "reset", "header",
                             "check", "scan", "publish", "lastid"}]
        /\ pos' \in [Ctx -> Nat] /\ pc'["base"] = "scan" /\ pos'["base"] = HdrLen
        /\ \A d \in Ctx : d # "base" => pc'[d] = pc[d]
    BY <1>1, <2>1, GotoTypes, SizesAreNat
  <2>3. pc'["isr"] = "idle"
    BY <1>1, <2>2 DEF Ctx
  <2>4. TypeOK'
    BY <1>1, <2>1, <2>2 DEF TypeOK
  <2>5. Recoverable' /\ Slot(0) = HdrLen /\ UsedBelow(flash', 0)
    BY <1>1, <2>1, SizesAreNat DEF Recoverable, Slot, UsedBelow, RecLen
  <2>6. HdrLen < Area + 3
    BY SizesAreNat DEF RecLen
  <2>7. BootPhase'
    BY <1>1, <1>3, <2>1, <2>2, <2>5, <2>6 DEF BootPhase
  <2> QED
    BY <1>1, <2>1, <2>2, <2>3, <2>4, <2>7 DEF IInv, Contexts, WritePhase,
       IdlePhase, ErasePhase, ResetPhase, HeaderPhase, Ctx
<1> QED
  BY <1>2, <1>3

(* Where the scan stops on an erased u32, the log ends. *)
LEMMA ScanFindsEnd ==
  ASSUME NEW n \in Nat, Recoverable, GetRecordHeader(flash), UsedBelow(flash, n),
         Slot(n) + 1 < Area, ~Used(flash, Slot(n))
  PROVE  LogAt(flash, n)
<1>1. PICK m \in 0 .. Area : LogAt(flash, m)
  BY DEF Recoverable
<1>2. m <= n
  <2> SUFFICES ASSUME m > n PROVE FALSE
    BY <1>1, SizesAreNat
  <2>1. n \in 0 .. m - 1
    BY <1>1, SizesAreNat
  <2> QED
    BY <1>1, <2>1 DEF LogAt
<1>3. ~(m < n)
  <2> SUFFICES ASSUME m < n PROVE FALSE
    OBVIOUS
  <2>1. Used(flash, Slot(m))
    BY <1>1, SizesAreNat DEF UsedBelow
  <2>2. /\ Slot(m) \in Cell /\ Slot(m) + 1 \in Cell
        /\ Slot(m) >= Slot(m) /\ Slot(m) + 1 >= Slot(m)
    BY <1>1, SizesAreNat DEF Slot, Cell, RecLen
  <2>3. flash[Slot(m)] = Blank /\ flash[Slot(m) + 1] = Blank
    BY <1>1, <2>2 DEF LogAt
  <2> QED
    BY <2>1, <2>3 DEF Used
<1>4. m = n
  BY <1>1, <1>2, <1>3, SizesAreNat
<1> QED
  BY <1>1, <1>4

LEMMA BootScanIInv == IInv /\ BootScan => IInv'
<1> SUFFICES ASSUME IInv, BootScan PROVE IInv'
  OBVIOUS
<1> DEFINE a == pos["base"]
<1>1. /\ TypeOK /\ Contexts /\ BootPhase /\ Recoverable /\ ~pgerr /\ lastId < W * W
      /\ mode = "boot" /\ pc["base"] = "scan" /\ pc["isr"] = "idle"
      /\ UNCHANGED <<flash, locked, pgerr, num, lastId, image>>
  BY IInvRecoverable DEF IInv, BootScan, Runs
<1>2. /\ a = Slot(found) /\ UsedBelow(flash, found) /\ GetRecordHeader(flash)
      /\ found \in Nat /\ a \in Nat /\ a = HdrLen + 4 * found
  BY <1>1, SizesAreNat DEF BootPhase, TypeOK, Slot, RecLen, Ctx
<1>3. Recoverable'
  BY <1>1 DEF Recoverable
<1>4. CASE a + 1 >= Area
  <2>1. mode' = "fault" /\ UNCHANGED <<address, found, pc, pos>>
    BY <1>4 DEF BootScan
  <2>2. TypeOK'
    BY <1>1, <2>1 DEF TypeOK
  <2> QED
    BY <1>1, <1>2, <1>3, <2>1, <2>2 DEF IInv, Contexts, BootPhase, WritePhase,
       IdlePhase, ErasePhase, ResetPhase, HeaderPhase, Ctx
<1>5. CASE a + 1 < Area /\ Used(flash, a)
  <2>1. /\ Goto("base", "scan", a + RecLen) /\ found' = found + 1
        /\ UNCHANGED <<mode, address>>
    BY <1>2, <1>5, SizesAreNat DEF BootScan
  <2>2. a + RecLen \in Nat /\ a + RecLen = Slot(found + 1)
    BY <1>2, SizesAreNat DEF Slot, RecLen
  <2>3. /\ pc' \in [Ctx -> {"idle", "write", "erase", "reset", "header",
                             "check", "scan", "publish", "lastid"}]
        /\ pos' \in [Ctx -> Nat] /\ pc'["base"] = "scan" /\ pos'["base"] = a + RecLen
        /\ \A d \in Ctx : d # "base" => pc'[d] = pc[d]
    BY <1>1, <2>1, <2>2, GotoTypes, SizesAreNat
  <2>4. pc'["isr"] = "idle"
    BY <1>1, <2>3 DEF Ctx
  <2>5. found + 1 \in Nat /\ UsedBelow(flash, found + 1)
    <3>1. Used(flash, Slot(found))
      BY <1>2, <1>5
    <3>2. \A i \in 0 .. found : i = found \/ i \in 0 .. found - 1
      BY <1>2
    <3>3. found + 1 \in Nat /\ (found + 1) - 1 = found
      BY <1>2
    <3> QED
      BY <1>2, <3>1, <3>2, <3>3 DEF UsedBelow
  <2>6. TypeOK'
    BY <1>1, <2>1, <2>3, <2>5 DEF TypeOK
  <2>7. UsedBelow(flash', found') /\ pos'["base"] = Slot(found')
        /\ GetRecordHeader(flash') /\ pos'["base"] < Area + 3
    BY <1>1, <1>2, <1>5, <2>1, <2>2, <2>3, <2>5, SizesAreNat DEF RecLen
  <2>8. BootPhase'
    BY <1>1, <1>3, <2>1, <2>3, <2>7 DEF BootPhase
  <2> QED
    BY <1>1, <2>1, <2>3, <2>4, <2>6, <2>8 DEF IInv, Contexts, WritePhase,
       IdlePhase, ErasePhase, ResetPhase, HeaderPhase, Ctx
<1>6. CASE a + 1 < Area /\ ~Used(flash, a)
  <2>1. /\ Goto("base", "publish", 0) /\ found' = found /\ address' = a
        /\ UNCHANGED mode
    BY <1>2, <1>6, SizesAreNat DEF BootScan
  <2>2. /\ pc' \in [Ctx -> {"idle", "write", "erase", "reset", "header",
                             "check", "scan", "publish", "lastid"}]
        /\ pos' \in [Ctx -> Nat] /\ pc'["base"] = "publish"
        /\ \A d \in Ctx : d # "base" => pc'[d] = pc[d]
    BY <1>1, <2>1, GotoTypes, SizesAreNat
  <2>3. pc'["isr"] = "idle"
    BY <1>1, <2>2 DEF Ctx
  <2>4. TypeOK'
    BY <1>1, <1>2, <2>1, <2>2 DEF TypeOK
  <2>5. LogAt(flash, found)
    BY <1>1, <1>2, <1>6, ScanFindsEnd
  <2>6. LogAt(flash', found') /\ address' = Slot(found') /\ address' + 1 < Area
        /\ GetRecordHeader(flash')
    BY <1>1, <1>2, <1>6, <2>1, <2>5
  <2>7. BootPhase'
    BY <1>1, <2>1, <2>2, <2>6 DEF BootPhase
  <2> QED
    BY <1>1, <2>1, <2>2, <2>3, <2>4, <2>7 DEF IInv, Contexts, WritePhase,
       IdlePhase, ErasePhase, ResetPhase, HeaderPhase, Ctx
<1> QED
  BY <1>2, <1>4, <1>5, <1>6, SizesAreNat

LEMMA BootPublishIInv == IInv /\ BootPublish => IInv'
<1> SUFFICES ASSUME IInv, BootPublish PROVE IInv'
  OBVIOUS
<1>1. /\ TypeOK /\ Contexts /\ BootPhase /\ ~pgerr /\ lastId < W * W
      /\ mode = "boot" /\ pc["base"] = "publish" /\ pc["isr"] = "idle"
      /\ num' = found /\ Goto("base", "lastid", 0)
      /\ UNCHANGED <<flash, locked, pgerr, address, lastId, mode, image, found>>
  BY DEF IInv, BootPublish, Runs
<1>2. /\ pc' \in [Ctx -> {"idle", "write", "erase", "reset", "header",
                           "check", "scan", "publish", "lastid"}]
      /\ pos' \in [Ctx -> Nat] /\ pc'["base"] = "lastid"
      /\ \A d \in Ctx : d # "base" => pc'[d] = pc[d]
  BY <1>1, GotoTypes, SizesAreNat
<1>3. pc'["isr"] = "idle"
  BY <1>1, <1>2 DEF Ctx
<1>4. TypeOK'
  BY <1>1, <1>2 DEF TypeOK
<1>5. BootPhase'
  BY <1>1, <1>2 DEF BootPhase, LogAt
<1> QED
  BY <1>1, <1>2, <1>3, <1>4, <1>5 DEF IInv, Contexts, WritePhase,
     IdlePhase, ErasePhase, ResetPhase, HeaderPhase, Ctx

LEMMA BootLastIdIInv == IInv /\ BootLastId => IInv'
<1> SUFFICES ASSUME IInv, BootLastId PROVE IInv'
  OBVIOUS
<1>1. /\ TypeOK /\ Contexts /\ BootPhase /\ ~pgerr /\ lastId < W * W
      /\ mode = "boot" /\ pc["base"] = "lastid" /\ pc["isr"] = "idle"
      /\ mode' = "run" /\ found' = 0 /\ Goto("base", "idle", 0)
      /\ UNCHANGED <<flash, locked, pgerr, address, num, image>>
  BY DEF IInv, BootLastId, Runs
<1>2. /\ GetRecordHeader(flash) /\ address = Slot(num) /\ LogAt(flash, num)
      /\ address + 1 < Area /\ num \in Nat /\ lastId \in Nat /\ found \in Nat
  BY <1>1 DEF BootPhase, TypeOK
<1>3. /\ pc' \in [Ctx -> {"idle", "write", "erase", "reset", "header",
                           "check", "scan", "publish", "lastid"}]
      /\ pos' \in [Ctx -> Nat] /\ pc'["base"] = "idle"
      /\ \A d \in Ctx : d # "base" => pc'[d] = pc[d]
  BY <1>1, GotoTypes, SizesAreNat
<1>4. \A d \in Ctx : pc'[d] = "idle"
  BY <1>1, <1>3 DEF Ctx
<1>5. lastId' \in 0 .. W * W - 1
  <2>1. CASE found > 0 /\ ~(Int8(found - 1) > num \/ Int8(found - 1) < 0)
    <3> DEFINE ix == Int8(found - 1)
    <3>1. ix \in Int
      BY <1>2, FlashParameters DEF Int8
    <3>2. ix \in 0 .. num
      BY <1>2, <2>1, <3>1
    <3>3. Slot(ix) \in Cell /\ Slot(ix) + 1 \in Cell
      BY <1>2, <3>2, SizesAreNat DEF Slot, RecLen, Cell
    <3>4. flash[Slot(ix)] \in HalfWord /\ flash[Slot(ix) + 1] \in HalfWord
      BY <1>1, <3>3 DEF TypeOK
    <3>5. IdAt(flash, Slot(ix)) \in 0 .. W * W - 1
      BY <3>4, U32InRange DEF IdAt
    <3>6. lastId' = IdAt(flash, Slot(ix))
      BY <2>1 DEF BootLastId, GetRecordID
    <3> QED
      BY <3>5, <3>6
  <2>2. CASE found > 0 /\ (Int8(found - 1) > num \/ Int8(found - 1) < 0)
    BY <2>2 DEF BootLastId, GetRecordID
  <2>3. CASE ~(found > 0)
    BY <1>1, <1>2, <2>3, SizesAreNat DEF BootLastId
  <2> QED
    BY <2>1, <2>2, <2>3
<1>6. lastId' \in Nat /\ lastId' < W * W
  BY <1>5, SizesAreNat
<1>7. TypeOK'
  BY <1>1, <1>3, <1>6 DEF TypeOK
<1>8. IdlePhase'
  BY <1>1, <1>2 DEF IdlePhase, LogAt
<1> QED
  BY <1>1, <1>4, <1>6, <1>7, <1>8 DEF IInv, Contexts, WritePhase, BootPhase,
     ErasePhase, ResetPhase, HeaderPhase, Ctx

-----------------------------------------------------------------------------
(* The theorems. *)

LEMMA NextIInv == IInv /\ [Next]_vars => IInv'
<1> SUFFICES ASSUME IInv, [Next]_vars PROVE IInv'
  OBVIOUS
<1>1. CASE Report
  BY <1>1, WriteRecordIInv DEF Report, RunEnds
<1>2. CASE WriteHalfWord
  BY <1>2, WriteHalfWordIInv
<1>3. CASE HostErase
  BY <1>3, EraseRecordIInv DEF HostErase, Ctx
<1>4. ASSUME NEW c \in Ctx, EraseStep(c)
      PROVE  IInv'
  BY <1>4, ErasePageIInv, PagesErasedIInv, ResetNumIInv, SetRecordHeaderIInv
  DEF EraseStep
<1>5. CASE Boot
  BY <1>5, BootCheckIInv, BootScanIInv, BootPublishIInv, BootLastIdIInv DEF Boot
<1>6. CASE PowerCycle
  BY <1>6, PowerCycleIInv
<1>7. CASE UNCHANGED vars
  BY <1>7 DEF vars, IInv, TypeOK, Contexts, IdlePhase, WritePhase, BootPhase,
     ErasePhase, ResetPhase, HeaderPhase, Recoverable, Fits
<1> QED
  BY <1>1, <1>2, <1>3, <1>4, <1>5, <1>6, <1>7 DEF Next

LEMMA InductiveInvariant == Spec => []IInv
<1> QED
  BY InitIInv, NextIInv, PTL DEF Spec

(* The variables keep their types: no half-word outside 0..W-1 and no label *)
(* outside the program, whatever the sizes.                                 *)
THEOREM TypeCorrect == Spec => []TypeOK
<1>1. IInv => TypeOK
  BY DEF IInv
<1> QED
  BY <1>1, InductiveInvariant, PTL

(* Whenever no operation is under way, WM_Record_Address and WM_Record_Num  *)
(* describe flash and no flash operation has failed (usr_flash.c 267, 268), *)
(* for every area, page and half-word size and any sequence of writes,      *)
(* erases and power failures.                                               *)
THEOREM LogShapeHolds == Spec => []LogShape
<1>1. IInv => LogShape
  BY DEF IInv, LogShape, Quiet, IdlePhase, Ctx
<1> QED
  BY <1>1, InductiveInvariant, PTL

(* At every instant a power failure leaves an area that Usr_Flash_Init      *)
(* recovers.                                                                *)
THEOREM AlwaysRecoverable == Spec => []Recoverable
<1> QED
  BY IInvRecoverable, InductiveInvariant, PTL

(* A record that WriteRecord counts is in its slot half-word for half-word. *)
THEOREM WritesLand == Spec => WriteLands
<1> DEFINE A == mode = "run" /\ num' > num
                  => \A k \in 1 .. RecLen :
                       flash'[address + k - 1] = image["isr"][k]
<1>1. IInv /\ [Next]_vars => [A]_vars
  <2> SUFFICES ASSUME IInv, Next, mode = "run", num' > num
               PROVE  \A k \in 1 .. RecLen :
                        flash'[address + k - 1] = image["isr"][k]
    OBVIOUS
  <2>1. num \in Nat /\ address \in Int
    BY DEF IInv, TypeOK
  <2>2. ASSUME num' = num \/ num' = 0 PROVE FALSE
    BY <2>1, <2>2
  <2>3. WriteHalfWord
    BY <2>2 DEF Next, Report, RunEnds, Boot, WriteRecord, HostErase,
       EraseRecord, EraseStep, ErasePage, PagesErased, ResetNum, SetRecordHeader,
       BootCheck, BootScan, BootPublish, BootLastId, PowerCycle, Reset, ram
  <2>4. pos["isr"] + 1 = RecLen
    <3>1. pos["isr"] \in 0 .. RecLen - 1
      BY <2>3, WriteHalfWordStep
    <3>2. ~(pos["isr"] + 1 < RecLen)
      BY <2>2, <2>3 DEF WriteHalfWord, ram
    <3> QED
      BY <3>1, <3>2 DEF RecLen
  <2>5. Holds(flash', address, image["isr"], RecLen)
    BY <2>3, <2>4, WriteHalfWordEffect
  <2> SUFFICES ASSUME NEW k \in 1 .. RecLen
               PROVE  flash'[address + k - 1] = image["isr"][k]
    OBVIOUS
  <2>6. k - 1 \in 0 .. RecLen - 1 /\ (k - 1) + 1 = k
        /\ address + (k - 1) = address + k - 1
    BY <2>1 DEF RecLen
  <2> QED
    BY <2>5, <2>6 DEF Holds
<1> QED
  BY <1>1, InductiveInvariant, PTL DEF Spec, WriteLands

(* The boot scan leaves the area only when whole records fill it up to its  *)
(* last half-word: never while there is room, nor on what an erase or a     *)
(* torn write left behind (usr_flash.c 263).                                *)
THEOREM FaultsOnlyWhenFull == Spec => []FaultOnlyWhenFull
<1>1. Init => FaultOnlyWhenFull
  BY DEF Init, FaultOnlyWhenFull
<1>2. IInv /\ FaultOnlyWhenFull /\ [Next]_vars => FaultOnlyWhenFull'
  <2> SUFFICES ASSUME IInv, FaultOnlyWhenFull, [Next]_vars, mode' = "fault"
               PROVE  (\E n \in 0 .. Area : Slot(n) = Area - 1 /\ LogAt(flash, n))'
    BY DEF FaultOnlyWhenFull
  <2>1. CASE UNCHANGED vars
    BY <2>1 DEF vars, FaultOnlyWhenFull
  <2> SUFFICES ASSUME Next
               PROVE  (\E n \in 0 .. Area : Slot(n) = Area - 1 /\ LogAt(flash, n))'
    BY <2>1
  <2>2. BootScan /\ pos["base"] + 1 >= Area /\ flash' = flash
    BY DEF Next, Report, RunEnds, Boot, WriteRecord, WriteHalfWord, HostErase,
       EraseRecord, EraseStep, ErasePage, PagesErased, ResetNum, SetRecordHeader, BootCheck,
       BootScan, BootPublish, BootLastId, PowerCycle, Reset, Runs
  <2>3. /\ Recoverable /\ GetRecordHeader(flash) /\ found \in Nat
        /\ UsedBelow(flash, found) /\ pos["base"] = HdrLen + 4 * found
        /\ HdrLen + 4 * found < Area + 3
    BY <2>2, IInvRecoverable DEF IInv, TypeOK, BootScan, BootPhase, Slot, RecLen
  <2>4. PICK m \in 0 .. Area : LogAt(flash, m)
    BY <2>3 DEF Recoverable
  <2>5. Slot(m) < Area /\ Slot(m) = HdrLen + 4 * m
    BY <2>4 DEF LogAt, Slot, RecLen
  <2>6. ~(m < found)
    <3> SUFFICES ASSUME m < found PROVE FALSE
      OBVIOUS
    <3>1. Used(flash, Slot(m))
      BY <2>3, <2>4, SizesAreNat DEF UsedBelow
    <3>2. \A a \in Cell : a >= Slot(m) => flash[a] = Blank
      BY <2>4 DEF LogAt
    <3>3. CASE Slot(m) + 1 < Area
      <4>1. Slot(m) \in Cell /\ Slot(m) + 1 \in Cell
        BY <2>4, <2>5, <3>3, SizesAreNat DEF Cell
      <4> QED
        BY <2>4, <2>5, <3>1, <3>2, <4>1, SizesAreNat DEF Used, Cell
    <3>4. CASE Slot(m) + 1 >= Area
      BY <2>3, <2>4, <2>5, <3>4, SizesAreNat
    <3> QED
      BY <2>4, <2>5, <3>3, <3>4, SizesAreNat
  <2>7. Slot(m) = Area - 1
    BY <2>2, <2>3, <2>4, <2>5, <2>6, SizesAreNat
  <2>8. Slot(m)' = Slot(m) /\ LogAt(flash, m)'
    BY <2>2, <2>4 DEF Slot, LogAt
  <2> QED
    BY <2>4, <2>7, <2>8
<1> QED
  BY <1>1, <1>2, InductiveInvariant, PTL DEF Spec

(* So with another alignment of records and area, booting never faults.     *)
COROLLARY NoFaultUnlessOneShort ==
  ASSUME (Area - HdrLen) % RecLen # 1
  PROVE  Spec => []NoFault
<1>1. FaultOnlyWhenFull => NoFault
  <2> SUFFICES ASSUME NEW n \in 0 .. Area, Slot(n) = Area - 1
               PROVE  FALSE
    BY DEF FaultOnlyWhenFull, NoFault
  <2>1. Area - HdrLen = 4 * n + 1
    BY SizesAreNat DEF Slot, RecLen
  <2> QED
    BY <2>1, SizesAreNat DEF RecLen
<1> QED
  BY <1>1, FaultsOnlyWhenFull, PTL

-----------------------------------------------------------------------------
(***************************************************************************)
(* SpecAll: every caller of the source.  The operations of the two         *)
(* contexts may now meet, and the phases above no longer describe the      *)
(* area.  What is left is what each operation has of its own: the room it  *)
(* was given, the image it writes, how far it is, and the lock it holds.   *)
(***************************************************************************)
Label == {"idle", "write", "erase", "reset", "header",
          "check", "scan", "publish", "lastid"}

(* Only interrupts write.                                                   *)
Writing ==
  /\ pc["isr"] \in {"idle", "write", "erase", "reset", "header"}
  /\ pc["base"] # "write"
  /\ pc["isr"] = "write" =>
       /\ image["isr"] \in [1 .. RecLen -> HalfWord] /\ pos["isr"] < RecLen

HeaderLoop(c) ==
  pc[c] = "header" => image[c] \in [1 .. HdrLen -> HalfWord] /\ pos[c] < HdrLen

(* The scan stays in the area, so an ID it found lies in the area, whatever *)
(* a write or an erase that comes between does to WM_Record_Num.            *)
Scanned ==
  /\ pc["base"] \in {"check", "scan", "publish", "lastid"} => mode # "run"
  /\ pc["base"] = "scan" => pos["base"] = Slot(found)
  /\ pc["base"] \in {"publish", "lastid"} => Slot(found) + 1 < Area
  /\ pc["base"] \notin {"scan", "publish", "lastid"} => found = 0

(* Who may find the controller unlocked between two of its half-words or    *)
(* pages.                                                                   *)
Unlocker(c) ==
  \/ pc[c] = "erase"
  \/ pc[c] = "write" /\ pos[c] \notin {0, 2, 3}
  \/ pc[c] = "header" /\ pos[c] \notin {0, IdLen}

LockHeld == locked \/ \E c \in Ctx : Unlocker(c)

AllInv ==
  /\ TypeOK /\ lastId < W * W
  /\ Writing /\ Scanned /\ LockHeld
  /\ \A c \in Ctx : HeaderLoop(c)

LEMMA GotoLabel ==
  ASSUME NEW c \in Ctx, NEW p \in Nat, TypeOK, NEW l \in Label, Goto(c, l, p)
  PROVE  /\ pc' \in [Ctx -> Label] /\ pos' \in [Ctx -> Nat]
         /\ pc'[c] = l /\ pos'[c] = p
         /\ \A d \in Ctx : d # c => pc'[d] = pc[d] /\ pos'[d] = pos[d]
BY DEF Goto, TypeOK, Label

LEMMA OtherCtx == Ctx = {"isr", "base"} /\ "isr" \in Ctx /\ "base" \in Ctx
BY DEF Ctx

LEMMA InitAllInv == Init => AllInv
<1> SUFFICES ASSUME Init PROVE AllInv
  OBVIOUS
<1>1. TypeOK /\ lastId < W * W
  BY InitIInv DEF IInv
<1>2. pc["isr"] = "idle" /\ pc["base"] = "check" /\ mode = "boot" /\ locked
  BY DEF Init, Ctx
<1> QED
  BY <1>1, <1>2 DEF Init, AllInv, Writing, Scanned, LockHeld, HeaderLoop, Ctx

(* A context that programs a half-word of the area keeps flash one of       *)
(* half-words, and leaves the controller unlocked only within a field.      *)
LEMMA ProgramTypes ==
  ASSUME TypeOK, NEW c \in Ctx, NEW start \in Int,
         image[c][pos[c] + 1] \in HalfWord, Usr_Flash_Write(c, start)
  PROVE  /\ flash' \in [Cell -> HalfWord] /\ pgerr' \in BOOLEAN
         /\ locked' \in BOOLEAN
         /\ locked' \/ pos[c] + 1 \notin FieldEnd(c)
<1> DEFINE a == start + pos[c]
           v == image[c][pos[c] + 1]
           closed == locked /\ pos[c] \notin FieldStart(c)
<1>1. FLASH_ProgramHalfWord(a, v, closed)
  BY DEF Usr_Flash_Write
<1>2. flash' \in [Cell -> HalfWord]
  BY <1>1 DEF FLASH_ProgramHalfWord, TypeOK
<1>3. pgerr' = pgerr \/ pgerr' \in BOOLEAN
  BY <1>1 DEF FLASH_ProgramHalfWord
<1>4. pgerr' \in BOOLEAN
  BY <1>3 DEF TypeOK
<1>5. locked' = (closed \/ pgerr' \/ pos[c] + 1 \in FieldEnd(c))
  BY DEF Usr_Flash_Write
<1> QED
  BY <1>2, <1>4, <1>5

LEMMA WriteRecordAllInv ==
  ASSUME NEW wm \in Payload, NEW frames \in Payload, AllInv,
         WriteRecord(wm, frames)
  PROVE  AllInv'
<1> DEFINE img == RecordImage(NextId, wm, frames)
<1>1. TypeOK /\ lastId \in Nat /\ NextId \in 0 .. W * W - 1
  BY NextIdIs DEF AllInv, TypeOK
<1>2. img \in [1 .. RecLen -> HalfWord] /\ img \in Seq(HalfWord)
  <2>1. Lo(NextId) \in HalfWord /\ Hi(NextId) \in HalfWord
    BY <1>1, HalvesOfId
  <2>2. wm \in HalfWord /\ frames \in HalfWord
    BY FlashParameters DEF HalfWord
  <2> QED
    BY <2>1, <2>2 DEF RecordImage, RecLen
<1>3. /\ Goto("isr", "write", 0) /\ image' = [image EXCEPT !["isr"] = img]
      /\ UNCHANGED <<flash, locked, pgerr, address, num, lastId, mode, found>>
      /\ pc["isr"] = "idle"
  BY DEF WriteRecord, ram
<1>4. /\ pc' \in [Ctx -> Label] /\ pos' \in [Ctx -> Nat]
      /\ pc'["isr"] = "write" /\ pos'["isr"] = 0
      /\ pc'["base"] = pc["base"] /\ pos'["base"] = pos["base"]
  BY <1>1, <1>3, GotoLabel, OtherCtx DEF Label
<1>5. /\ image' \in [Ctx -> Seq(HalfWord)]
      /\ image'["isr"] = img /\ image'["base"] = image["base"]
  BY <1>1, <1>2, <1>3, OtherCtx DEF TypeOK
<1>6. TypeOK' /\ (lastId < W * W)'
  BY <1>1, <1>3, <1>4, <1>5 DEF TypeOK, Label, AllInv
<1>7. Writing' /\ Scanned'
  BY <1>1, <1>2, <1>3, <1>4, <1>5, SizesAreNat DEF AllInv, Writing, Scanned, RecLen
<1>8. LockHeld'
  BY <1>3, <1>4, OtherCtx DEF AllInv, LockHeld, Unlocker
<1>9. \A c \in Ctx : HeaderLoop(c)'
  BY <1>4, <1>5, OtherCtx DEF AllInv, HeaderLoop
<1> QED
  BY <1>6, <1>7, <1>8, <1>9 DEF AllInv

LEMMA WriteHalfWordAllInv ==
  ASSUME AllInv, WriteHalfWord
  PROVE  AllInv'
<1> DEFINE p == pos["isr"]
<1>1. /\ TypeOK /\ Writing /\ pc["isr"] = "write"
      /\ p \in 0 .. 3 /\ address \in Int /\ num \in Nat /\ lastId \in Nat
  BY OtherCtx DEF AllInv, Writing, TypeOK, WriteHalfWord, RecLen
<1>2. image["isr"][p + 1] \in HalfWord
  BY <1>1 DEF Writing, RecLen
<1>3. /\ flash' \in [Cell -> HalfWord] /\ pgerr' \in BOOLEAN
      /\ locked' \in BOOLEAN
      /\ locked' \/ p + 1 \notin {2, 3, 4}
      /\ UNCHANGED <<mode, found>>
  <2>1. Usr_Flash_Write("isr", address)
    BY DEF WriteHalfWord
  <2> QED
    BY <1>1, <1>2, <2>1, ProgramTypes, OtherCtx DEF FieldEnd, WriteHalfWord
<1>4. CASE p + 1 < RecLen
  <2>1. /\ Goto("isr", "write", p + 1)
        /\ UNCHANGED <<address, num, lastId, image>>
    BY <1>4 DEF WriteHalfWord, ram
  <2>2. /\ pc' \in [Ctx -> Label] /\ pos' \in [Ctx -> Nat]
        /\ pc'["isr"] = "write" /\ pos'["isr"] = p + 1
        /\ pc'["base"] = pc["base"] /\ pos'["base"] = pos["base"]
    BY <1>1, <2>1, GotoLabel, OtherCtx DEF Label
  <2>3. TypeOK' /\ (lastId < W * W)'
    <3>1. TypeOK'
      BY <1>1, <1>3, <2>1, <2>2 DEF TypeOK, Label
    <3>2. (lastId < W * W)'
      BY <2>1 DEF AllInv
    <3> QED
      BY <3>1, <3>2
  <2>4. Writing' /\ Scanned'
    BY <1>1, <1>3, <1>4, <2>1, <2>2 DEF AllInv, Writing, Scanned
  <2>5. locked' \/ Unlocker("isr")'
    <3>1. p + 1 \notin {2, 3, 4} => p + 1 \notin {0, 2, 3}
      BY <1>1
    <3> QED
      BY <1>3, <2>2, <3>1 DEF Unlocker
  <2>6. \A c \in Ctx : HeaderLoop(c)'
    BY <2>1, <2>2, OtherCtx DEF AllInv, HeaderLoop
  <2> QED
    BY <2>3, <2>4, <2>5, <2>6, OtherCtx DEF AllInv, LockHeld
<1>5. CASE p + 1 >= RecLen
  <2>1. /\ Goto("isr", "idle", 0) /\ p = 3
        /\ address' = address + RecLen /\ num' = num + 1 /\ lastId' = NextId
        /\ image' = [image EXCEPT !["isr"] = <<>>]
    BY <1>1, <1>5 DEF WriteHalfWord, RecLen
  <2>8. lastId' \in Nat /\ lastId' < W * W
    <3>1. lastId' \in 0 .. W * W - 1 /\ W * W \in Nat
      BY <1>1, <2>1, NextIdIs, FlashParameters
    <3> QED
      BY <3>1
  <2>2. /\ pc' \in [Ctx -> Label] /\ pos' \in [Ctx -> Nat]
        /\ pc'["isr"] = "idle"
        /\ pc'["base"] = pc["base"] /\ pos'["base"] = pos["base"]
    BY <1>1, <2>1, GotoLabel, OtherCtx DEF Label
  <2>3. image' \in [Ctx -> Seq(HalfWord)] /\ image'["base"] = image["base"]
    <3>1. << >> \in Seq(HalfWord)
      OBVIOUS
    <3> QED
      BY <1>1, <2>1, <3>1, OtherCtx DEF TypeOK
  <2>4. TypeOK'
    BY <1>1, <1>3, <2>1, <2>2, <2>3, <2>8 DEF TypeOK, Label, RecLen
  <2>5. (lastId < W * W)'
    BY <2>8
  <2>6. Writing' /\ Scanned'
    BY <1>1, <1>3, <2>1, <2>2 DEF AllInv, Writing, Scanned
  <2>7. locked' /\ \A c \in Ctx : HeaderLoop(c)'
    BY <1>3, <2>1, <2>2, <2>3, OtherCtx DEF AllInv, HeaderLoop
  <2> QED
    BY <2>4, <2>5, <2>6, <2>7 DEF AllInv, LockHeld
<1> QED
  BY <1>1, <1>4, <1>5 DEF RecLen

(* An erase ends like any other loop: its context is idle, or back in the   *)
(* scan of Usr_Flash_Init.                                                  *)
LEMMA LeaveLabel ==
  ASSUME NEW c \in Ctx, TypeOK, Leave(c)
  PROVE  /\ pc' \in [Ctx -> Label] /\ pos' \in [Ctx -> Nat]
         /\ \A d \in Ctx : d # c => pc'[d] = pc[d] /\ pos'[d] = pos[d]
         /\ \/ pc'[c] = "idle"
            \/ c = "base" /\ mode = "boot" /\ pc'[c] = "scan" /\ pos'[c] = HdrLen
<1>1. HdrLen \in Nat
  BY SizesAreNat
<1>2. CASE c = "base" /\ mode = "boot"
  <2>1. Goto(c, "scan", HdrLen)
    BY <1>2 DEF Leave
  <2> QED
    BY <1>1, <1>2, <2>1, GotoLabel DEF Label
<1>3. CASE ~(c = "base" /\ mode = "boot")
  <2>1. Goto(c, "idle", 0)
    BY <1>3 DEF Leave
  <2> QED
    BY <1>1, <1>3, <2>1, GotoLabel DEF Label
<1> QED
  BY <1>2, <1>3

(* An erase begins in a context that no write occupies.                     *)
LEMMA EraseRecordAllInv ==
  ASSUME NEW c \in Ctx, AllInv, EraseRecord(c),
         pc[c] \in {"idle", "check"}, pc["isr"] = "idle"
  PROVE  AllInv'
<1>1. /\ TypeOK /\ Goto(c, "erase", 0) /\ locked' = FALSE
      /\ UNCHANGED <<flash, pgerr, address, num, lastId, mode, image, found>>
  BY DEF AllInv, EraseRecord, ram
<1>2. /\ pc' \in [Ctx -> Label] /\ pos' \in [Ctx -> Nat]
      /\ pc'[c] = "erase"
      /\ \A d \in Ctx : d # c => pc'[d] = pc[d] /\ pos'[d] = pos[d]
  BY <1>1, GotoLabel DEF Label
<1>3. TypeOK' /\ (lastId < W * W)'
  BY <1>1, <1>2 DEF AllInv, TypeOK, Label
<1>4. Writing'
  BY <1>1, <1>2, OtherCtx DEF AllInv, Writing
<1>5. Scanned'
  BY <1>1, <1>2, OtherCtx DEF AllInv, Scanned
<1>6. LockHeld' /\ \A d \in Ctx : HeaderLoop(d)'
  BY <1>1, <1>2 DEF AllInv, LockHeld, Unlocker, HeaderLoop
<1> QED
  BY <1>3, <1>4, <1>5, <1>6 DEF AllInv

(* What a step of an erase needs of the other context: an interrupt that    *)
(* meets base's erase is not writing, and base waits while one runs.        *)
LEMMA EraserAlone ==
  ASSUME AllInv, NEW c \in Ctx, Runs(c), pc[c] \in {"erase", "reset", "header"}
  PROVE  /\ pc["isr"] # "write" /\ (c = "base" => pc["isr"] = "idle")
         /\ c = "base" => mode # "fault"
BY OtherCtx DEF AllInv, Writing, Runs

(* Where an erase leaves its context, the invariant is that of the rest.    *)
LEMMA LeaveAllInv ==
  ASSUME NEW c \in Ctx, AllInv, pc[c] \in {"erase", "header"}, Runs(c),
         Leave(c), locked' = TRUE,
         flash' \in [Cell -> HalfWord], pgerr' \in BOOLEAN,
         UNCHANGED <<ram, mode, found>>,
         image' = image \/ image' = [image EXCEPT ![c] = <<>>]
  PROVE  AllInv'
<1>1. /\ TypeOK /\ Slot(0) = HdrLen /\ pc["isr"] # "write"
      /\ c = "base" => pc["isr"] = "idle" /\ found = 0
      /\ UNCHANGED <<address, num, lastId, mode, found>>
  BY EraserAlone, SizesAreNat DEF AllInv, Scanned, Slot, RecLen, ram
<1>2. /\ pc' \in [Ctx -> Label] /\ pos' \in [Ctx -> Nat]
      /\ \A d \in Ctx : d # c => pc'[d] = pc[d] /\ pos'[d] = pos[d]
      /\ \/ pc'[c] = "idle"
         \/ c = "base" /\ mode = "boot" /\ pc'[c] = "scan" /\ pos'[c] = HdrLen
  BY <1>1, LeaveLabel
<1>3. /\ image' \in [Ctx -> Seq(HalfWord)]
      /\ \A d \in Ctx : d # c => image'[d] = image[d]
  <2>1. << >> \in Seq(HalfWord)
    OBVIOUS
  <2> QED
    BY <1>1, <2>1 DEF TypeOK
<1>4. TypeOK' /\ (lastId < W * W)'
  BY <1>1, <1>2, <1>3 DEF AllInv, TypeOK, Label
<1>5. Writing'
  BY <1>1, <1>2, OtherCtx DEF AllInv, Writing
<1>6. Scanned'
  <2>1. CASE pc'["base"] = pc["base"] /\ pos'["base"] = pos["base"]
    BY <1>1, <2>1 DEF AllInv, Scanned
  <2>2. CASE c = "base"
    BY <1>1, <1>2, <2>2, SizesAreNat DEF AllInv, Scanned
  <2> QED
    BY <1>2, <2>1, <2>2, OtherCtx
<1>7. LockHeld' /\ \A d \in Ctx : HeaderLoop(d)'
  BY <1>2, <1>3 DEF AllInv, LockHeld, HeaderLoop
<1> QED
  BY <1>4, <1>5, <1>6, <1>7 DEF AllInv

LEMMA ErasePageAllInv ==
  ASSUME NEW c \in Ctx, AllInv, ErasePage(c)
  PROVE  AllInv'
<1>1. /\ TypeOK /\ pc[c] = "erase" /\ Runs(c) /\ pos[c] + PageLen \in Nat
      /\ UNCHANGED <<pgerr, address, num, lastId, mode, image, found>>
  BY SizesAreNat DEF AllInv, TypeOK, ErasePage, ram
<1>2. CASE pgerr
  BY <1>1, <1>2, LeaveAllInv DEF ErasePage, TypeOK
<1>3. CASE ~pgerr
  <2>1. /\ Goto(c, "erase", pos[c] + PageLen) /\ locked' = locked
        /\ flash' = IF locked THEN flash
                    ELSE [a \in Cell |-> IF a \in pos[c] .. pos[c] + PageLen - 1
                                        THEN Blank ELSE flash[a]]
    BY <1>3 DEF ErasePage
  <2>2. flash' \in [Cell -> HalfWord]
    BY <1>1, <2>1, SizesAreNat DEF TypeOK
  <2>3. /\ pc' \in [Ctx -> Label] /\ pos' \in [Ctx -> Nat]
        /\ pc'[c] = "erase" /\ pc' = pc
        /\ \A d \in Ctx : d # c => pos'[d] = pos[d]
    BY <1>1, <2>1, GotoLabel DEF Label, Goto, TypeOK
  <2>4. TypeOK' /\ (lastId < W * W)'
    BY <1>1, <2>1, <2>2, <2>3 DEF AllInv, TypeOK, Label
  <2>5. Writing' /\ Scanned'
    BY <1>1, <2>1, <2>3, OtherCtx DEF AllInv, Writing, Scanned
  <2>6. LockHeld' /\ \A d \in Ctx : HeaderLoop(d)'
    BY <1>1, <2>1, <2>3 DEF AllInv, LockHeld, Unlocker, HeaderLoop
  <2> QED
    BY <2>4, <2>5, <2>6 DEF AllInv
<1> QED
  BY <1>2, <1>3

LEMMA PagesErasedAllInv ==
  ASSUME NEW c \in Ctx, AllInv, PagesErased(c)
  PROVE  AllInv'
<1>1. /\ TypeOK /\ pc[c] = "erase" /\ pc["isr"] # "write"
      /\ locked' = TRUE /\ address' = HdrLen /\ HdrLen \in Nat
      /\ Goto(c, "reset", 0)
      /\ UNCHANGED <<flash, pgerr, num, lastId, mode, image, found>>
  BY EraserAlone, SizesAreNat DEF AllInv, PagesErased
<1>2. /\ pc' \in [Ctx -> Label] /\ pos' \in [Ctx -> Nat] /\ pc'[c] = "reset"
      /\ \A d \in Ctx : d # c => pc'[d] = pc[d] /\ pos'[d] = pos[d]
  BY <1>1, GotoLabel DEF Label
<1>3. TypeOK' /\ (lastId < W * W)'
  BY <1>1, <1>2 DEF AllInv, TypeOK, Label
<1>4. Writing' /\ Scanned'
  BY <1>1, <1>2, OtherCtx DEF AllInv, Writing, Scanned
<1>5. LockHeld' /\ \A d \in Ctx : HeaderLoop(d)'
  BY <1>1, <1>2 DEF AllInv, LockHeld, HeaderLoop
<1> QED
  BY <1>3, <1>4, <1>5 DEF AllInv

LEMMA ResetNumAllInv ==
  ASSUME NEW c \in Ctx, AllInv, ResetNum(c)
  PROVE  AllInv'
<1> DEFINE img == HeaderImage(lastId)
<1>1. /\ TypeOK /\ pc[c] = "reset" /\ pc["isr"] # "write"
      /\ num' = 0 /\ image' = [image EXCEPT ![c] = img] /\ Goto(c, "header", 0)
      /\ UNCHANGED <<flash, locked, pgerr, address, lastId, mode, found>>
  BY EraserAlone DEF AllInv, ResetNum
<1>2. img \in [1 .. HdrLen -> HalfWord]
  <2>1. Lo(lastId) \in HalfWord /\ Hi(lastId) \in HalfWord
    BY <1>1, HalvesOfId, SizesAreNat DEF AllInv, TypeOK
  <2> QED
    BY <2>1, SizesAreNat DEF HeaderImage, HdrLen
<1>3. img \in Seq(HalfWord)
  BY <1>2, SizesAreNat
<1>4. /\ pc' \in [Ctx -> Label] /\ pos' \in [Ctx -> Nat]
      /\ pc'[c] = "header" /\ pos'[c] = 0
      /\ \A d \in Ctx : d # c => pc'[d] = pc[d] /\ pos'[d] = pos[d]
  BY <1>1, GotoLabel DEF Label
<1>5. /\ image' \in [Ctx -> Seq(HalfWord)] /\ image'[c] = img
      /\ \A d \in Ctx : d # c => image'[d] = image[d]
  BY <1>1, <1>3 DEF TypeOK
<1>6. TypeOK' /\ (lastId < W * W)'
  BY <1>1, <1>4, <1>5 DEF AllInv, TypeOK, Label
<1>7. Writing'
  BY <1>1, <1>4, OtherCtx DEF AllInv, Writing
<1>8. Scanned'
  BY <1>1, <1>4, OtherCtx DEF AllInv, Scanned, TypeOK
<1>9. LockHeld'
  BY <1>1, <1>4 DEF AllInv, LockHeld, Unlocker
<1>10. HeaderLoop(c)'
  BY <1>2, <1>4, <1>5, SizesAreNat DEF HeaderLoop
<1>11. \A d \in Ctx : HeaderLoop(d)'
  BY <1>4, <1>5, <1>10 DEF AllInv, HeaderLoop
<1> QED
  BY <1>6, <1>7, <1>8, <1>9, <1>11 DEF AllInv

LEMMA SetRecordHeaderAllInv ==
  ASSUME NEW c \in Ctx, AllInv, SetRecordHeader(c)
  PROVE  AllInv'
<1> DEFINE p == pos[c]
<1>1. /\ TypeOK /\ pc[c] = "header" /\ Runs(c) /\ pc["isr"] # "write"
      /\ p \in Nat /\ p < HdrLen /\ image[c] \in [1 .. HdrLen -> HalfWord]
      /\ UNCHANGED <<address, num, lastId, mode, found>>
  BY EraserAlone DEF AllInv, HeaderLoop, TypeOK, SetRecordHeader, ram
<1>2. p \in Cell /\ 0 + p = p /\ image[c][p + 1] \in HalfWord
  BY <1>1, SizesAreNat DEF Cell, RecLen
<1>3. /\ flash' \in [Cell -> HalfWord] /\ pgerr' \in BOOLEAN
      /\ locked' \in BOOLEAN
      /\ locked' \/ p + 1 \notin {IdLen, HdrLen}
  <2>1. Usr_Flash_Write(c, 0)
    BY DEF SetRecordHeader
  <2> QED
    BY <1>1, <1>2, <2>1, ProgramTypes DEF FieldEnd
<1>4. CASE p + 1 < HdrLen
  <2>1. Goto(c, "header", p + 1) /\ image' = image
    BY <1>4 DEF SetRecordHeader
  <2>2. /\ pc' \in [Ctx -> Label] /\ pos' \in [Ctx -> Nat]
        /\ pc'[c] = "header" /\ pos'[c] = p + 1
        /\ \A d \in Ctx : d # c => pc'[d] = pc[d] /\ pos'[d] = pos[d]
    BY <1>1, <2>1, GotoLabel DEF Label
  <2>3. TypeOK'
    BY <1>1, <1>3, <2>1, <2>2 DEF TypeOK, Label
  <2>4. Writing' /\ Scanned' /\ (lastId < W * W)'
    BY <1>1, <2>1, <2>2, OtherCtx DEF AllInv, Writing, Scanned
  <2>5. locked' \/ Unlocker(c)'
    <3>1. p + 1 \notin {IdLen, HdrLen} => p + 1 \notin {0, IdLen}
      BY <1>1
    <3> QED
      BY <1>3, <2>2, <3>1 DEF Unlocker
  <2>6. \A d \in Ctx : HeaderLoop(d)'
    BY <1>1, <1>4, <2>1, <2>2 DEF AllInv, HeaderLoop
  <2> QED
    BY <2>3, <2>4, <2>5, <2>6 DEF AllInv, LockHeld
<1>5. CASE p + 1 >= HdrLen
  <2>1. Leave(c) /\ image' = [image EXCEPT ![c] = <<>>] /\ p + 1 = HdrLen
    BY <1>1, <1>5, SizesAreNat DEF SetRecordHeader
  <2>2. locked' = TRUE
    BY <1>3, <2>1
  <2> QED
    BY <1>1, <1>3, <2>1, <2>2, LeaveAllInv DEF ram
<1> QED
  BY <1>1, <1>4, <1>5, SizesAreNat

(* The steps of boot change only base's place and loop variable.            *)
LEMMA BootCheckAllInv ==
  ASSUME AllInv, BootCheck
  PROVE  AllInv'
<1>1. /\ TypeOK /\ mode = "boot" /\ pc["base"] = "check" /\ pc["isr"] = "idle"
      /\ found = 0
  BY DEF AllInv, Scanned, BootCheck, Runs
<1>2. CASE ~GetRecordHeader(flash)
  BY <1>1, <1>2, EraseRecordAllInv, OtherCtx DEF BootCheck
<1>3. CASE GetRecordHeader(flash)
  <2>1. /\ Goto("base", "scan", HdrLen) /\ HdrLen \in Nat /\ Slot(0) = HdrLen
        /\ UNCHANGED <<locked, flash, pgerr, address, num, lastId, mode, image, found>>
    BY <1>1, <1>3, SizesAreNat DEF BootCheck, Leave, ram, Slot, RecLen
  <2>2. /\ pc' \in [Ctx -> Label] /\ pos' \in [Ctx -> Nat]
        /\ pc'["base"] = "scan" /\ pos'["base"] = HdrLen
        /\ pc'["isr"] = "idle" /\ pos'["isr"] = pos["isr"]
    BY <1>1, <2>1, GotoLabel, OtherCtx DEF Label
  <2>3. TypeOK' /\ (lastId < W * W)'
    BY <1>1, <2>1, <2>2 DEF AllInv, TypeOK, Label
  <2>4. Writing' /\ Scanned'
    BY <1>1, <2>1, <2>2 DEF Writing, Scanned
  <2>5. LockHeld' /\ \A d \in Ctx : HeaderLoop(d)'
    BY <1>1, <2>1, <2>2, OtherCtx DEF AllInv, LockHeld, Unlocker, HeaderLoop
  <2> QED
    BY <2>3, <2>4, <2>5 DEF AllInv
<1> QED
  BY <1>2, <1>3

LEMMA BootScanAllInv ==
  ASSUME AllInv, BootScan
  PROVE  AllInv'
<1> DEFINE a == pos["base"]
<1>1. /\ TypeOK /\ mode = "boot" /\ pc["base"] = "scan" /\ pc["isr"] = "idle"
      /\ a = Slot(found) /\ a = HdrLen + 4 * found /\ found \in Nat /\ a \in Nat
      /\ UNCHANGED <<flash, locked, pgerr, num, lastId, image>>
  BY SizesAreNat DEF AllInv, Scanned, BootScan, Runs, Slot, RecLen, TypeOK
<1>2. CASE a + 1 >= Area
  <2>1. mode' = "fault" /\ UNCHANGED <<address, found, pc, pos>>
    BY <1>2 DEF BootScan
  <2>2. TypeOK' /\ (lastId < W * W)'
    BY <1>1, <2>1 DEF AllInv, TypeOK
  <2> QED
    BY <1>1, <2>1, <2>2
    DEF AllInv, Writing, Scanned, LockHeld, Unlocker, HeaderLoop
<1>3. CASE a + 1 < Area /\ Used(flash, a)
  <2>1. /\ Goto("base", "scan", a + RecLen) /\ found' = found + 1
        /\ UNCHANGED <<mode, address>>
    BY <1>1, <1>3, SizesAreNat DEF BootScan
  <2>2. a + RecLen \in Nat /\ a + RecLen = Slot(found + 1)
    BY <1>1, SizesAreNat DEF Slot, RecLen
  <2>3. /\ pc' \in [Ctx -> Label] /\ pos' \in [Ctx -> Nat]
        /\ pc'["base"] = "scan" /\ pos'["base"] = a + RecLen
        /\ pc'["isr"] = "idle" /\ pos'["isr"] = pos["isr"]
    BY <1>1, <2>1, <2>2, GotoLabel, OtherCtx DEF Label
  <2>4. TypeOK' /\ (lastId < W * W)'
    BY <1>1, <2>1, <2>3 DEF AllInv, TypeOK, Label
  <2>5. Writing' /\ Scanned'
    BY <1>1, <2>1, <2>2, <2>3 DEF Writing, Scanned
  <2>6. LockHeld' /\ \A d \in Ctx : HeaderLoop(d)'
    BY <1>1, <2>1, <2>3, OtherCtx DEF AllInv, LockHeld, Unlocker, HeaderLoop
  <2> QED
    BY <2>4, <2>5, <2>6 DEF AllInv
<1>4. CASE a + 1 < Area /\ ~Used(flash, a)
  <2>1. /\ Goto("base", "publish", 0) /\ found' = found /\ address' = a
        /\ UNCHANGED mode
    BY <1>1, <1>4, SizesAreNat DEF BootScan
  <2>2. /\ pc' \in [Ctx -> Label] /\ pos' \in [Ctx -> Nat]
        /\ pc'["base"] = "publish"
        /\ pc'["isr"] = "idle" /\ pos'["isr"] = pos["isr"]
    BY <1>1, <2>1, GotoLabel, OtherCtx DEF Label
  <2>3. TypeOK' /\ (lastId < W * W)'
    BY <1>1, <2>1, <2>2 DEF AllInv, TypeOK, Label
  <2>4. Writing' /\ Scanned'
    BY <1>1, <1>4, <2>1, <2>2 DEF Writing, Scanned
  <2>5. LockHeld' /\ \A d \in Ctx : HeaderLoop(d)'
    BY <1>1, <2>1, <2>2, OtherCtx DEF AllInv, LockHeld, Unlocker, HeaderLoop
  <2> QED
    BY <2>3, <2>4, <2>5 DEF AllInv
<1> QED
  BY <1>1, <1>2, <1>3, <1>4, SizesAreNat

LEMMA BootPublishAllInv ==
  ASSUME AllInv, BootPublish
  PROVE  AllInv'
<1>1. /\ TypeOK /\ mode = "boot" /\ pc["base"] = "publish" /\ pc["isr"] = "idle"
      /\ num' = found /\ Goto("base", "lastid", 0) /\ found \in Nat
      /\ UNCHANGED <<flash, locked, pgerr, address, lastId, mode, image, found>>
  BY DEF AllInv, BootPublish, Runs, TypeOK
<1>2. /\ pc' \in [Ctx -> Label] /\ pos' \in [Ctx -> Nat]
      /\ pc'["base"] = "lastid"
      /\ pc'["isr"] = "idle" /\ pos'["isr"] = pos["isr"]
  BY <1>1, GotoLabel, OtherCtx DEF Label
<1>3. TypeOK' /\ (lastId < W * W)'
  BY <1>1, <1>2 DEF AllInv, TypeOK, Label
<1>4. Writing' /\ Scanned'
  BY <1>1, <1>2 DEF AllInv, Writing, Scanned, Slot, TypeOK
<1>5. LockHeld' /\ \A d \in Ctx : HeaderLoop(d)'
  BY <1>1, <1>2, OtherCtx DEF AllInv, LockHeld, Unlocker, HeaderLoop
<1> QED
  BY <1>3, <1>4, <1>5 DEF AllInv

LEMMA Int8AtMost ==
  ASSUME NEW n \in Nat
  PROVE  Int8(n) \in Int /\ Int8(n) <= n
<1>1. PICK m \in Nat : m = 2 * IndexLimit
  BY FlashParameters
<1>2. PICK x \in Nat : x = n + IndexLimit
  BY FlashParameters
<1>3. m > 0 /\ IndexLimit \in Nat
  BY <1>1, FlashParameters
<1>4. x % m \in Int /\ x % m <= x
  BY <1>3
<1> QED
  BY <1>1, <1>2, <1>3, <1>4 DEF Int8

LEMMA BootLastIdAllInv ==
  ASSUME AllInv, BootLastId
  PROVE  AllInv'
<1>1. /\ TypeOK /\ mode = "boot" /\ pc["base"] = "lastid" /\ pc["isr"] = "idle"
      /\ mode' = "run" /\ found' = 0 /\ Goto("base", "idle", 0)
      /\ Slot(found) + 1 < Area /\ num \in Nat /\ found \in Nat
      /\ UNCHANGED <<flash, locked, pgerr, address, num, image>>
  BY DEF AllInv, Scanned, BootLastId, Runs, TypeOK
<1>2. lastId' \in 0 .. W * W - 1
  <2>1. CASE found > 0 /\ ~(Int8(found - 1) > num \/ Int8(found - 1) < 0)
    <3> DEFINE ix == Int8(found - 1)
    <3>1. ix \in 0 .. found
      <4>1. ix \in Int /\ ix <= found - 1
        BY <1>1, <2>1, Int8AtMost
      <4> QED
        BY <1>1, <2>1, <4>1
    <3>2. Slot(ix) \in Cell /\ Slot(ix) + 1 \in Cell
      BY <1>1, <3>1, SizesAreNat DEF Slot, RecLen, Cell
    <3>3. IdAt(flash, Slot(ix)) \in 0 .. W * W - 1
      BY <1>1, <3>2, U32InRange DEF IdAt, TypeOK
    <3> QED
      BY <2>1, <3>3 DEF BootLastId, GetRecordID
  <2>2. CASE found > 0 /\ (Int8(found - 1) > num \/ Int8(found - 1) < 0)
    BY <2>2 DEF BootLastId, GetRecordID
  <2>3. CASE ~(found > 0)
    <3>1. lastId' = lastId
      BY <2>3 DEF BootLastId
    <3>2. W * W \in Nat
      BY FlashParameters
    <3> QED
      BY <3>1, <3>2 DEF AllInv, TypeOK
  <2> QED
    BY <2>1, <2>2, <2>3
<1>3. lastId' \in Nat /\ lastId' < W * W
  BY <1>2, SizesAreNat
<1>4. /\ pc' \in [Ctx -> Label] /\ pos' \in [Ctx -> Nat]
      /\ pc'["base"] = "idle"
      /\ pc'["isr"] = "idle" /\ pos'["isr"] = pos["isr"]
  BY <1>1, GotoLabel, OtherCtx DEF Label
<1>5. TypeOK'
  BY <1>1, <1>3, <1>4 DEF TypeOK, Label
<1>6. Writing' /\ Scanned'
  BY <1>1, <1>4 DEF Writing, Scanned
<1>7. LockHeld' /\ \A d \in Ctx : HeaderLoop(d)'
  BY <1>1, <1>4, OtherCtx DEF AllInv, LockHeld, Unlocker, HeaderLoop
<1> QED
  BY <1>3, <1>5, <1>6, <1>7 DEF AllInv

LEMMA PowerCycleAllInv ==
  ASSUME AllInv, PowerCycle
  PROVE  AllInv'
<1>1. TypeOK'
  <2>1. image' \in [Ctx -> Seq(HalfWord)] /\ pos' \in [Ctx -> Nat]
    BY DEF PowerCycle, Reset
  <2>2. pc' \in [Ctx -> {"idle", "check"}]
    BY DEF PowerCycle, Reset, Ctx
  <2> QED
    BY <2>1, <2>2, SizesAreNat DEF AllInv, TypeOK, PowerCycle, Reset
<1>2. (lastId < W * W)'
  BY SizesAreNat DEF PowerCycle, Reset
<1>3. pc'["isr"] = "idle" /\ pc'["base"] = "check" /\ locked'
      /\ mode' = "boot" /\ found' = 0
  BY OtherCtx DEF PowerCycle, Reset
<1> QED
  BY <1>1, <1>2, <1>3, OtherCtx
  DEF AllInv, Writing, Scanned, LockHeld, HeaderLoop

LEMMA NextAllInv ==
  ASSUME AllInv, [NextAll]_vars
  PROVE  AllInv'
<1>1. ASSUME NEW wm \in Payload, NEW frames \in Payload, WriteRecord(wm, frames)
      PROVE  AllInv'
  BY <1>1, WriteRecordAllInv
<1>2. CASE WriteHalfWord
  BY <1>2, WriteHalfWordAllInv
<1>3. CASE HostErase \/ HostEraseBoot
  BY <1>3, EraseRecordAllInv, OtherCtx DEF HostErase, HostEraseBoot
<1>4. CASE TcpErase
  BY <1>4, EraseRecordAllInv, OtherCtx DEF TcpErase, Runs
<1>5. ASSUME NEW c \in Ctx, EraseStep(c)
      PROVE  AllInv'
  BY <1>5, ErasePageAllInv, PagesErasedAllInv, ResetNumAllInv,
     SetRecordHeaderAllInv DEF EraseStep
<1>6. CASE Boot
  BY <1>6, BootCheckAllInv, BootScanAllInv, BootPublishAllInv, BootLastIdAllInv
  DEF Boot
<1>7. CASE PowerCycle
  BY <1>7, PowerCycleAllInv
<1>8. CASE UNCHANGED vars
  BY <1>8 DEF vars, AllInv, TypeOK, Writing, Scanned, LockHeld, Unlocker,
     HeaderLoop
<1> QED
  BY <1>1, <1>2, <1>3, <1>4, <1>5, <1>6, <1>7, <1>8
  DEF NextAll, Next, Report, ReportBoot, RunEnds

LEMMA InductiveInvariantAll == SpecAll => []AllInv
<1> QED
  BY InitAllInv, NextAllInv, PTL DEF SpecAll

(* With every caller there is, and the operations of the two contexts       *)
(* nested in any way, the variables keep their types: no half-word outside  *)
(* 0..W-1, no number of records or ID below zero.                           *)
THEOREM TypeCorrectAll == SpecAll => []TypeOK
<1>1. AllInv => TypeOK
  BY DEF AllInv
<1> QED
  BY <1>1, InductiveInvariantAll, PTL

(* Once both contexts are idle the controller is locked, however an erase   *)
(* of one was cut by a write or an erase of the other, and whether or not   *)
(* the driver reported an error in one of them.                             *)
THEOREM IdleIsLocked == SpecAll => []LockedWhenIdle
<1>1. AllInv => LockedWhenIdle
  BY DEF AllInv, LockHeld, Unlocker, LockedWhenIdle, Quiet
<1> QED
  BY <1>1, InductiveInvariantAll, PTL
=============================================================================
