----------------------- MODULE WatermarkStore_proofs --------------------------
(* Theorems about WatermarkStore, for every size of area, page, header,     *)
(* watermark and half-word.                                                 *)
EXTENDS WatermarkStore, SequenceTheorems, TLAPS

ErasedFrom(f, a) == \A b \in Cell : b >= a => f[b] = Blank
UsedBelow(f, n)  == \A i \in 0 .. n - 1 : Used(f, Slot(i))
Holds(f, start, img, k) == \A j \in 0 .. k - 1 : f[start + j] = img[j + 1]

Labels == {"idle", "write", "erase", "reset", "header", "check", "scan", "publish"}

LEMMA SizesAreNat ==
  /\ HdrLen \in Nat /\ HdrLen = IdLen + 2 /\ HdrLen + WmLen < Area
  /\ Blank \in HalfWord /\ Sig \in HalfWord /\ Sig # Blank
  /\ 0 \in Cell /\ 0 \in HalfWord
  /\ IdLen \in Nat /\ IdLen > 0 /\ WmLen \in Nat /\ WmLen > 1
  /\ Area \in Nat /\ W \in Nat /\ W > 2 /\ PageLen \in Nat /\ PageLen > 0
BY FlashParameters DEF HdrLen, Blank, HalfWord, Cell

-----------------------------------------------------------------------------
(* Where the slots are. *)

LEMMA FirstSlot == Slot(0) = HdrLen
BY SizesAreNat DEF Slot

LEMMA NextSlot ==
  ASSUME NEW n \in Nat
  PROVE  Slot(n) \in Nat /\ Slot(n + 1) = Slot(n) + WmLen /\ Slot(n) >= HdrLen
<1>1. WmLen * n \in Nat /\ WmLen * (n + 1) = WmLen * n + WmLen
  BY SizesAreNat
<1> QED
  BY <1>1, SizesAreNat DEF Slot

(* A slot ends where a later one begins, or before. *)
LEMMA SlotsApart ==
  ASSUME NEW m \in Nat, NEW n \in Nat, m < n
  PROVE  Slot(m) + WmLen <= Slot(n) /\ n <= Slot(n)
<1>1. PICK d \in Nat : n = m + 1 + d
  <2>1. n - m - 1 \in Nat /\ n = m + 1 + (n - m - 1)
    OBVIOUS
  <2> QED
    BY <2>1
<1>2. WmLen * n = WmLen * m + WmLen + WmLen * d
  BY <1>1, SizesAreNat
<1>3. WmLen * d \in Nat /\ WmLen * m \in Nat
  BY SizesAreNat
<1>4. WmLen * n >= n
  <2>1. WmLen * n = n + (WmLen - 1) * n /\ (WmLen - 1) * n \in Nat
    BY SizesAreNat
  <2> QED
    BY <2>1, SizesAreNat
<1> QED
  BY <1>2, <1>3, <1>4, SizesAreNat DEF Slot

(* Slot(Capacity) is where the room for watermarks ends. *)
LEMMA RoomEnds ==
  /\ Capacity \in Nat /\ Slot(Capacity) < Area
  /\ \A n \in Nat : Slot(n) + WmLen < Area => n + 1 <= Capacity
  /\ (Area - HdrLen) % WmLen # 1 => Slot(Capacity) + 1 < Area
<1> DEFINE room == Area - HdrLen - 1
<1>1. room \in Nat /\ WmLen \in Nat /\ WmLen > 1
  BY SizesAreNat
<1>2. /\ room = WmLen * Capacity + (room % WmLen)
      /\ room % WmLen \in 0 .. WmLen - 1 /\ Capacity \in Int
  <2>1. Capacity = room \div WmLen
    BY DEF Capacity
  <2> HIDE DEF room
  <2>2. /\ room = WmLen * (room \div WmLen) + (room % WmLen)
        /\ room % WmLen \in 0 .. WmLen - 1 /\ room \div WmLen \in Int
    BY <1>1
  <2> QED
    BY <2>1, <2>2
<1>3. Capacity \in Nat
  <2> SUFFICES ASSUME Capacity < 0 PROVE FALSE
    BY <1>2
  <2>1. WmLen * Capacity <= WmLen * (-1)
    BY <1>1, <1>2
  <2> QED
    BY <1>1, <1>2, <2>1
<1>4. Slot(Capacity) < Area
  BY <1>1, <1>2, <1>3, SizesAreNat DEF Slot
<1>5. ASSUME NEW n \in Nat, Slot(n) + WmLen < Area
      PROVE  n + 1 <= Capacity
  <2> SUFFICES ASSUME Capacity < n + 1 PROVE FALSE
    BY <1>3
  <2>1. Slot(Capacity) + WmLen <= Slot(n + 1)
    BY <1>3, SlotsApart
  <2>2. Slot(n + 1) = Slot(n) + WmLen
    BY NextSlot
  <2>3. Slot(Capacity) = Area - 1 - (room % WmLen)
    BY <1>1, <1>2, <1>3, SizesAreNat DEF Slot
  <2> QED
    BY <1>1, <1>2, <1>5, <2>1, <2>2, <2>3, NextSlot, SizesAreNat
<1>6. ASSUME (Area - HdrLen) % WmLen # 1
      PROVE  Slot(Capacity) + 1 < Area
  <2> SUFFICES ASSUME room % WmLen = 0 PROVE FALSE
    BY <1>1, <1>2, <1>3, SizesAreNat DEF Slot
  <2>1. Area - HdrLen = WmLen * Capacity + 1
    BY <1>1, <1>2, SizesAreNat
  <2>2. (WmLen * Capacity + 1) % WmLen = 1
    BY <1>1, <1>3
  <2> QED
    BY <1>6, <2>1, <2>2
<1> QED
  BY <1>3, <1>4, <1>5, <1>6

-----------------------------------------------------------------------------
(***************************************************************************)
(* What holds clean or not: where each phase is, what it has erased, and    *)
(* that nothing is ever programmed where no watermark fits.                 *)
(***************************************************************************)

Modes ==
  /\ pc = "write" => mode = "run"
  /\ pc \in {"check", "scan", "publish"} => mode = "boot"
  /\ mode = "boot" => pc \notin {"idle", "write"}
  /\ mode = "fault" => pc = "idle"
  /\ pc \notin {"scan", "publish"} /\ mode # "fault" => found = 0

WriteRoom == pc = "write" => Fits /\ pos < WmLen /\ image \in Mark

EraseDone ==
  pc = "erase" /\ ~cut =>
    /\ ~locked
    /\ pos > 0 => ~pgerr
    /\ \A a \in Cell : a < pos => flash[a] = Blank

ResetDone ==
  pc = "reset" =>
    /\ address = HdrLen
    /\ ~cut => ~pgerr /\ ErasedFrom(flash, 0)

HeaderAt == pc = "header" => pos <= IdLen /\ image = HeaderImage

AddressAtSlot ==
  mode = "run" \/ pc = "publish" => \E n \in Nat : address = Slot(n)

ScanAt == pc = "scan" => pos = Slot(found) /\ found <= Capacity

TailErased == ErasedFrom(flash, Slot(Capacity))

BInv ==
  /\ TypeOK /\ (clean => ~cut) /\ Modes
  /\ WriteRoom /\ EraseDone /\ ResetDone /\ HeaderAt
  /\ AddressAtSlot /\ ScanAt /\ TailErased

LEMMA HeaderImageType ==
  HeaderImage \in [1 .. IdLen + 1 -> HalfWord] /\ Len(HeaderImage) = IdLen + 1
  /\ HeaderImage \in Seq(HalfWord)
<1>1. HeaderImage \in [1 .. IdLen + 1 -> HalfWord]
  BY SizesAreNat DEF HeaderImage
<1>2. IdLen + 1 \in Nat
  BY SizesAreNat
<1>3. HeaderImage \in Seq(HalfWord)
  BY <1>1, <1>2, SeqDef
<1>4. DOMAIN HeaderImage = 1 .. IdLen + 1
  BY <1>1
<1> QED
  BY <1>1, <1>2, <1>3, <1>4, LenProperties

LEMMA MarkIsSeq ==
  ASSUME NEW wm \in Mark
  PROVE  wm \in Seq(HalfWord) /\ Len(wm) = WmLen
<1>1. wm \in [1 .. WmLen -> HalfWord] /\ WmLen \in Nat
  BY SizesAreNat DEF Mark
<1>2. wm \in Seq(HalfWord)
  BY <1>1, SeqDef
<1> QED
  BY <1>1, <1>2, LenProperties

LEMMA InitBInv == Init => BInv
<1> SUFFICES ASSUME Init PROVE BInv
  OBVIOUS
<1>1. TypeOK
  <2>1. flash \in [Cell -> HalfWord]
    BY SizesAreNat DEF Init
  <2>2. << >> \in Seq(HalfWord)
    OBVIOUS
  <2> QED
    BY <2>1, <2>2 DEF Init, TypeOK
<1>2. TailErased
  BY DEF Init, TailErased, ErasedFrom
<1> QED
  BY <1>1, <1>2 DEF Init, BInv, Modes, WriteRoom, EraseDone, ResetDone,
     HeaderAt, AddressAtSlot, ScanAt

(* One half-word programmed: no other cell changes. *)
LEMMA ProgramStep ==
  ASSUME TypeOK, NEW start \in Nat, NEW c \in BOOLEAN, start + pos \in Cell,
         image[pos + 1] \in HalfWord, Usr_Flash_Write(start, c)
  PROVE  /\ flash' \in [Cell -> HalfWord]
         /\ locked' \in BOOLEAN /\ pgerr' \in BOOLEAN
         /\ \A b \in Cell : b # start + pos => flash'[b] = flash[b]
<1> DEFINE closed == c \/ (locked /\ pos # 0 /\ pos # Split)
<1>1. FLASH_ProgramHalfWord(start + pos, image[pos + 1], closed)
  BY DEF Usr_Flash_Write
<1>2. pgerr' \in BOOLEAN
  BY <1>1 DEF FLASH_ProgramHalfWord, TypeOK
<1>3. locked' \in BOOLEAN
  BY DEF Usr_Flash_Write
<1>4. flash' = flash \/ flash' = [flash EXCEPT ![start + pos] = image[pos + 1]]
  BY <1>1 DEF FLASH_ProgramHalfWord
<1> QED
  BY <1>2, <1>3, <1>4 DEF TypeOK

LEMMA WriteWMBInv ==
  ASSUME BInv, NEW wm \in Watermarks, WriteWM(wm)
  PROVE  BInv'
<1>1. wm \in Mark /\ wm \in Seq(HalfWord)
  BY FlashParameters, MarkIsSeq
<1>2. /\ pc' = "write" /\ pos' = 0 /\ image' = wm /\ cut' = FALSE
      /\ clean' \in BOOLEAN /\ Fits /\ mode = "run" /\ pc = "idle"
      /\ UNCHANGED <<flash, locked, pgerr, address, num, mode, found>>
  BY DEF WriteWM, Goto, flags
<1>3. TypeOK'
  BY <1>1, <1>2 DEF BInv, TypeOK
<1>4. Modes' /\ AddressAtSlot'
  BY <1>2 DEF BInv, Modes, AddressAtSlot
<1>5. WriteRoom'
  BY <1>1, <1>2, SizesAreNat DEF WriteRoom, Fits
<1> QED
  BY <1>2, <1>3, <1>4, <1>5 DEF BInv, EraseDone, ResetDone, HeaderAt, ScanAt,
     TailErased

LEMMA WriteHalfWordBInv ==
  ASSUME BInv, NEW c \in BOOLEAN, WriteHalfWord(c)
  PROVE  BInv'
<1>1. /\ pc = "write" /\ Usr_Flash_Write(address, c) /\ mode = "run"
      /\ cut' = (cut \/ c) /\ clean' = (clean /\ ~c)
      /\ UNCHANGED <<mode, found>> /\ found = 0
  BY DEF WriteHalfWord, Cut, BInv, Modes
<1>2. /\ TypeOK /\ address + WmLen < Area /\ pos < WmLen /\ image \in Mark
      /\ address \in Nat /\ pos \in Nat /\ num \in Nat
  BY <1>1 DEF BInv, WriteRoom, Fits, TypeOK
<1>3. address + pos \in Cell /\ image[pos + 1] \in HalfWord
  BY <1>2, SizesAreNat DEF Cell, Mark
<1>4. /\ flash' \in [Cell -> HalfWord]
      /\ locked' \in BOOLEAN /\ pgerr' \in BOOLEAN
      /\ \A b \in Cell : b # address + pos => flash'[b] = flash[b]
  BY <1>1, <1>2, <1>3, ProgramStep
<1>5. PICK n \in Nat : address = Slot(n)
  BY <1>1 DEF BInv, AddressAtSlot
<1>6. address + WmLen = Slot(n + 1) /\ n + 1 \in Nat
  BY <1>5, NextSlot
<1>7. TailErased'
  <2>1. n + 1 <= Capacity
    BY <1>2, <1>5, RoomEnds
  <2>2. Slot(n + 1) <= Slot(Capacity) /\ Slot(Capacity) \in Nat
    BY <1>6, <2>1, RoomEnds, SlotsApart, NextSlot, SizesAreNat
  <2> SUFFICES ASSUME NEW b \in Cell, b >= Slot(Capacity)
               PROVE  flash'[b] = Blank
    BY DEF TailErased, ErasedFrom, Slot, Capacity
  <2>3. b # address + pos
    BY <1>2, <1>6, <2>2, SizesAreNat DEF Cell
  <2> QED
    BY <1>4, <2>3 DEF BInv, TailErased, ErasedFrom
<1>8. cut' \in BOOLEAN /\ clean' \in BOOLEAN /\ (clean' => ~cut')
  BY <1>1, <1>2 DEF BInv, TypeOK
<1>9. CASE pos + 1 < WmLen
  <2>1. pc' = "write" /\ pos' = pos + 1 /\ UNCHANGED <<address, num, image>>
    BY <1>9 DEF WriteHalfWord, Goto, flags
  <2>2. TypeOK'
    BY <1>1, <1>2, <1>4, <1>8, <2>1 DEF TypeOK
  <2>3. WriteRoom' /\ Modes' /\ AddressAtSlot'
    BY <1>1, <1>2, <1>5, <1>9, <2>1
    DEF WriteRoom, Fits, Modes, AddressAtSlot, Slot
  <2> QED
    BY <1>7, <1>8, <2>1, <2>2, <2>3
    DEF BInv, EraseDone, ResetDone, HeaderAt, ScanAt
<1>10. CASE ~(pos + 1 < WmLen)
  <2>1. /\ pc' = "idle" /\ pos' = 0 /\ image' = <<>>
        /\ address' = address + WmLen /\ num' = num + 1
    BY <1>10 DEF WriteHalfWord, Goto
  <2>2. address' \in Nat /\ num' \in Nat /\ image' \in Seq(HalfWord)
    BY <1>2, <2>1, SizesAreNat
  <2>3. TypeOK'
    BY <1>1, <1>2, <1>4, <1>8, <2>1, <2>2 DEF TypeOK
  <2>4. AddressAtSlot'
    BY <1>6, <2>1 DEF AddressAtSlot, Slot
  <2>5. Modes'
    BY <1>1, <2>1 DEF Modes
  <2> QED
    BY <1>7, <1>8, <2>1, <2>3, <2>4, <2>5
    DEF BInv, WriteRoom, EraseDone, ResetDone, HeaderAt, ScanAt
<1> QED
  BY <1>9, <1>10

LEMMA EraseWMBInv ==
  ASSUME BInv, EraseWM, \/ mode = "run" /\ pc = "idle"
                        \/ pc = "check"
  PROVE  BInv'
<1>1. /\ locked' = FALSE /\ cut' = FALSE /\ pc' = "erase" /\ pos' = 0
      /\ UNCHANGED <<flash, pgerr, address, num, mode, image, found, clean>>
  BY DEF EraseWM, Goto, flags
<1>2. TypeOK' /\ Modes' /\ AddressAtSlot'
  BY <1>1 DEF BInv, TypeOK, Modes, AddressAtSlot
<1>3. EraseDone'
  BY <1>1 DEF EraseDone, Cell
<1> QED
  BY <1>1, <1>2, <1>3 DEF BInv, WriteRoom, ResetDone, HeaderAt, ScanAt, TailErased

(* Where an erase or a header that is over goes back to. *)
LEMMA LeaveBInv ==
  ASSUME BInv, Leave, pc \in {"check", "erase", "header"},
         UNCHANGED <<mode, address, num, found>>,
         flash' \in [Cell -> HalfWord], locked' \in BOOLEAN, pgerr' \in BOOLEAN,
         image' \in Seq(HalfWord), cut' \in BOOLEAN, clean' \in BOOLEAN,
         clean' => ~cut', TailErased'
  PROVE  BInv'
<1>1. TypeOK /\ found = 0 /\ mode \in {"boot", "run"}
  BY DEF BInv, Modes, TypeOK
<1>2. /\ mode = "boot" => pc' = "scan" /\ pos' = HdrLen
      /\ mode = "run" => pc' = "idle" /\ pos' = 0
  BY DEF Leave, Goto
<1>3. TypeOK'
  BY <1>1, <1>2, SizesAreNat DEF TypeOK
<1>4. Modes' /\ AddressAtSlot'
  BY <1>1, <1>2 DEF BInv, Modes, AddressAtSlot
<1>5. ScanAt'
  BY <1>1, <1>2, FirstSlot, RoomEnds DEF ScanAt
<1> QED
  BY <1>1, <1>2, <1>3, <1>4, <1>5
  DEF BInv, WriteRoom, EraseDone, ResetDone, HeaderAt

LEMMA ErasePageBInv ==
  ASSUME BInv, NEW c \in BOOLEAN, ErasePage(c)
  PROVE  BInv'
<1>1. /\ pc = "erase" /\ pos < Area /\ TypeOK /\ pos \in Nat
      /\ cut' = (cut \/ c) /\ clean' = (clean /\ ~c)
      /\ UNCHANGED <<pgerr, address, num, mode, image, found>>
  BY DEF ErasePage, Cut, flags, BInv, TypeOK
<1>2. cut' \in BOOLEAN /\ clean' \in BOOLEAN /\ (clean' => ~cut')
  BY <1>1 DEF BInv, TypeOK
<1>3. CASE pgerr
  <2>1. locked' = TRUE /\ Leave /\ flash' = flash
    BY <1>3 DEF ErasePage
  <2>2. TailErased'
    BY <2>1 DEF BInv, TailErased, ErasedFrom, Slot, Capacity
  <2> QED
    BY <1>1, <1>2, <2>1, <2>2, LeaveBInv DEF TypeOK
<1>4. CASE ~pgerr
  <2> DEFINE page == pos .. pos + PageLen - 1
  <2>1. /\ flash' = IF locked \/ c THEN flash
                    ELSE [a \in Cell |-> IF a \in page THEN Blank ELSE flash[a]]
        /\ locked' = (locked \/ c) /\ pc' = "erase" /\ pos' = pos + PageLen
    BY <1>4 DEF ErasePage, Goto
  <2>2. flash' \in [Cell -> HalfWord] /\ pos + PageLen \in Nat
    BY <1>1, <2>1, SizesAreNat DEF TypeOK
  <2>3. TypeOK'
    BY <1>1, <1>2, <2>1, <2>2 DEF TypeOK
  <2>4. TailErased'
    BY <1>1, <2>1 DEF BInv, TailErased, ErasedFrom, Slot, Capacity
  <2>5. EraseDone'
    <3> SUFFICES ASSUME ~cut'
                 PROVE  /\ ~locked' /\ ~pgerr'
                        /\ \A a \in Cell : a < pos + PageLen => flash'[a] = Blank
      BY <2>1 DEF EraseDone
    <3>1. ~cut /\ ~c /\ ~locked /\ \A a \in Cell : a < pos => flash[a] = Blank
      BY <1>1 DEF BInv, EraseDone
    <3>2. ASSUME NEW a \in Cell, a < pos + PageLen
          PROVE  flash'[a] = Blank
      <4>1. a < pos \/ a \in page
        BY <1>1, <3>2, SizesAreNat DEF Cell
      <4> QED
        BY <2>1, <3>1, <4>1
    <3> QED
      BY <1>1, <1>4, <2>1, <3>1, <3>2
  <2>6. Modes' /\ AddressAtSlot'
    BY <1>1, <2>1 DEF BInv, Modes, AddressAtSlot
  <2> QED
    BY <1>2, <2>1, <2>3, <2>4, <2>5, <2>6
    DEF BInv, WriteRoom, ResetDone, HeaderAt, ScanAt
<1> QED
  BY <1>3, <1>4

LEMMA PagesErasedBInv == BInv /\ PagesErased => BInv'
<1> SUFFICES ASSUME BInv, PagesErased PROVE BInv'
  OBVIOUS
<1>1. /\ pc = "erase" /\ pos >= Area /\ TypeOK /\ locked' = TRUE
      /\ address' = HdrLen /\ pc' = "reset" /\ pos' = 0 /\ clean' = ~cut
      /\ UNCHANGED <<flash, pgerr, num, mode, image, found, cut>>
  BY DEF PagesErased, Goto, BInv
<1>2. TypeOK' /\ (clean' => ~cut')
  BY <1>1, SizesAreNat DEF TypeOK
<1>3. ResetDone'
  <2> SUFFICES ASSUME ~cut PROVE ~pgerr /\ ErasedFrom(flash, 0)
    BY <1>1 DEF ResetDone, ErasedFrom
  <2>1. \A a \in Cell : a < pos => flash[a] = Blank
    BY <1>1 DEF BInv, EraseDone
  <2>2. \A a \in Cell : a < pos
    BY <1>1, SizesAreNat DEF Cell, TypeOK
  <2>3. pos > 0
    BY <1>1, SizesAreNat DEF TypeOK
  <2> QED
    BY <1>1, <2>1, <2>2, <2>3 DEF BInv, EraseDone, ErasedFrom
<1>4. AddressAtSlot'
  BY <1>1, FirstSlot DEF AddressAtSlot, Slot
<1>5. Modes' /\ TailErased'
  BY <1>1 DEF BInv, Modes, TailErased, ErasedFrom, Slot, Capacity
<1> QED
  BY <1>1, <1>2, <1>3, <1>4, <1>5
  DEF BInv, WriteRoom, EraseDone, HeaderAt, ScanAt

LEMMA ResetNumBInv == BInv /\ ResetNum => BInv'
<1> SUFFICES ASSUME BInv, ResetNum PROVE BInv'
  OBVIOUS
<1>1. /\ pc = "reset" /\ num' = 0 /\ image' = HeaderImage
      /\ pc' = "header" /\ pos' = 0
      /\ UNCHANGED <<flash, locked, pgerr, address, mode, found, cut, clean>>
  BY DEF ResetNum, Goto, history
<1>2. TypeOK'
  BY <1>1, HeaderImageType DEF BInv, TypeOK
<1>3. HeaderAt'
  BY <1>1, SizesAreNat DEF HeaderAt, HeaderImage
<1>4. Modes' /\ TailErased' /\ AddressAtSlot'
  BY <1>1 DEF BInv, Modes, TailErased, ErasedFrom, AddressAtSlot, Slot, Capacity
<1> QED
  BY <1>1, <1>2, <1>3, <1>4
  DEF BInv, WriteRoom, EraseDone, ResetDone, ScanAt

LEMMA SetWMHeaderBInv ==
  ASSUME BInv, NEW c \in BOOLEAN, SetWMHeader(c)
  PROVE  BInv'
<1>1. /\ pc = "header" /\ Usr_Flash_Write(0, c)
      /\ cut' = (cut \/ c) /\ clean' = (clean /\ ~c)
      /\ UNCHANGED <<address, num, mode, found>>
  BY DEF SetWMHeader, Cut, flags
<1>2. TypeOK /\ pos \in Nat /\ pos <= IdLen /\ image = HeaderImage
  BY <1>1 DEF BInv, HeaderAt, TypeOK
<1>3. 0 + pos = pos /\ pos \in Cell /\ image[pos + 1] \in HalfWord
  <2>1. pos + 1 \in 1 .. IdLen + 1
    BY <1>2, SizesAreNat
  <2> QED
    BY <1>2, <2>1, HeaderImageType, SizesAreNat DEF Cell
<1>4. /\ flash' \in [Cell -> HalfWord]
      /\ locked' \in BOOLEAN /\ pgerr' \in BOOLEAN
      /\ \A b \in Cell : b # pos => flash'[b] = flash[b]
  BY <1>1, <1>2, <1>3, ProgramStep
<1>5. TailErased'
  <2> SUFFICES ASSUME NEW b \in Cell, b >= Slot(Capacity)
               PROVE  flash'[b] = Blank
    BY DEF TailErased, ErasedFrom, Slot, Capacity
  <2>1. Slot(Capacity) >= HdrLen /\ Slot(Capacity) \in Nat
    BY RoomEnds, NextSlot
  <2>2. b # pos
    BY <1>2, <2>1, SizesAreNat DEF Cell
  <2> QED
    BY <1>4, <2>2 DEF BInv, TailErased, ErasedFrom
<1>6. cut' \in BOOLEAN /\ clean' \in BOOLEAN /\ (clean' => ~cut')
  BY <1>1, <1>2 DEF BInv, TypeOK
<1>7. CASE pos + 1 < Len(image)
  <2>1. pc' = "header" /\ pos' = pos + 1 /\ image' = image
    BY <1>7 DEF SetWMHeader, Goto
  <2>2. TypeOK'
    BY <1>1, <1>2, <1>4, <1>6, <2>1 DEF TypeOK
  <2>3. HeaderAt'
    <3>1. pos + 1 <= IdLen
      BY <1>2, <1>7, HeaderImageType, SizesAreNat
    <3> QED
      BY <1>2, <2>1, <3>1 DEF HeaderAt, HeaderImage
  <2>4. Modes' /\ AddressAtSlot'
    BY <1>1, <2>1 DEF BInv, Modes, AddressAtSlot, Slot
  <2> QED
    BY <1>5, <1>6, <2>1, <2>2, <2>3, <2>4
    DEF BInv, WriteRoom, EraseDone, ResetDone, ScanAt
<1>8. CASE ~(pos + 1 < Len(image))
  <2>1. Leave /\ image' = <<>>
    BY <1>8 DEF SetWMHeader
  <2>2. image' \in Seq(HalfWord)
    BY <2>1
  <2> QED
    BY <1>1, <1>4, <1>5, <1>6, <2>1, <2>2, LeaveBInv
<1> QED
  BY <1>7, <1>8

LEMMA BootCheckBInv == BInv /\ BootCheck => BInv'
<1> SUFFICES ASSUME BInv, BootCheck PROVE BInv'
  OBVIOUS
<1>1. pc = "check" /\ TypeOK
  BY DEF BootCheck, BInv
<1>2. CASE GetWMHeader(flash)
  <2>1. /\ Leave
        /\ UNCHANGED <<flash, locked, pgerr, address, num, mode, image, found,
                       cut, clean>>
    BY <1>2 DEF BootCheck, flags, history
  <2>2. TailErased'
    BY <2>1 DEF BInv, TailErased, ErasedFrom, Slot, Capacity
  <2> QED
    BY <1>1, <2>1, <2>2, LeaveBInv DEF BInv, TypeOK
<1>3. CASE ~GetWMHeader(flash)
  BY <1>1, <1>3, EraseWMBInv DEF BootCheck
<1> QED
  BY <1>2, <1>3

(* The scan never passes the slot where the room ends: it is erased. *)
LEMMA BootScanBInv == BInv /\ BootScan => BInv'
<1> SUFFICES ASSUME BInv, BootScan PROVE BInv'
  OBVIOUS
<1>1. /\ pc = "scan" /\ TypeOK /\ pos = Slot(found) /\ found <= Capacity
      /\ found \in Nat /\ mode = "boot"
      /\ UNCHANGED <<flash, locked, pgerr, num, image, cut, clean>>
  BY DEF BootScan, BInv, ScanAt, Modes, TypeOK, history
<1>2. TailErased'
  BY <1>1 DEF BInv, TailErased, ErasedFrom, Slot, Capacity
<1>3. CASE pos + 1 >= Area
  <2>1. mode' = "fault" /\ pc' = "idle" /\ UNCHANGED <<address, pos, found>>
    BY <1>3 DEF BootScan
  <2> QED
    BY <1>1, <1>2, <2>1 DEF BInv, TypeOK, Modes, WriteRoom, EraseDone, ResetDone,
       HeaderAt, AddressAtSlot, ScanAt
<1>4. CASE pos + 1 < Area /\ Used(flash, pos)
  <2>1. /\ pc' = "scan" /\ pos' = pos + WmLen /\ found' = found + 1
        /\ UNCHANGED <<mode, address>>
    BY <1>1, <1>4, SizesAreNat DEF BootScan, Goto, TypeOK
  <2>2. pos' = Slot(found') /\ pos' \in Nat
    BY <1>1, <2>1, NextSlot
  <2>3. found # Capacity
    <3> SUFFICES ASSUME found = Capacity PROVE FALSE
      OBVIOUS
    <3>1. pos \in Cell /\ pos + 1 \in Cell /\ pos >= pos /\ pos + 1 >= pos
      BY <1>1, <1>4, SizesAreNat DEF Cell, TypeOK
    <3>2. flash[pos] = Blank /\ flash[pos + 1] = Blank
      BY <1>1, <3>1 DEF BInv, TailErased, ErasedFrom
    <3> QED
      BY <1>4, <3>2 DEF Used
  <2>4. found' <= Capacity
    BY <1>1, <2>1, <2>3, RoomEnds
  <2>5. ScanAt'
    BY <2>2, <2>4 DEF ScanAt, Slot, Capacity
  <2> QED
    BY <1>1, <1>2, <2>1, <2>2, <2>5 DEF BInv, TypeOK, Modes, WriteRoom,
       EraseDone, ResetDone, HeaderAt, AddressAtSlot
<1>5. CASE pos + 1 < Area /\ ~Used(flash, pos)
  <2>1. /\ pc' = "publish" /\ pos' = 0 /\ address' = pos
        /\ UNCHANGED <<mode, found>>
    BY <1>1, <1>5, SizesAreNat DEF BootScan, Goto, TypeOK
  <2>2. AddressAtSlot'
    BY <1>1, <2>1 DEF AddressAtSlot, Slot
  <2> QED
    BY <1>1, <1>2, <2>1, <2>2 DEF BInv, TypeOK, Modes, WriteRoom,
       EraseDone, ResetDone, HeaderAt, ScanAt
<1> QED
  BY <1>1, <1>3, <1>4, <1>5, SizesAreNat DEF TypeOK

LEMMA BootPublishBInv == BInv /\ BootPublish => BInv'
<1> SUFFICES ASSUME BInv, BootPublish PROVE BInv'
  OBVIOUS
<1>1. /\ pc = "publish" /\ num' = found /\ found' = 0 /\ mode' = "run"
      /\ pc' = "idle" /\ pos' = 0
      /\ UNCHANGED <<flash, locked, pgerr, address, image, cut, clean>>
  BY DEF BootPublish, Goto, history
<1>2. AddressAtSlot' /\ TailErased'
  BY <1>1 DEF BInv, AddressAtSlot, TailErased, ErasedFrom, Slot, Capacity
<1> QED
  BY <1>1, <1>2 DEF BInv, TypeOK, Modes, WriteRoom, EraseDone, ResetDone,
     HeaderAt, ScanAt

LEMMA PowerCycleBInv == BInv /\ PowerCycle => BInv'
<1> SUFFICES ASSUME BInv, PowerCycle PROVE BInv'
  OBVIOUS
<1>1. /\ locked' = TRUE /\ pgerr' = FALSE /\ address' = 0 /\ num' = 0
      /\ mode' = "boot" /\ pc' = "check" /\ pos' = 0 /\ image' = <<>>
      /\ found' = 0 /\ cut' = FALSE /\ UNCHANGED <<flash, clean>>
  BY DEF PowerCycle
<1>2. TypeOK'
  <2>1. << >> \in Seq(HalfWord)
    OBVIOUS
  <2> QED
    BY <1>1, <2>1 DEF BInv, TypeOK
<1>3. TailErased'
  BY <1>1 DEF BInv, TailErased, ErasedFrom, Slot, Capacity
<1> QED
  BY <1>1, <1>2, <1>3 DEF BInv, Modes, WriteRoom, EraseDone, ResetDone,
     HeaderAt, AddressAtSlot, ScanAt

LEMMA NextBInv == BInv /\ [Next]_vars => BInv'
<1> SUFFICES ASSUME BInv, [Next]_vars PROVE BInv'
  OBVIOUS
<1>1. ASSUME NEW wm \in Watermarks, WriteWM(wm) PROVE BInv'
  BY <1>1, WriteWMBInv
<1>2. ASSUME NEW c \in BOOLEAN, WriteHalfWord(c) \/ ErasePage(c) \/ SetWMHeader(c)
      PROVE  BInv'
  BY <1>2, WriteHalfWordBInv, ErasePageBInv, SetWMHeaderBInv
<1>3. CASE TcpErase
  BY <1>3, EraseWMBInv DEF TcpErase
<1>4. CASE PagesErased \/ ResetNum
  BY <1>4, PagesErasedBInv, ResetNumBInv
<1>5. CASE Boot
  BY <1>5, BootCheckBInv, BootScanBInv, BootPublishBInv DEF Boot
<1>6. CASE PowerCycle
  BY <1>6, PowerCycleBInv
<1>7. CASE UNCHANGED vars
  BY <1>7 DEF vars, writer, flags, history, BInv, TypeOK, Modes, WriteRoom, Fits,
     EraseDone, ResetDone, HeaderAt, AddressAtSlot, ScanAt, TailErased
<1> QED
  BY <1>1, <1>2, <1>3, <1>4, <1>5, <1>6, <1>7 DEF Next

LEMMA BInductive == Spec => []BInv
<1> QED
  BY InitBInv, NextBInv, PTL DEF Spec

-----------------------------------------------------------------------------
(***************************************************************************)
(* What holds besides while the area is clean: the log of watermarks, phase *)
(* by phase.                                                                *)
(***************************************************************************)

(* The watermarks do not fill the area up to one half-word (in the real     *)
(* area, of 10240 half-words with 7 in the header and in each watermark,    *)
(* 6 are left over).                                                        *)
RoomLeft == (Area - HdrLen) % WmLen # 1

(* Boot can make a list of f. *)
Sound(f) == GetWMHeader(f) => \E n \in 0 .. Area : ListAt(f, n)

IdlePhase ==
  pc = "idle" =>
    /\ mode = "run" => GetWMHeader(flash) /\ address = Slot(num) /\ ListAt(flash, num)
    /\ mode = "fault" => Sound(flash)

WritePhase ==
  pc = "write" =>
    /\ GetWMHeader(flash) /\ address = Slot(num) /\ UsedBelow(flash, num)
    /\ ~ReadsErased(image)
    /\ pos \notin {0, 1} => ~locked
    /\ ErasedFrom(flash, address + pos)
    /\ Holds(flash, address, image, pos)

ErasePhase ==
  pc = "erase" /\ pos = 0 =>
    /\ mode = "run" => GetWMHeader(flash) /\ ListAt(flash, num)
    /\ mode = "boot" => ~GetWMHeader(flash)

HeaderPhase ==
  pc = "header" =>
    /\ address = HdrLen /\ num = 0
    /\ pos \notin {0, IdLen} => ~locked
    /\ ErasedFrom(flash, pos)
    /\ Holds(flash, 0, image, pos)

BootPhase ==
  /\ pc = "check" => Sound(flash)
  /\ pc = "scan" =>
       GetWMHeader(flash) /\ Sound(flash) /\ UsedBelow(flash, found)
  /\ pc = "publish" =>
       GetWMHeader(flash) /\ ListAt(flash, found) /\ address = Slot(found)

CleanInv ==
  clean => ~pgerr /\ IdlePhase /\ WritePhase /\ ErasePhase /\ HeaderPhase /\ BootPhase

IInv == BInv /\ CleanInv

LEMMA InitIInv == Init => IInv
<1> SUFFICES ASSUME Init PROVE IInv
  OBVIOUS
<1>1. ~GetWMHeader(flash)
  BY SizesAreNat DEF Init, GetWMHeader, Cell
<1> QED
  BY <1>1, InitBInv DEF Init, IInv, CleanInv, IdlePhase, WritePhase, ErasePhase,
     HeaderPhase, BootPhase, Sound

(* A list has fewer watermarks than the area has half-words. *)
LEMMA ListIsSound ==
  ASSUME NEW f, NEW n \in Nat, ListAt(f, n)
  PROVE  Sound(f)
<1>1. Slot(n) + 1 < Area /\ Slot(n) \in Nat
  BY NextSlot DEF ListAt
<1>2. n <= Slot(n)
  <2>1. CASE n = 0
    BY <1>1, <2>1
  <2>2. CASE n > 0
    BY <2>2, SlotsApart
  <2> QED
    BY <2>1, <2>2
<1>3. n \in 0 .. Area
  BY <1>1, <1>2, SizesAreNat
<1> QED
  BY <1>3 DEF Sound

LEMMA BlankIsSound ==
  ASSUME NEW f, f[0] = Blank
  PROVE  Sound(f)
BY SizesAreNat DEF Sound, GetWMHeader

(* Behind a watermark that fits, boot can read one more u32. *)
LEMMA RoomBehind ==
  ASSUME RoomLeft, NEW n \in Nat, Slot(n) + WmLen < Area
  PROVE  Slot(n + 1) + 1 < Area
<1>1. n + 1 <= Capacity /\ Capacity \in Nat /\ Slot(Capacity) + 1 < Area
  BY RoomEnds DEF RoomLeft
<1>2. Slot(n + 1) \in Nat /\ Slot(Capacity) \in Nat
  BY <1>1, NextSlot
<1>3. Slot(n + 1) <= Slot(Capacity)
  BY <1>1, <1>2, SlotsApart, SizesAreNat
<1> QED
  BY <1>1, <1>2, <1>3, SizesAreNat

(* A torn write leaves the list as it was, or one watermark longer. *)
LEMMA WriteTears ==
  ASSUME RoomLeft, BInv, WritePhase, pc = "write"
  PROVE  ListAt(flash, num) \/ ListAt(flash, num + 1)
<1>1. /\ pos \in Nat /\ pos < WmLen /\ num \in Nat /\ address \in Nat
      /\ address = Slot(num) /\ address + WmLen < Area
  BY DEF BInv, TypeOK, WriteRoom, Fits, WritePhase
<1>2. UsedBelow(flash, num) /\ ErasedFrom(flash, address + pos)
  BY DEF WritePhase
<1>3. CASE flash[address] = Blank /\ flash[address + 1] = Blank
  <2>1. pos = 0 \/ pos = 1
    <3> SUFFICES ASSUME pos > 1 PROVE FALSE
      BY <1>1
    <3>1. flash[address + 0] = image[0 + 1] /\ flash[address + 1] = image[1 + 1]
      BY <1>1 DEF WritePhase, Holds
    <3> QED
      BY <1>1, <1>3, <3>1 DEF WritePhase, ReadsErased
  <2>2. ErasedFrom(flash, address)
    BY <1>1, <1>2, <1>3, <2>1 DEF ErasedFrom, Cell
  <2>3. ListAt(flash, num)
    BY <1>1, <1>2, <2>2, SizesAreNat DEF ListAt, UsedBelow, ErasedFrom
  <2> QED
    BY <2>3
<1>4. CASE ~(flash[address] = Blank /\ flash[address + 1] = Blank)
  <2>1. Slot(num + 1) = address + WmLen
    BY <1>1, NextSlot
  <2>2. Used(flash, Slot(num))
    BY <1>1, <1>4 DEF Used
  <2>3. UsedBelow(flash, num + 1)
    BY <1>1, <1>2, <2>2 DEF UsedBelow
  <2>4. ErasedFrom(flash, address + WmLen)
    BY <1>1, <1>2, SizesAreNat DEF ErasedFrom, Cell
  <2>5. Slot(num + 1) + 1 < Area
    BY <1>1, RoomBehind
  <2>6. ListAt(flash, num + 1)
    BY <1>1, <2>1, <2>3, <2>4, <2>5 DEF ListAt, UsedBelow, ErasedFrom
  <2> QED
    BY <2>6
<1> QED
  BY <1>3, <1>4

(* A header under way is incomplete, or whole before an empty list. *)
LEMMA HeaderTears ==
  ASSUME BInv, HeaderPhase, pc = "header"
  PROVE  ~GetWMHeader(flash) \/ ListAt(flash, 0)
<1>1. ErasedFrom(flash, pos) /\ pos <= IdLen /\ pos \in Nat
  BY DEF HeaderPhase, BInv, HeaderAt, TypeOK
<1>2. CASE pos < IdLen
  <2>1. pos \in Cell /\ pos \in 0 .. IdLen - 1 /\ pos >= pos
    BY <1>1, <1>2, SizesAreNat DEF Cell
  <2>2. flash[pos] = Blank
    BY <1>1, <2>1 DEF ErasedFrom
  <2> QED
    BY <2>1, <2>2, SizesAreNat DEF GetWMHeader
<1>3. CASE pos >= IdLen
  <2>1. \A a \in Cell : a >= Slot(0) => flash[a] = Blank
    BY <1>1, FirstSlot, SizesAreNat DEF ErasedFrom, Cell
  <2> QED
    BY <2>1, FirstSlot, SizesAreNat DEF ListAt
<1> QED
  BY <1>1, <1>2, <1>3, SizesAreNat

(* So power may fail at any point of anything. *)
LEMMA AlwaysSound ==
  ASSUME RoomLeft, IInv, clean
  PROVE  Sound(flash)
<1>1. BInv /\ TypeOK /\ ~cut /\ Modes /\ CleanInv
  BY DEF IInv, BInv
<1>2. pos \in Nat /\ num \in Nat /\ found \in Nat
  BY <1>1 DEF TypeOK
<1>3. CASE pc = "idle"
  BY <1>1, <1>2, <1>3, ListIsSound DEF CleanInv, IdlePhase, Modes, TypeOK
<1>4. CASE pc = "write"
  <2>1. ListAt(flash, num) \/ ListAt(flash, num + 1)
    BY <1>1, <1>4, WriteTears DEF CleanInv
  <2> QED
    BY <1>2, <2>1, ListIsSound
<1>5. CASE pc = "erase"
  <2>1. CASE pos = 0
    BY <1>1, <1>2, <1>5, <2>1, ListIsSound
    DEF CleanInv, ErasePhase, Modes, TypeOK, Sound
  <2>2. CASE pos > 0
    <3>1. flash[0] = Blank
      BY <1>1, <1>5, <2>2, SizesAreNat DEF BInv, EraseDone
    <3> QED
      BY <3>1, BlankIsSound
  <2> QED
    BY <1>2, <2>1, <2>2
<1>6. CASE pc = "reset"
  <2>1. flash[0] = Blank
    BY <1>1, <1>2, <1>6, SizesAreNat DEF BInv, ResetDone, ErasedFrom
  <2> QED
    BY <2>1, BlankIsSound
<1>7. CASE pc = "header"
  BY <1>1, <1>7, HeaderTears, ListIsSound DEF CleanInv, Sound
<1>8. CASE pc \in {"check", "scan"}
  BY <1>1, <1>8 DEF CleanInv, BootPhase
<1>9. CASE pc = "publish"
  BY <1>1, <1>2, <1>9, ListIsSound DEF CleanInv, BootPhase
<1> QED
  BY <1>1, <1>3, <1>4, <1>5, <1>6, <1>7, <1>8, <1>9 DEF TypeOK

LEMMA PowerCycleClean ==
  ASSUME RoomLeft, IInv, PowerCycle
  PROVE  CleanInv'
<1>1. pgerr' = FALSE /\ pc' = "check" /\ UNCHANGED <<flash, clean>>
  BY DEF PowerCycle
<1>2. clean => Sound(flash)'
  BY <1>1, AlwaysSound DEF Sound, ListAt, Slot, Used, GetWMHeader
<1> QED
  BY <1>1, <1>2 DEF CleanInv, IdlePhase, WritePhase, ErasePhase, HeaderPhase,
     BootPhase

LEMMA WriteWMClean ==
  ASSUME IInv, NEW wm \in Watermarks, WriteWM(wm)
  PROVE  CleanInv'
<1> SUFFICES ASSUME clean' PROVE CleanInv'
  BY DEF CleanInv
<1>1. /\ pc' = "write" /\ pos' = 0 /\ image' = wm /\ clean /\ ~ReadsErased(wm)
      /\ mode = "run" /\ pc = "idle"
      /\ UNCHANGED <<flash, locked, pgerr, address, num, mode, found>>
  BY DEF WriteWM, Goto, flags
<1>2. /\ GetWMHeader(flash) /\ address = Slot(num) /\ ListAt(flash, num) /\ ~pgerr
      /\ address \in Nat
  BY <1>1 DEF IInv, CleanInv, IdlePhase, BInv, TypeOK
<1>3. UsedBelow(flash, num) /\ ErasedFrom(flash, address + 0)
  BY <1>2 DEF ListAt, UsedBelow, ErasedFrom
<1>4. Holds(flash', address', image', 0)
  BY DEF Holds
<1>5. WritePhase'
  BY <1>1, <1>2, <1>3, <1>4 DEF WritePhase, Slot, ReadsErased
<1> QED
  BY <1>1, <1>2, <1>5 DEF CleanInv, IdlePhase, ErasePhase, HeaderPhase, BootPhase

(* An open controller programs an erased half-word and flags nothing. *)
LEMMA ProgramErased ==
  ASSUME TypeOK, NEW start \in Nat, Usr_Flash_Write(start, FALSE),
         start + pos \in Cell, image[pos + 1] \in HalfWord,
         ~pgerr, flash[start + pos] = Blank,
         pos \notin {0, Split} => ~locked
  PROVE  /\ flash' = [flash EXCEPT ![start + pos] = image[pos + 1]]
         /\ ~pgerr'
         /\ pos + 1 \notin {Split, Len(image)} => ~locked'
<1> DEFINE closed == FALSE \/ (locked /\ pos # 0 /\ pos # Split)
<1>1. ~closed
  OBVIOUS
<1>2. FLASH_ProgramHalfWord(start + pos, image[pos + 1], closed)
  BY DEF Usr_Flash_Write
<1>3. flash' = [flash EXCEPT ![start + pos] = image[pos + 1]] /\ pgerr' = pgerr
  BY <1>1, <1>2 DEF FLASH_ProgramHalfWord
<1>4. locked' = (closed \/ pgerr' \/ pos + 1 \in {Split, Len(image)})
  BY DEF Usr_Flash_Write
<1> QED
  BY <1>1, <1>3, <1>4

(* The half-word programmed extends what the slot holds, and touches        *)
(* neither the header nor an earlier watermark nor the erased rest.         *)
LEMMA WriteHalfWordEffect ==
  ASSUME IInv, clean, WriteHalfWord(FALSE)
  PROVE  /\ GetWMHeader(flash') /\ UsedBelow(flash', num) /\ ~pgerr'
         /\ ErasedFrom(flash', address + (pos + 1))
         /\ Holds(flash', address, image, pos + 1)
         /\ pos + 1 \notin {1, WmLen} => ~locked'
<1>1. /\ pc = "write" /\ BInv /\ TypeOK /\ ~pgerr /\ WritePhase
      /\ Usr_Flash_Write(address, FALSE)
  BY DEF IInv, BInv, CleanInv, WriteHalfWord
<1>2. /\ pos \in Nat /\ pos < WmLen /\ num \in Nat /\ address \in Nat
      /\ address = Slot(num) /\ address + WmLen < Area /\ address >= HdrLen
      /\ image \in Mark /\ flash \in [Cell -> HalfWord]
      /\ Len(image) = WmLen /\ Split = 1
  BY <1>1, NextSlot, MarkIsSeq
  DEF BInv, TypeOK, WriteRoom, Fits, WritePhase, Split
<1>3. address + pos \in Cell /\ image[pos + 1] \in HalfWord
  BY <1>2, SizesAreNat DEF Cell, Mark
<1>4. flash[address + pos] = Blank /\ (pos \notin {0, Split} => ~locked)
  BY <1>1, <1>2, <1>3 DEF WritePhase, ErasedFrom, Cell
<1>5. /\ flash' = [flash EXCEPT ![address + pos] = image[pos + 1]]
      /\ ~pgerr' /\ (pos + 1 \notin {1, WmLen} => ~locked')
  BY <1>1, <1>2, <1>3, <1>4, ProgramErased
<1>6. \A b \in Cell : b # address + pos => flash'[b] = flash[b]
  BY <1>2, <1>5
<1>7. GetWMHeader(flash')
  <2> SUFFICES ASSUME NEW k \in 0 .. IdLen - 1 PROVE flash'[k] = Sig
    BY DEF GetWMHeader
  <2>1. k \in Cell /\ k # address + pos
    BY <1>2, SizesAreNat DEF Cell
  <2> QED
    BY <1>1, <1>6, <2>1 DEF WritePhase, GetWMHeader
<1>8. UsedBelow(flash', num)
  <2> SUFFICES ASSUME NEW i \in 0 .. num - 1 PROVE Used(flash', Slot(i))
    BY DEF UsedBelow
  <2>1. i \in Nat /\ i < num
    BY <1>2
  <2>2. Slot(i) \in Nat /\ Slot(i) + WmLen <= address
    BY <1>2, <2>1, SlotsApart, NextSlot
  <2>3. /\ Slot(i) \in Cell /\ Slot(i) + 1 \in Cell
        /\ Slot(i) # address + pos /\ Slot(i) + 1 # address + pos
    BY <1>2, <2>2, SizesAreNat DEF Cell
  <2> QED
    BY <1>1, <1>6, <2>3 DEF WritePhase, UsedBelow, Used
<1>9. ErasedFrom(flash', address + (pos + 1))
  <2> SUFFICES ASSUME NEW b \in Cell, b >= address + (pos + 1)
               PROVE  flash'[b] = Blank
    BY DEF ErasedFrom
  <2>1. b # address + pos /\ b >= address + pos
    BY <1>2 DEF Cell
  <2> QED
    BY <1>1, <1>6, <2>1 DEF WritePhase, ErasedFrom
<1>10. Holds(flash', address, image, pos + 1)
  <2> SUFFICES ASSUME NEW j \in 0 .. (pos + 1) - 1
               PROVE  flash'[address + j] = image[j + 1]
    BY DEF Holds
  <2>1. CASE j = pos
    BY <1>2, <1>3, <1>5, <2>1
  <2>2. CASE j # pos
    <3>1. j \in 0 .. pos - 1 /\ address + j \in Cell /\ address + j # address + pos
      BY <1>2, <2>2, SizesAreNat DEF Cell
    <3> QED
      BY <1>1, <1>6, <3>1 DEF WritePhase, Holds
  <2> QED
    BY <2>1, <2>2
<1> QED
  BY <1>5, <1>7, <1>8, <1>9, <1>10

LEMMA WriteHalfWordClean ==
  ASSUME RoomLeft, IInv, NEW c \in BOOLEAN, WriteHalfWord(c)
  PROVE  CleanInv'
<1> SUFFICES ASSUME clean' PROVE CleanInv'
  BY DEF CleanInv
<1>1. clean /\ c = FALSE
  BY DEF WriteHalfWord, Cut
<1>2. /\ GetWMHeader(flash') /\ UsedBelow(flash', num) /\ ~pgerr'
      /\ ErasedFrom(flash', address + (pos + 1))
      /\ Holds(flash', address, image, pos + 1)
      /\ pos + 1 \notin {1, WmLen} => ~locked'
  BY <1>1, WriteHalfWordEffect
<1>3. /\ pc = "write" /\ mode = "run" /\ pos \in Nat /\ pos < WmLen /\ num \in Nat
      /\ address = Slot(num) /\ ~ReadsErased(image) /\ address + WmLen < Area
      /\ UNCHANGED mode
  BY <1>1 DEF IInv, BInv, CleanInv, TypeOK, Modes, WriteRoom, Fits, WritePhase,
     WriteHalfWord
<1>4. CASE pos + 1 < WmLen
  <2>1. pc' = "write" /\ pos' = pos + 1 /\ UNCHANGED <<address, num, image>>
    BY <1>4 DEF WriteHalfWord, Goto, flags
  <2>2. pos' \notin {0, 1} => ~locked'
    BY <1>2, <1>3, <1>4, <2>1
  <2>3. WritePhase'
    BY <1>2, <1>3, <2>1, <2>2 DEF WritePhase, Slot, ReadsErased
  <2> QED
    BY <1>2, <2>1, <2>3 DEF CleanInv, IdlePhase, ErasePhase, HeaderPhase, BootPhase
<1>5. CASE ~(pos + 1 < WmLen)
  <2>1. pc' = "idle" /\ address' = address + WmLen /\ num' = num + 1
    BY <1>5 DEF WriteHalfWord, Goto
  <2>2. pos + 1 = WmLen
    BY <1>3, <1>5, SizesAreNat
  <2>3. Slot(num + 1) = address + WmLen /\ Slot(num) \in Nat /\ num + 1 \in Nat
    BY <1>3, NextSlot
  <2>4. Used(flash', Slot(num))
    <3>1. 0 \in 0 .. (pos + 1) - 1 /\ 1 \in 0 .. (pos + 1) - 1
      BY <1>3, <2>2, SizesAreNat
    <3>2. flash'[address + 0] = image[0 + 1] /\ flash'[address + 1] = image[1 + 1]
      BY <1>2, <3>1 DEF Holds
    <3> QED
      BY <1>3, <2>3, <3>2 DEF Used, ReadsErased
  <2>5. UsedBelow(flash', num + 1)
    BY <1>2, <1>3, <2>4 DEF UsedBelow
  <2>6. Slot(num + 1) + 1 < Area
    BY <1>3, RoomBehind
  <2>7. ListAt(flash', num + 1)
    BY <1>2, <1>3, <2>2, <2>3, <2>5, <2>6 DEF ListAt, UsedBelow, ErasedFrom
  <2>8. IdlePhase'
    BY <1>2, <1>3, <2>1, <2>3, <2>7 DEF IdlePhase, ListAt, Slot
  <2> QED
    BY <1>2, <2>1, <2>8 DEF CleanInv, WritePhase, ErasePhase, HeaderPhase, BootPhase
<1> QED
  BY <1>4, <1>5

LEMMA EraseWMClean ==
  ASSUME IInv, EraseWM, \/ mode = "run" /\ pc = "idle"
                        \/ pc = "check" /\ ~GetWMHeader(flash)
  PROVE  CleanInv'
<1> SUFFICES ASSUME clean' PROVE CleanInv'
  BY DEF CleanInv
<1>1. clean /\ pc' = "erase" /\ UNCHANGED <<flash, pgerr, num, mode>>
  BY DEF EraseWM, Goto, flags
<1>2. ~pgerr /\ (mode = "run" => GetWMHeader(flash) /\ ListAt(flash, num))
             /\ (mode = "boot" => ~GetWMHeader(flash))
  BY <1>1 DEF IInv, BInv, Modes, CleanInv, IdlePhase
<1>3. ErasePhase'
  BY <1>1, <1>2 DEF ErasePhase, ListAt, Slot, Used, GetWMHeader
<1> QED
  BY <1>1, <1>2, <1>3 DEF CleanInv, IdlePhase, WritePhase, HeaderPhase, BootPhase

LEMMA ErasePageClean ==
  ASSUME IInv, NEW c \in BOOLEAN, ErasePage(c)
  PROVE  CleanInv'
<1> SUFFICES ASSUME clean' PROVE CleanInv'
  BY DEF CleanInv
<1>1. clean /\ pc = "erase" /\ pgerr' = pgerr
  BY DEF ErasePage, Cut
<1>2. ~pgerr /\ pos \in Nat
  BY <1>1 DEF IInv, BInv, CleanInv, TypeOK
<1>3. pc' = "erase" /\ pos' = pos + PageLen /\ pos' # 0
  BY <1>2, SizesAreNat DEF ErasePage, Goto
<1> QED
  BY <1>1, <1>2, <1>3 DEF CleanInv, IdlePhase, WritePhase, ErasePhase,
     HeaderPhase, BootPhase

LEMMA PagesErasedClean == BInv /\ PagesErased => CleanInv'
<1> SUFFICES ASSUME BInv, PagesErased, clean' PROVE CleanInv'
  BY DEF CleanInv
<1>1. pc = "erase" /\ pos >= Area /\ pc' = "reset" /\ ~cut /\ pgerr' = pgerr
  BY DEF PagesErased, Goto
<1>2. ~pgerr
  BY <1>1, SizesAreNat DEF BInv, EraseDone, TypeOK
<1> QED
  BY <1>1, <1>2 DEF CleanInv, IdlePhase, WritePhase, ErasePhase, HeaderPhase,
     BootPhase

LEMMA ResetNumClean == IInv /\ ResetNum => CleanInv'
<1> SUFFICES ASSUME IInv, ResetNum, clean' PROVE CleanInv'
  BY DEF CleanInv
<1>1. /\ pc = "reset" /\ pc' = "header" /\ pos' = 0 /\ num' = 0 /\ clean
      /\ UNCHANGED <<flash, pgerr, address>>
  BY DEF ResetNum, Goto, history
<1>2. ~pgerr /\ ~cut /\ address = HdrLen /\ ErasedFrom(flash, 0)
  BY <1>1 DEF IInv, BInv, CleanInv, ResetDone
<1>3. HeaderPhase'
  BY <1>1, <1>2 DEF HeaderPhase, ErasedFrom, Holds
<1> QED
  BY <1>1, <1>2, <1>3 DEF CleanInv, IdlePhase, WritePhase, ErasePhase, BootPhase

(* Back from a header or from BootCheck with an intact header. *)
LEMMA LeaveClean ==
  ASSUME BInv, Leave, UNCHANGED <<mode, address, num, found>>,
         pc \in {"check", "header"}, ~pgerr', GetWMHeader(flash'), Sound(flash'),
         pc = "header" => address = HdrLen /\ num = 0 /\ ListAt(flash', 0)
  PROVE  CleanInv'
<1>1. mode \in {"boot", "run"} /\ found = 0 /\ (pc = "check" => mode = "boot")
  BY DEF BInv, Modes, TypeOK
<1>2. /\ mode = "boot" => pc' = "scan" /\ pos' = HdrLen
      /\ mode = "run" => pc' = "idle" /\ pos' = 0
  BY DEF Leave, Goto
<1>3. Sound(flash)' /\ GetWMHeader(flash)'
  BY DEF Sound, ListAt, Slot, Used, GetWMHeader
<1>4. CASE mode = "boot"
  <2>1. UsedBelow(flash', 0)
    BY DEF UsedBelow
  <2>2. BootPhase'
    BY <1>1, <1>2, <1>3, <1>4, <2>1 DEF BootPhase
  <2> QED
    BY <1>2, <1>4, <2>2 DEF CleanInv, IdlePhase, WritePhase, ErasePhase, HeaderPhase
<1>5. CASE mode = "run"
  <2>1. IdlePhase'
    BY <1>1, <1>2, <1>3, <1>5, FirstSlot DEF IdlePhase, ListAt, Slot
  <2> QED
    BY <1>2, <1>5, <2>1 DEF CleanInv, WritePhase, ErasePhase, HeaderPhase, BootPhase
<1> QED
  BY <1>1, <1>4, <1>5

(* The half-word programmed extends the header and leaves the rest erased. *)
LEMMA SetWMHeaderEffect ==
  ASSUME IInv, clean, SetWMHeader(FALSE)
  PROVE  /\ ErasedFrom(flash', pos + 1) /\ Holds(flash', 0, image, pos + 1)
         /\ ~pgerr' /\ (pos + 1 \notin {IdLen, IdLen + 1} => ~locked')
<1>1. pc = "header" /\ Usr_Flash_Write(0, FALSE)
  BY DEF SetWMHeader
<1>2. /\ TypeOK /\ ~pgerr /\ HeaderPhase
      /\ pos \in Nat /\ pos <= IdLen /\ image = HeaderImage
      /\ Len(image) = IdLen + 1 /\ Split = IdLen /\ flash \in [Cell -> HalfWord]
  BY <1>1, HeaderImageType
  DEF IInv, BInv, CleanInv, HeaderAt, HeaderPhase, TypeOK, Split
<1>3. 0 + pos = pos /\ 0 + pos \in Cell /\ image[pos + 1] \in HalfWord
  <2>1. pos + 1 \in 1 .. IdLen + 1
    BY <1>2, SizesAreNat
  <2> QED
    BY <1>2, <2>1, HeaderImageType, SizesAreNat DEF Cell
<1>4. flash[0 + pos] = Blank /\ (pos \notin {0, Split} => ~locked)
  BY <1>1, <1>2, <1>3 DEF HeaderPhase, ErasedFrom
<1>5. /\ flash' = [flash EXCEPT ![0 + pos] = image[pos + 1]]
      /\ ~pgerr' /\ (pos + 1 \notin {Split, Len(image)} => ~locked')
  BY <1>1, <1>2, <1>3, <1>4, ProgramErased
<1>6. \A b \in Cell : b # pos => flash'[b] = flash[b]
  BY <1>2, <1>3, <1>5
<1>7. ErasedFrom(flash', pos + 1)
  <2> SUFFICES ASSUME NEW b \in Cell, b >= pos + 1 PROVE flash'[b] = Blank
    BY DEF ErasedFrom
  <2>1. b # pos /\ b >= pos
    BY <1>2 DEF Cell
  <2> QED
    BY <1>1, <1>2, <1>6, <2>1 DEF HeaderPhase, ErasedFrom
<1>8. Holds(flash', 0, image, pos + 1)
  <2> SUFFICES ASSUME NEW j \in 0 .. (pos + 1) - 1
               PROVE  flash'[0 + j] = image[j + 1]
    BY DEF Holds
  <2>1. CASE j = pos
    BY <1>2, <1>3, <1>5, <2>1
  <2>2. CASE j # pos
    <3>1. j \in 0 .. pos - 1 /\ 0 + j = j /\ j \in Cell
      BY <1>2, <2>2, SizesAreNat DEF Cell
    <3> QED
      BY <1>1, <1>2, <1>6, <2>2, <3>1 DEF HeaderPhase, Holds
  <2> QED
    BY <2>1, <2>2
<1> QED
  BY <1>2, <1>5, <1>7, <1>8

(* With its last half-word the header is whole and the list behind it empty.*)
LEMMA HeaderDone ==
  ASSUME IInv, clean, SetWMHeader(FALSE), ~(pos + 1 < Len(image))
  PROVE  GetWMHeader(flash') /\ ListAt(flash', 0)
<1>1. pos = IdLen /\ image = HeaderImage
  <2>1. pos \in Nat /\ pos <= IdLen /\ image = HeaderImage
    BY DEF IInv, BInv, HeaderAt, TypeOK, SetWMHeader
  <2> QED
    BY <2>1, HeaderImageType, SizesAreNat
<1>2. ErasedFrom(flash', pos + 1) /\ Holds(flash', 0, image, pos + 1)
  BY SetWMHeaderEffect
<1>3. GetWMHeader(flash')
  <2> SUFFICES ASSUME NEW k \in 0 .. IdLen - 1 PROVE flash'[k] = Sig
    BY DEF GetWMHeader
  <2>1. k \in 0 .. (pos + 1) - 1 /\ 0 + k = k /\ k + 1 \in 1 .. IdLen
    BY <1>1, SizesAreNat
  <2>2. flash'[0 + k] = image[k + 1]
    BY <1>2, <2>1 DEF Holds
  <2>3. HeaderImage[k + 1] = Sig
    BY <2>1, SizesAreNat DEF HeaderImage
  <2> QED
    BY <1>1, <2>1, <2>2, <2>3
<1>4. ListAt(flash', 0)
  <2>1. \A a \in Cell : a >= Slot(0) => flash'[a] = Blank
    BY <1>1, <1>2, FirstSlot, SizesAreNat DEF ErasedFrom, Cell
  <2> QED
    BY <2>1, FirstSlot, SizesAreNat DEF ListAt
<1> QED
  BY <1>3, <1>4

LEMMA SetWMHeaderClean ==
  ASSUME IInv, NEW c \in BOOLEAN, SetWMHeader(c)
  PROVE  CleanInv'
<1> SUFFICES ASSUME clean' PROVE CleanInv'
  BY DEF CleanInv
<1>1. /\ clean /\ c = FALSE /\ pc = "header"
      /\ UNCHANGED <<address, num, mode, found>>
  BY DEF SetWMHeader, Cut, flags
<1>2. /\ BInv /\ address = HdrLen /\ num = 0
      /\ pos \in Nat /\ pos <= IdLen /\ Len(image) = IdLen + 1
  BY <1>1, HeaderImageType
  DEF IInv, BInv, CleanInv, HeaderAt, HeaderPhase, TypeOK
<1>3. /\ ErasedFrom(flash', pos + 1) /\ Holds(flash', 0, image, pos + 1)
      /\ ~pgerr' /\ (pos + 1 \notin {IdLen, IdLen + 1} => ~locked')
  BY <1>1, SetWMHeaderEffect
<1>4. CASE pos + 1 < Len(image)
  <2>1. pc' = "header" /\ pos' = pos + 1 /\ image' = image
    BY <1>4 DEF SetWMHeader, Goto
  <2>2. pos' \notin {0, IdLen} => ~locked'
    BY <1>2, <1>3, <1>4, <2>1
  <2>3. HeaderPhase'
    BY <1>1, <1>2, <1>3, <2>1, <2>2 DEF HeaderPhase
  <2> QED
    BY <1>3, <2>1, <2>3 DEF CleanInv, IdlePhase, WritePhase, ErasePhase, BootPhase
<1>5. CASE ~(pos + 1 < Len(image))
  <2>1. GetWMHeader(flash') /\ ListAt(flash', 0)
    BY <1>1, <1>5, HeaderDone
  <2>2. Sound(flash') /\ Leave
    BY <1>5, <2>1, ListIsSound DEF SetWMHeader
  <2> QED
    BY <1>1, <1>2, <1>3, <2>1, <2>2, LeaveClean
<1> QED
  BY <1>4, <1>5

LEMMA BootCheckClean ==
  ASSUME RoomLeft, IInv, BootCheck
  PROVE  CleanInv'
<1> SUFFICES ASSUME clean' PROVE CleanInv'
  BY DEF CleanInv
<1>1. CASE GetWMHeader(flash)
  <2>1. /\ Leave /\ pc = "check" /\ clean
        /\ UNCHANGED <<flash, pgerr, address, num, mode, found>>
    BY <1>1 DEF BootCheck, flags, history
  <2>2. Sound(flash) /\ ~pgerr /\ BInv
    BY <2>1, AlwaysSound DEF IInv, CleanInv
  <2> QED
    BY <1>1, <2>1, <2>2, LeaveClean
<1>2. CASE ~GetWMHeader(flash)
  BY <1>2, EraseWMClean DEF BootCheck
<1> QED
  BY <1>1, <1>2

(* Where the scan stops on an erased u32, the list ends. *)
LEMMA ScanFindsEnd ==
  ASSUME NEW n \in Nat, Sound(flash), GetWMHeader(flash), UsedBelow(flash, n),
         Slot(n) + 1 < Area, ~Used(flash, Slot(n))
  PROVE  ListAt(flash, n)
<1>1. PICK m \in 0 .. Area : ListAt(flash, m)
  BY DEF Sound
<1>2. m \in Nat /\ Slot(m) \in Nat
  BY <1>1, NextSlot, SizesAreNat
<1>3. ~(n < m)
  BY <1>1, <1>2 DEF ListAt
<1>4. ~(m < n)
  <2> SUFFICES ASSUME m < n PROVE FALSE
    OBVIOUS
  <2>1. Used(flash, Slot(m))
    BY <1>2 DEF UsedBelow
  <2>2. /\ Slot(m) \in Cell /\ Slot(m) + 1 \in Cell
        /\ Slot(m) >= Slot(m) /\ Slot(m) + 1 >= Slot(m)
    BY <1>1, <1>2, SizesAreNat DEF ListAt, Cell
  <2>3. flash[Slot(m)] = Blank /\ flash[Slot(m) + 1] = Blank
    BY <1>1, <2>2 DEF ListAt
  <2> QED
    BY <2>1, <2>3 DEF Used
<1>5. m = n
  BY <1>2, <1>3, <1>4
<1> QED
  BY <1>1, <1>5

LEMMA BootScanClean ==
  ASSUME RoomLeft, IInv, BootScan
  PROVE  CleanInv'
<1> SUFFICES ASSUME clean' PROVE CleanInv'
  BY DEF CleanInv
<1>1. /\ clean /\ pc = "scan" /\ BInv /\ TypeOK /\ ~pgerr
      /\ pos = Slot(found) /\ found \in Nat
      /\ GetWMHeader(flash) /\ Sound(flash) /\ UsedBelow(flash, found)
      /\ UNCHANGED <<flash, pgerr>>
  BY DEF BootScan, history, IInv, BInv, CleanInv, BootPhase, ScanAt, TypeOK
<1>2. Sound(flash)'
  BY <1>1 DEF Sound, ListAt, Slot, Used, GetWMHeader
<1>3. CASE pos + 1 >= Area
  <2>1. mode' = "fault" /\ pc' = "idle"
    BY <1>3 DEF BootScan
  <2> QED
    BY <1>1, <1>2, <2>1 DEF CleanInv, IdlePhase, WritePhase, ErasePhase,
       HeaderPhase, BootPhase
<1>4. CASE pos + 1 < Area /\ Used(flash, pos)
  <2>1. pc' = "scan" /\ found' = found + 1
    BY <1>1, <1>4, SizesAreNat DEF BootScan, Goto, TypeOK
  <2>2. UsedBelow(flash', found')
    BY <1>1, <1>4, <2>1 DEF UsedBelow
  <2> QED
    BY <1>1, <1>2, <2>1, <2>2 DEF CleanInv, IdlePhase, WritePhase, ErasePhase,
       HeaderPhase, BootPhase
<1>5. CASE pos + 1 < Area /\ ~Used(flash, pos)
  <2>1. pc' = "publish" /\ address' = pos /\ found' = found
    BY <1>1, <1>5, SizesAreNat DEF BootScan, Goto, TypeOK
  <2>2. ListAt(flash, found)
    BY <1>1, <1>5, ScanFindsEnd
  <2>3. BootPhase'
    BY <1>1, <2>1, <2>2 DEF BootPhase, ListAt, Slot
  <2> QED
    BY <1>1, <2>1, <2>3 DEF CleanInv, IdlePhase, WritePhase, ErasePhase, HeaderPhase
<1> QED
  BY <1>1, <1>3, <1>4, <1>5, SizesAreNat DEF TypeOK

LEMMA BootPublishClean == IInv /\ BootPublish => CleanInv'
<1> SUFFICES ASSUME IInv, BootPublish, clean' PROVE CleanInv'
  BY DEF CleanInv
<1>1. /\ clean /\ pc = "publish" /\ pc' = "idle" /\ mode' = "run" /\ num' = found
      /\ UNCHANGED <<flash, pgerr, address>>
  BY DEF BootPublish, Goto, history
<1>2. ~pgerr /\ GetWMHeader(flash) /\ ListAt(flash, found) /\ address = Slot(found)
  BY <1>1 DEF IInv, CleanInv, BootPhase
<1>3. IdlePhase'
  BY <1>1, <1>2 DEF IdlePhase, ListAt, Slot
<1> QED
  BY <1>1, <1>2, <1>3 DEF CleanInv, WritePhase, ErasePhase, HeaderPhase, BootPhase

LEMMA NextIInv ==
  ASSUME RoomLeft
  PROVE  IInv /\ [Next]_vars => IInv'
<1> SUFFICES ASSUME IInv, [Next]_vars PROVE CleanInv'
  BY NextBInv DEF IInv
<1>1. ASSUME NEW wm \in Watermarks, WriteWM(wm) PROVE CleanInv'
  BY <1>1, WriteWMClean
<1>2. ASSUME NEW c \in BOOLEAN, WriteHalfWord(c) \/ ErasePage(c) \/ SetWMHeader(c)
      PROVE  CleanInv'
  BY <1>2, WriteHalfWordClean, ErasePageClean, SetWMHeaderClean
<1>3. CASE TcpErase
  BY <1>3, EraseWMClean DEF TcpErase
<1>4. CASE PagesErased \/ ResetNum
  BY <1>4, PagesErasedClean, ResetNumClean DEF IInv
<1>5. CASE Boot
  BY <1>5, BootCheckClean, BootScanClean, BootPublishClean DEF Boot
<1>6. CASE PowerCycle
  BY <1>6, PowerCycleClean
<1>7. CASE UNCHANGED vars
  BY <1>7 DEF vars, writer, flags, history, IInv, CleanInv, IdlePhase, WritePhase,
     ErasePhase, HeaderPhase, BootPhase, Sound, ListAt, Slot, Used, GetWMHeader
<1> QED
  BY <1>1, <1>2, <1>3, <1>4, <1>5, <1>6, <1>7 DEF Next

LEMMA InductiveInvariant ==
  ASSUME RoomLeft
  PROVE  Spec => []IInv
<1>1. IInv /\ [Next]_vars => IInv'
  BY NextIInv
<1> QED
  BY <1>1, InitIInv, PTL DEF Spec

-----------------------------------------------------------------------------
(* The theorems: whatever is offered, cut or damaged. *)

(* The variables keep their types: no half-word outside 0..W-1 and no label *)
(* outside the program, whatever the sizes.                                 *)
THEOREM TypeCorrect == Spec => []TypeOK
<1>1. BInv => TypeOK
  BY DEF BInv
<1> QED
  BY <1>1, BInductive, PTL

(* An erase that no interrupt cut finds no error flagged and leaves every   *)
(* half-word of the area erased, whatever damaged it before (107-113).      *)
THEOREM UncutEraseHeals == Spec => []EraseHeals
<1>1. BInv => EraseHeals
  BY DEF BInv, ResetDone, ErasedFrom, EraseHeals, TypeOK, Cell
<1> QED
  BY <1>1, BInductive, PTL

(* The boot scan (248) ends inside the area, clean or not: the half-words   *)
(* left at its end are never programmed.                                    *)
THEOREM ScanStaysInArea ==
  ASSUME RoomLeft
  PROVE  Spec => []ScanEnds
<1>1. Init => ScanEnds
  BY DEF Init, ScanEnds
<1>2. BInv /\ ScanEnds /\ [Next]_vars => ScanEnds'
  <2> SUFFICES ASSUME BInv, ScanEnds, [Next]_vars, mode' = "fault" PROVE FALSE
    BY DEF ScanEnds
  <2>1. BootScan /\ pos + 1 >= Area
    BY DEF vars, ScanEnds, Next, WriteWM, WriteHalfWord, ErasePage, SetWMHeader,
       TcpErase, EraseWM, PagesErased, ResetNum, Boot, BootCheck, BootScan,
       BootPublish, PowerCycle
  <2>2. pos = Slot(found) /\ found <= Capacity /\ found \in Nat
    BY <2>1 DEF BInv, ScanAt, TypeOK, BootScan
  <2>3. Capacity \in Nat /\ Slot(Capacity) + 1 < Area
    BY RoomEnds DEF RoomLeft
  <2>4. Slot(found) \in Nat /\ Slot(Capacity) \in Nat
    BY <2>2, <2>3, NextSlot
  <2>5. Slot(found) <= Slot(Capacity)
    BY <2>2, <2>3, <2>4, SlotsApart, SizesAreNat
  <2> QED
    BY <2>1, <2>2, <2>3, <2>4, <2>5, SizesAreNat
<1> QED
  BY <1>1, <1>2, BInductive, PTL DEF Spec

-----------------------------------------------------------------------------
(* The theorems: while the area is clean. *)

(* Between operations of a clean area the header is whole, and              *)
(* WM_Data_Address is the first erased half-word behind WM_Data_Num         *)
(* watermarks (252, 253), after any sequence of power failures, erases and  *)
(* writes.                                                                  *)
THEOREM AreaShapeHolds ==
  ASSUME RoomLeft
  PROVE  Spec => []AreaShape
<1>1. IInv => AreaShape
  BY DEF IInv, CleanInv, IdlePhase, AreaShape
<1> QED
  BY <1>1, InductiveInvariant, PTL

(* At every instant a power failure on a clean area leaves a list that      *)
(* Usr_Flash_Init finds, or no header.                                      *)
THEOREM AlwaysRecoverable ==
  ASSUME RoomLeft
  PROVE  Spec => []Recoverable
<1>1. IInv => Recoverable
  BY AlwaysSound DEF Sound, Recoverable
<1> QED
  BY <1>1, InductiveInvariant, PTL

(* Commands on a clean area never flag an error: the cells they program are *)
(* erased ones (25).                                                        *)
THEOREM NoErrorFlagged ==
  ASSUME RoomLeft
  PROVE  Spec => []NoErrorWhileClean
<1>1. IInv => NoErrorWhileClean
  BY DEF IInv, CleanInv, NoErrorWhileClean
<1> QED
  BY <1>1, InductiveInvariant, PTL

-----------------------------------------------------------------------------
(* What a reader finds, as a function of the state it depends on.           *)

MarkAt(f, a)  == [k \in 1 .. WmLen |-> f[a + k - 1]]
MarksOf(f, n) == [i \in 1 .. n |-> MarkAt(f, Slot(i - 1))]
Gone(p, q)    == (p = "erase" /\ q > 0) \/ p \in {"reset", "header"}

StoredOf(f, m, p, q, n) ==
  CASE m = "run" /\ ~Gone(p, q) -> MarksOf(f, n)
    [] m = "boot" /\ GetWMHeader(f) /\ ~Gone(p, q) ->
         MarksOf(f, CHOOSE j \in 0 .. Area : ListAt(f, j))
    [] OTHER -> <<>>

LEMMA StoredIs ==
  /\ Stored = StoredOf(flash, mode, pc, pos, num)
  /\ Stored' = StoredOf(flash', mode', pc', pos', num')
<1>1. Stored = StoredOf(flash, mode, pc, pos, num)
  BY DEF Stored, StoredOf, HeaderGone, Gone, Marks, MarksOf, MarkAt
<1>2. Stored' = StoredOf(flash', mode', pc', pos', num')
  BY DEF Stored, StoredOf, HeaderGone, Gone, Marks, MarksOf, MarkAt,
     GetWMHeader, ListAt, Slot, Used
<1> QED
  BY <1>1, <1>2

LEMMA ListUnique ==
  ASSUME NEW f, NEW m \in Nat, NEW n \in Nat, ListAt(f, m), ListAt(f, n)
  PROVE  m = n
<1>1. ASSUME NEW i \in Nat, NEW j \in Nat, ListAt(f, i), ListAt(f, j), i < j
      PROVE  FALSE
  <2>1. Used(f, Slot(i))
    BY <1>1 DEF ListAt
  <2>2. /\ Slot(i) \in Cell /\ Slot(i) + 1 \in Cell
        /\ Slot(i) >= Slot(i) /\ Slot(i) + 1 >= Slot(i)
    BY <1>1, NextSlot, SizesAreNat DEF ListAt, Cell
  <2>3. f[Slot(i)] = Blank /\ f[Slot(i) + 1] = Blank
    BY <1>1, <2>2 DEF ListAt
  <2> QED
    BY <2>1, <2>3 DEF Used
<1> QED
  BY <1>1

LEMMA StoredWhileRunning ==
  ASSUME NEW f, NEW p, NEW q, NEW n, ~Gone(p, q)
  PROVE  StoredOf(f, "run", p, q, n) = MarksOf(f, n)
BY DEF StoredOf

LEMMA StoredWhileBooting ==
  ASSUME NEW f, NEW p, NEW q, NEW any, NEW n \in Nat,
         ~Gone(p, q), GetWMHeader(f), ListAt(f, n)
  PROVE  StoredOf(f, "boot", p, q, any) = MarksOf(f, n)
<1>1. \E j \in 0 .. Area : ListAt(f, j)
  BY ListIsSound DEF Sound
<1> DEFINE c == CHOOSE j \in 0 .. Area : ListAt(f, j)
<1>2. c \in 0 .. Area /\ ListAt(f, c)
  BY <1>1
<1>3. c = n
  BY <1>2, ListUnique, SizesAreNat
<1> QED
  BY <1>3 DEF StoredOf

LEMMA StoredNothing ==
  ASSUME NEW f, NEW m, NEW p, NEW q, NEW n,
         Gone(p, q) \/ (m = "boot" /\ ~GetWMHeader(f))
  PROVE  StoredOf(f, m, p, q, n) = <<>>
BY DEF StoredOf

LEMMA MarksType ==
  ASSUME NEW f \in [Cell -> HalfWord], NEW n \in Nat, Slot(n) <= Area
  PROVE  /\ MarksOf(f, n) \in Seq(Mark) /\ Len(MarksOf(f, n)) = n
         /\ \A i \in 1 .. n : MarksOf(f, n)[i] = MarkAt(f, Slot(i - 1))
<1>1. ASSUME NEW i \in 1 .. n PROVE MarkAt(f, Slot(i - 1)) \in Mark
  <2>1. i - 1 \in Nat /\ i - 1 < n
    OBVIOUS
  <2>2. Slot(i - 1) \in Nat /\ Slot(i - 1) + WmLen <= Slot(n) /\ Slot(n) \in Nat
    BY <2>1, NextSlot, SlotsApart
  <2>3. \A k \in 1 .. WmLen : Slot(i - 1) + k - 1 \in Cell
    BY <2>2, SizesAreNat DEF Cell
  <2> QED
    BY <2>3 DEF MarkAt, Mark
<1>2. MarksOf(f, n) \in [1 .. n -> Mark]
  BY <1>1 DEF MarksOf
<1>3. MarksOf(f, n) \in Seq(Mark)
  BY <1>2, SeqDef
<1>4. Len(MarksOf(f, n)) = n
  BY <1>2, <1>3, LenProperties
<1> QED
  BY <1>3, <1>4 DEF MarksOf

LEMMA NoMarks ==
  ASSUME NEW f \in [Cell -> HalfWord]
  PROVE  MarksOf(f, 0) = <<>>
<1>1. Slot(0) <= Area
  BY FirstSlot, SizesAreNat
<1>2. MarksOf(f, 0) \in Seq(Mark) /\ Len(MarksOf(f, 0)) = 0
  BY <1>1, MarksType
<1> QED
  BY <1>2, EmptySeq

(* Readers of n watermarks see only the cells below Slot(n). *)
LEMMA MarksSame ==
  ASSUME NEW f \in [Cell -> HalfWord], NEW g \in [Cell -> HalfWord],
         NEW n \in Nat, Slot(n) <= Area,
         \A b \in Cell : b >= HdrLen /\ b < Slot(n) => g[b] = f[b]
  PROVE  MarksOf(g, n) = MarksOf(f, n)
<1>1. ASSUME NEW i \in 1 .. n PROVE MarkAt(g, Slot(i - 1)) = MarkAt(f, Slot(i - 1))
  <2>1. i - 1 \in Nat /\ i - 1 < n
    OBVIOUS
  <2>2. /\ Slot(i - 1) \in Nat /\ Slot(i - 1) >= HdrLen
        /\ Slot(i - 1) + WmLen <= Slot(n) /\ Slot(n) \in Nat
    BY <2>1, NextSlot, SlotsApart
  <2>3. \A k \in 1 .. WmLen : /\ Slot(i - 1) + k - 1 \in Cell
                              /\ Slot(i - 1) + k - 1 >= HdrLen
                              /\ Slot(i - 1) + k - 1 < Slot(n)
    BY <2>2, SizesAreNat DEF Cell
  <2> QED
    BY <2>3 DEF MarkAt
<1> QED
  BY <1>1 DEF MarksOf

LEMMA MarksGrow ==
  ASSUME NEW f \in [Cell -> HalfWord], NEW n \in Nat, Slot(n) + WmLen <= Area
  PROVE  /\ MarkAt(f, Slot(n)) \in Mark
         /\ MarksOf(f, n + 1) = Append(MarksOf(f, n), MarkAt(f, Slot(n)))
<1> DEFINE s == MarksOf(f, n)
           t == MarksOf(f, n + 1)
           e == MarkAt(f, Slot(n))
<1>1. Slot(n + 1) = Slot(n) + WmLen /\ Slot(n) \in Nat /\ n + 1 \in Nat
  BY NextSlot
<1>2. s \in Seq(Mark) /\ Len(s) = n /\ \A i \in 1 .. n : s[i] = MarkAt(f, Slot(i - 1))
  BY <1>1, MarksType, SizesAreNat
<1>3. t \in Seq(Mark) /\ Len(t) = n + 1
      /\ \A i \in 1 .. n + 1 : t[i] = MarkAt(f, Slot(i - 1))
  BY <1>1, MarksType
<1>4. e = t[n + 1] /\ n + 1 \in 1 .. n + 1
  <2>1. (n + 1) - 1 = n /\ n + 1 \in 1 .. n + 1
    OBVIOUS
  <2>2. t[n + 1] = MarkAt(f, Slot((n + 1) - 1))
    BY <1>3, <2>1
  <2> QED
    BY <2>1, <2>2
<1>5. e \in Mark
  BY <1>3, <1>4, ElementOfSeq
<1> HIDE DEF s, t, e
<1>6. /\ Append(s, e) \in Seq(Mark) /\ Len(Append(s, e)) = n + 1
      /\ \A i \in 1 .. n : Append(s, e)[i] = s[i]
      /\ Append(s, e)[n + 1] = e
  BY <1>2, <1>5, AppendProperties
<1>7. \A i \in 1 .. n + 1 : t[i] = Append(s, e)[i]
  <2> SUFFICES ASSUME NEW i \in 1 .. n + 1 PROVE t[i] = Append(s, e)[i]
    OBVIOUS
  <2>1. CASE i = n + 1
    BY <1>4, <1>6, <2>1
  <2>2. CASE i # n + 1
    <3>1. i \in 1 .. n
      BY <2>2
    <3> QED
      BY <1>2, <1>3, <1>6, <3>1
  <2> QED
    BY <2>1, <2>2
<1>8. t = Append(s, e)
  BY <1>3, <1>6, <1>7, SeqEqual
<1> QED
  BY <1>5, <1>8 DEF s, t, e

-----------------------------------------------------------------------------
(* Each step of a clean store is a step of the list.                        *)

LEMMA WriteHalfWordFollows ==
  ASSUME RoomLeft, IInv, clean, WriteHalfWord(FALSE)
  PROVE  mode = "run" /\ mode' = "run" /\ (Stored' = Stored \/ List!Add(image))
<1>1. /\ pc = "write" /\ mode = "run" /\ mode' = "run"
      /\ Usr_Flash_Write(address, FALSE)
  BY DEF WriteHalfWord, IInv, BInv, Modes
<1>2. /\ TypeOK /\ num \in Nat /\ pos \in Nat /\ pos < WmLen /\ image \in Mark
      /\ address = Slot(num) /\ Slot(num) \in Nat /\ Slot(num) + WmLen < Area
      /\ flash \in [Cell -> HalfWord]
  BY <1>1 DEF IInv, BInv, TypeOK, WriteRoom, Fits, CleanInv, WritePhase
<1>3. address \in Nat /\ address + pos \in Cell /\ image[pos + 1] \in HalfWord
  BY <1>2, SizesAreNat DEF Cell, Mark
<1>4. /\ flash' \in [Cell -> HalfWord]
      /\ \A b \in Cell : b # address + pos => flash'[b] = flash[b]
  BY <1>1, <1>2, <1>3, ProgramStep
<1>5. MarksOf(flash', num) = MarksOf(flash, num)
  <2>1. \A b \in Cell : b >= HdrLen /\ b < Slot(num) => flash'[b] = flash[b]
    BY <1>2, <1>4 DEF Cell
  <2>2. Slot(num) <= Area
    BY <1>2, SizesAreNat
  <2> QED
    BY <1>2, <1>4, <2>1, <2>2, MarksSame
<1>6. Stored = MarksOf(flash, num)
  BY <1>1, StoredIs, StoredWhileRunning DEF Gone
<1>7. CASE pos + 1 < WmLen
  <2>1. pc' = "write" /\ num' = num
    BY <1>7 DEF WriteHalfWord, Goto, flags
  <2>2. Stored' = MarksOf(flash', num)
    BY <1>1, <2>1, StoredIs, StoredWhileRunning DEF Gone
  <2> QED
    BY <1>1, <1>5, <1>6, <2>2
<1>8. CASE ~(pos + 1 < WmLen)
  <2>1. pc' = "idle" /\ num' = num + 1 /\ pos + 1 = WmLen
    BY <1>2, <1>8, SizesAreNat DEF WriteHalfWord, Goto
  <2>2. Stored' = MarksOf(flash', num + 1)
    BY <1>1, <2>1, StoredIs, StoredWhileRunning DEF Gone
  <2>3. MarksOf(flash', num + 1)
          = Append(MarksOf(flash', num), MarkAt(flash', Slot(num)))
    BY <1>2, <1>4, MarksGrow, SizesAreNat
  <2>4. MarkAt(flash', Slot(num)) = image
    <3>1. Holds(flash', address, image, WmLen)
      BY <2>1, WriteHalfWordEffect
    <3>2. ASSUME NEW k \in 1 .. WmLen PROVE flash'[address + k - 1] = image[k]
      <4>1. k - 1 \in 0 .. WmLen - 1 /\ (k - 1) + 1 = k
            /\ address + (k - 1) = address + k - 1
        BY <1>3, SizesAreNat
      <4>2. flash'[address + (k - 1)] = image[(k - 1) + 1]
        BY <3>1, <4>1 DEF Holds
      <4> QED
        BY <4>1, <4>2
    <3> QED
      BY <1>2, <3>2 DEF MarkAt, Mark
  <2>5. Len(MarksOf(flash, num)) = num
    BY <1>2, MarksType, SizesAreNat
  <2>6. num < Capacity
    BY <1>2, RoomEnds
  <2> QED
    BY <1>1, <1>5, <1>6, <2>2, <2>3, <2>4, <2>5, <2>6 DEF List!Add
<1> QED
  BY <1>7, <1>8

LEMMA EraseWMFollows ==
  ASSUME EraseWM, \/ mode = "run" /\ pc = "idle"
                  \/ mode = "boot" /\ pc = "check"
  PROVE  mode' = mode /\ Stored' = Stored
<1>1. /\ pc' = "erase" /\ pos' = 0 /\ UNCHANGED <<flash, num, mode>>
      /\ ~Gone(pc, pos) /\ ~Gone(pc', pos')
  BY DEF EraseWM, Goto, flags, Gone
<1> QED
  BY <1>1, StoredIs DEF StoredOf

(* The list goes with the first page. *)
LEMMA ErasePageFollows ==
  ASSUME IInv, clean, ErasePage(FALSE)
  PROVE  mode' = mode /\ Stored' = <<>> /\ (mode = "run" \/ Stored = <<>>)
<1>1. /\ pc = "erase" /\ ~pgerr /\ pos \in Nat /\ mode \in {"boot", "run"}
      /\ mode' = mode
  BY DEF ErasePage, IInv, BInv, CleanInv, TypeOK, Modes
<1>2. pc' = "erase" /\ pos' > 0
  BY <1>1, SizesAreNat DEF ErasePage, Goto
<1>3. Stored' = <<>>
  BY <1>2, StoredIs, StoredNothing DEF Gone
<1>4. CASE mode = "boot"
  <2>1. Gone(pc, pos) \/ ~GetWMHeader(flash)
    BY <1>1, <1>4 DEF IInv, CleanInv, ErasePhase, Gone
  <2> QED
    BY <1>1, <1>3, <1>4, <2>1, StoredIs, StoredNothing
<1> QED
  BY <1>1, <1>3, <1>4

LEMMA SetWMHeaderFollows ==
  ASSUME IInv, clean, SetWMHeader(FALSE)
  PROVE  mode' = mode /\ Stored' = Stored
<1>1. pc = "header" /\ mode \in {"boot", "run"} /\ mode' = mode /\ num' = num
  BY DEF SetWMHeader, flags, IInv, BInv, Modes, TypeOK
<1>2. Stored = <<>>
  BY <1>1, StoredIs, StoredNothing DEF Gone
<1>3. CASE pos + 1 < Len(image)
  <2>1. pc' = "header"
    BY <1>3 DEF SetWMHeader, Goto
  <2> QED
    BY <1>1, <1>2, <2>1, StoredIs, StoredNothing DEF Gone
<1>4. CASE ~(pos + 1 < Len(image))
  <2>1. GetWMHeader(flash') /\ ListAt(flash', 0) /\ num = 0
    BY <1>1, <1>4, HeaderDone DEF IInv, CleanInv, HeaderPhase
  <2>2. pc' \in {"scan", "idle"}
    BY <1>4 DEF SetWMHeader, Leave, Goto
  <2>3. flash' \in [Cell -> HalfWord]
    BY SetWMHeaderBInv DEF IInv, BInv, TypeOK
  <2>4. MarksOf(flash', 0) = <<>>
    BY <2>3, NoMarks
  <2>5. ~Gone(pc', pos')
    BY <2>2 DEF Gone
  <2>6. CASE mode = "run"
    BY <1>1, <1>2, <2>1, <2>4, <2>5, <2>6, StoredIs, StoredWhileRunning
  <2>7. CASE mode = "boot"
    BY <1>1, <1>2, <2>1, <2>4, <2>5, <2>7, StoredIs, StoredWhileBooting
  <2> QED
    BY <1>1, <2>6, <2>7
<1> QED
  BY <1>3, <1>4

LEMMA BootFollows ==
  ASSUME RoomLeft, IInv, ScanEnds', clean, Boot
  PROVE  mode = "boot" /\ Stored' = Stored
<1>1. mode = "boot" /\ pc \in {"check", "scan", "publish"} /\ ~Gone(pc, pos)
  BY DEF Boot, BootCheck, BootScan, BootPublish, IInv, BInv, Modes, Gone
<1>2. CASE BootCheck
  <2>1. CASE GetWMHeader(flash)
    <3>1. pc' = "scan" /\ mode' = "boot" /\ flash' = flash
      BY <1>1, <1>2, <2>1 DEF BootCheck, Leave, Goto
    <3> QED
      BY <1>1, <3>1, StoredIs DEF StoredOf, Gone
  <2>2. CASE ~GetWMHeader(flash)
    BY <1>1, <1>2, <2>2, EraseWMFollows DEF BootCheck
  <2> QED
    BY <2>1, <2>2
<1>3. CASE BootScan
  <2>1. mode' = "boot" /\ pc' \in {"scan", "publish"} /\ flash' = flash
    BY <1>1, <1>3 DEF BootScan, Goto, ScanEnds
  <2> QED
    BY <1>1, <2>1, StoredIs DEF StoredOf, Gone
<1>4. CASE BootPublish
  <2>1. /\ pc = "publish" /\ pc' = "idle" /\ mode' = "run" /\ num' = found
        /\ flash' = flash
    BY <1>4 DEF BootPublish, Goto
  <2>2. GetWMHeader(flash) /\ ListAt(flash, found) /\ found \in Nat
    BY <2>1 DEF IInv, BInv, TypeOK, CleanInv, BootPhase
  <2>3. Stored = MarksOf(flash, found)
    BY <1>1, <2>2, StoredIs, StoredWhileBooting
  <2>4. Stored' = MarksOf(flash, found)
    BY <2>1, StoredIs, StoredWhileRunning DEF Gone
  <2> QED
    BY <1>1, <2>3, <2>4
<1> QED
  BY <1>2, <1>3, <1>4 DEF Boot

(* A restart keeps the list, and may complete it by the watermark it tore. *)
LEMMA PowerCycleFollows ==
  ASSUME RoomLeft, IInv, ScanEnds, clean, PowerCycle
  PROVE  mode' = "boot" /\ [List!Restart]_Stored
<1>1. mode' = "boot" /\ pc' = "check" /\ flash' = flash /\ ~Gone(pc', pos')
  BY DEF PowerCycle, Gone
<1>2. ASSUME ~GetWMHeader(flash) PROVE Stored' = <<>>
  BY <1>1, <1>2, StoredIs, StoredNothing
<1>3. ASSUME NEW n \in Nat, GetWMHeader(flash), ListAt(flash, n)
      PROVE  Stored' = MarksOf(flash, n)
  BY <1>1, <1>3, StoredIs, StoredWhileBooting
<1>4. /\ BInv /\ TypeOK /\ Modes /\ CleanInv /\ mode \in {"boot", "run"}
      /\ num \in Nat /\ pos \in Nat /\ flash \in [Cell -> HalfWord]
  BY DEF IInv, BInv, TypeOK, ScanEnds
<1>5. CASE pc = "idle"
  <2>1. mode = "run" /\ GetWMHeader(flash) /\ ListAt(flash, num)
    BY <1>4, <1>5 DEF Modes, CleanInv, IdlePhase
  <2>2. Stored = MarksOf(flash, num)
    BY <1>5, <2>1, StoredIs, StoredWhileRunning DEF Gone
  <2> QED
    BY <1>1, <1>3, <1>4, <2>1, <2>2
<1>6. CASE pc = "write"
  <2>1. mode = "run" /\ GetWMHeader(flash) /\ Slot(num) + WmLen < Area
    BY <1>4, <1>6 DEF Modes, CleanInv, WritePhase, BInv, WriteRoom, Fits
  <2>2. Stored = MarksOf(flash, num)
    BY <1>6, <2>1, StoredIs, StoredWhileRunning DEF Gone
  <2>3. ListAt(flash, num) \/ ListAt(flash, num + 1)
    BY <1>4, <1>6, WriteTears DEF CleanInv
  <2>4. CASE ListAt(flash, num)
    BY <1>1, <1>3, <1>4, <2>1, <2>2, <2>4
  <2>5. CASE ListAt(flash, num + 1)
    <3>1. Stored' = MarksOf(flash, num + 1)
      BY <1>3, <1>4, <2>1, <2>5
    <3>2. Slot(num) \in Nat
      BY <1>4, NextSlot
    <3>3. /\ MarkAt(flash, Slot(num)) \in Mark
          /\ Stored' = Append(Stored, MarkAt(flash, Slot(num)))
      BY <1>4, <2>1, <2>2, <3>1, <3>2, MarksGrow, SizesAreNat
    <3>4. Len(Stored) = num /\ num < Capacity
      BY <1>4, <2>1, <2>2, <3>2, MarksType, RoomEnds, SizesAreNat
    <3> QED
      BY <1>1, <3>3, <3>4 DEF List!Restart, List!Add
  <2> QED
    BY <2>3, <2>4, <2>5
<1>7. CASE pc = "erase" /\ pos = 0 /\ mode = "run"
  <2>1. GetWMHeader(flash) /\ ListAt(flash, num)
    BY <1>4, <1>7 DEF CleanInv, ErasePhase
  <2>2. Stored = MarksOf(flash, num)
    BY <1>7, StoredIs, StoredWhileRunning DEF Gone
  <2> QED
    BY <1>1, <1>3, <1>4, <2>1, <2>2
<1>8. CASE pc = "erase" /\ pos = 0 /\ mode = "boot"
  <2>1. ~GetWMHeader(flash)
    BY <1>4, <1>8 DEF CleanInv, ErasePhase
  <2> QED
    BY <1>1, <1>2, <1>8, <2>1, StoredIs, StoredNothing
<1>9. CASE (pc = "erase" /\ pos > 0) \/ pc = "reset"
  <2>1. flash[0] = Blank
    BY <1>4, <1>9, SizesAreNat
    DEF IInv, BInv, EraseDone, ResetDone, ErasedFrom, TypeOK
  <2>2. ~GetWMHeader(flash)
    BY <2>1, SizesAreNat DEF GetWMHeader
  <2> QED
    BY <1>1, <1>2, <1>9, <2>2, StoredIs, StoredNothing DEF Gone
<1>10. CASE pc = "header"
  <2>1. Stored = <<>>
    BY <1>10, StoredIs, StoredNothing DEF Gone
  <2>2. ~GetWMHeader(flash) \/ ListAt(flash, 0)
    BY <1>4, <1>10, HeaderTears DEF CleanInv
  <2>3. MarksOf(flash, 0) = <<>>
    BY <1>4, NoMarks
  <2> QED
    BY <1>1, <1>2, <1>3, <2>1, <2>2, <2>3
<1>11. CASE pc \in {"check", "scan", "publish"}
  <2>1. mode = "boot" /\ ~Gone(pc, pos)
    BY <1>4, <1>11 DEF Modes, Gone
  <2>2. Stored' = Stored
    BY <1>1, <2>1, StoredIs DEF StoredOf
  <2> QED
    BY <1>1, <2>2
<1> QED
  BY <1>4, <1>5, <1>6, <1>7, <1>8, <1>9, <1>10, <1>11 DEF TypeOK

LEMMA StepFollows ==
  ASSUME RoomLeft, IInv, ScanEnds, ScanEnds', Next, clean, clean'
  PROVE  IF mode = "run" /\ mode' = "run"
         THEN [List!Add(image) \/ List!Erase]_Stored
         ELSE [List!Restart]_Stored
<1> DEFINE Follows == IF mode = "run" /\ mode' = "run"
                      THEN [List!Add(image) \/ List!Erase]_Stored
                      ELSE [List!Restart]_Stored
<1>1. ASSUME NEW wm \in Watermarks, WriteWM(wm)
      PROVE  Follows
  <2>1. /\ mode = "run" /\ mode' = "run" /\ pc' = "write" /\ pc = "idle"
        /\ num' = num /\ flash' = flash
    BY <1>1 DEF WriteWM, Goto, flags
  <2> QED
    BY <2>1, StoredIs DEF StoredOf, Gone
<1>2. ASSUME NEW c \in BOOLEAN, WriteHalfWord(c)
      PROVE  Follows
  <2>1. c = FALSE
    BY <1>2 DEF WriteHalfWord, Cut
  <2> QED
    BY <1>2, <2>1, WriteHalfWordFollows
<1>3. ASSUME NEW c \in BOOLEAN, ErasePage(c)
      PROVE  Follows
  <2>1. c = FALSE
    BY <1>3 DEF ErasePage, Cut
  <2>2. mode' = mode /\ Stored' = <<>> /\ (mode = "run" \/ Stored = <<>>)
    BY <1>3, <2>1, ErasePageFollows
  <2> QED
    BY <2>2 DEF List!Erase
<1>4. ASSUME NEW c \in BOOLEAN, SetWMHeader(c)
      PROVE  Follows
  <2>1. c = FALSE
    BY <1>4 DEF SetWMHeader, Cut
  <2> QED
    BY <1>4, <2>1, SetWMHeaderFollows
<1>5. CASE TcpErase
  <2>1. Stored' = Stored
    BY <1>5, EraseWMFollows DEF TcpErase
  <2> QED
    BY <2>1
<1>6. CASE PagesErased
  <2>1. pc = "erase" /\ pos > 0 /\ pc' = "reset"
    BY <1>6, SizesAreNat DEF PagesErased, Goto, IInv, BInv, TypeOK
  <2>2. Stored' = Stored
    BY <2>1, StoredIs, StoredNothing DEF Gone
  <2> QED
    BY <2>2
<1>7. CASE ResetNum
  <2>1. pc = "reset" /\ pc' = "header"
    BY <1>7 DEF ResetNum, Goto
  <2>2. Stored' = Stored
    BY <2>1, StoredIs, StoredNothing DEF Gone
  <2> QED
    BY <2>2
<1>8. CASE Boot
  <2>1. Stored' = Stored
    BY <1>8, BootFollows
  <2> QED
    BY <2>1
<1>9. CASE PowerCycle
  <2>1. mode' = "boot" /\ [List!Restart]_Stored
    BY <1>9, PowerCycleFollows
  <2> QED
    BY <2>1
<1> QED
  BY <1>1, <1>2, <1>3, <1>4, <1>5, <1>6, <1>7, <1>8, <1>9 DEF Next

(* While the area is clean the store is the list of WatermarkList: a write  *)
(* adds its watermark in one step, an erase empties it in one step, and a   *)
(* power failure loses nothing but may leave the torn watermark.            *)
THEOREM StoreFollowsList ==
  ASSUME RoomLeft
  PROVE  Spec => FollowsList
<1>1. IInv /\ ScanEnds /\ ScanEnds' /\ [Next]_vars
        => [clean /\ clean' =>
              IF mode = "run" /\ mode' = "run"
              THEN [List!Add(image) \/ List!Erase]_Stored
              ELSE [List!Restart]_Stored]_vars
  BY StepFollows
<1> QED
  BY <1>1, InductiveInvariant, ScanStaysInArea, PTL DEF Spec, FollowsList

(* And it begins as an empty list. *)
LEMMA StartsEmpty == Init => List!ListInit
<1> SUFFICES ASSUME Init PROVE Stored = <<>>
  BY DEF List!ListInit
<1>1. mode = "boot" /\ ~GetWMHeader(flash)
  BY SizesAreNat DEF Init, GetWMHeader, Cell
<1> QED
  BY <1>1, StoredIs, StoredNothing
=============================================================================
