----------------------- MODULE RecordStoreLog_proofs -----------------------
(***************************************************************************)
(* RecordStore implements RecordLog, for every size of area, page and half-*)
(* word, as long as GetRecord's int8_t index reaches the newest record: a  *)
(* restart takes Last_ID from it.                                          *)
(***************************************************************************)
EXTENDS RecordStoreLog, RecordStore_proofs, SequenceTheorems

(* Usr_Flash_Init passes its count to GetRecord as an int8_t: IndexLimit    *)
(* records, 128 of the 2558 that fit, are in its reach (usr_flash.c 270).   *)
WithinReach == num <= IndexLimit

-----------------------------------------------------------------------------
(* What the invariant of RecordStore leaves open: what a write was asked to *)
(* store, and what an erase that has not yet begun found.                   *)
Asked ==
  pc["isr"] = "write" =>
    /\ lastId < MaxId
    /\ \E wm, frames \in Payload : image["isr"] = RecordImage(lastId + 1, wm, frames)

NotYetErased ==
  /\ pc["isr"] = "erase" /\ pos["isr"] = 0 =>
       GetRecordHeader(flash) /\ LogAt(flash, num)
  /\ pc["base"] = "erase" /\ pos["base"] = 0 => ~GetRecordHeader(flash)

LogInv == Asked /\ NotYetErased /\ (mode # "run" => lastId = 0)

LEMMA InitLogInv == Init => LogInv
BY DEF Init, LogInv, Asked, NotYetErased, Ctx

(* An ID that is given out is one more than the last.                       *)
LEMMA IdsCount ==
  ASSUME lastId \in Nat, lastId < MaxId
  PROVE  NextId = lastId + 1
<1>1. lastId + 1 < W * W
  <2>1. PICK m \in Nat : m = W * W
    BY FlashParameters
  <2>2. MaxId \in Nat /\ MaxId < m - 1
    BY <2>1, FlashParameters
  <2> QED
    BY <2>1, <2>2
<1> QED
  BY <1>1, NextIdIs

LEMMA NextLogInv ==
  ASSUME IInv, LogInv, [Next]_vars
  PROVE  LogInv'
<1> USE OtherCtx
<1>1. TypeOK /\ Contexts
  BY DEF IInv
<1>2. CASE Report
  <2>0. PICK wm \in Payload, frames \in Payload : WriteRecord(wm, frames)
    BY <1>2 DEF Report, RunEnds
  <2>1. /\ pc'["isr"] = "write" /\ pc'["base"] = pc["base"] /\ mode' = "run"
        /\ pc["base"] = "idle" /\ lastId' = lastId /\ lastId < MaxId
        /\ image'["isr"] = RecordImage(lastId + 1, wm, frames)
    <3>1. mode = "run" /\ lastId < MaxId /\ NextId = lastId + 1
      BY <1>1, <1>2, IdsCount DEF Report, RunEnds, TypeOK
    <3> QED
      BY <1>1, <2>0, <3>1 DEF WriteRecord, Goto, ram, TypeOK, Contexts
  <2> QED
    BY <2>1 DEF LogInv, Asked, NotYetErased, RecordImage, Lo, Hi
<1>3. CASE WriteHalfWord
  <2>1. /\ pc["isr"] = "write" /\ mode = "run" /\ mode' = mode
        /\ pc["base"] = "idle" /\ pc'["base"] = "idle"
        /\ \/ pc'["isr"] = "write" /\ UNCHANGED <<lastId, image>>
           \/ pc'["isr"] = "idle"
    BY <1>1, <1>3 DEF WriteHalfWord, Goto, ram, TypeOK, Contexts
  <2> QED
    BY <2>1 DEF LogInv, Asked, NotYetErased, RecordImage, Lo, Hi
<1>4. CASE HostErase
  <2>1. /\ pc["isr"] = "idle" /\ mode = "run" /\ mode' = mode
        /\ pc["base"] = "idle" /\ pc'["base"] = "idle"
        /\ pc'["isr"] = "erase" /\ UNCHANGED <<flash, num>>
    BY <1>1, <1>4 DEF HostErase, EraseRecord, Goto, ram, TypeOK, Contexts
  <2>2. GetRecordHeader(flash) /\ LogAt(flash, num)
    BY <2>1 DEF IInv, IdlePhase
  <2> QED
    BY <2>1, <2>2 DEF LogInv, Asked, NotYetErased, GetRecordHeader, LogAt, Used, Slot
<1>5. ASSUME NEW c \in Ctx, EraseStep(c)
      PROVE  LogInv'
  <2>1. /\ pc[c] \in {"erase", "reset", "header"} /\ mode # "fault"
        /\ mode' = mode /\ lastId' = lastId
    BY <1>5 DEF EraseStep, ErasePage, PagesErased, ResetNum, SetRecordHeader, Runs, ram
  <2>2. Erasing(c) /\ pos[c] \in Nat /\ ~pgerr
    BY <2>1, OneErasing
  <2>3. /\ \A d \in Ctx : d # c => pc'[d] = pc[d]
        /\ pc'[c] \in {"erase", "reset", "header", "scan", "idle"}
        /\ pc'[c] = "erase" => pos'[c] = pos[c] + PageLen
    BY <1>1, <1>5, <2>2 DEF EraseStep, ErasePage, PagesErased, ResetNum,
       SetRecordHeader, Leave, Goto, TypeOK
  <2>4. pc'["isr"] # "write" /\ \A d \in Ctx : pc'[d] = "erase" => pos'[d] > 0
    BY <2>2, <2>3, SizesAreNat DEF Erasing
  <2> QED
    BY <2>1, <2>4 DEF LogInv, Asked, NotYetErased
<1>6. CASE Boot
  <2>1. /\ pc["isr"] = "idle" /\ mode = "boot" /\ pc'["isr"] = "idle"
        /\ mode' = "run" \/ lastId' = lastId
        /\ pc'["base"] = "erase" => ~GetRecordHeader(flash) /\ flash' = flash
    BY <1>1, <1>6 DEF Boot, BootCheck, BootScan, BootPublish, BootLastId,
       EraseRecord, Leave, Goto, Runs, ram, TypeOK, Contexts
  <2> QED
    BY <2>1 DEF LogInv, Asked, NotYetErased, GetRecordHeader
<1>7. CASE PowerCycle
  BY <1>7 DEF PowerCycle, Reset, LogInv, Asked, NotYetErased
<1>8. CASE UNCHANGED vars
  BY <1>8 DEF vars, ram, LogInv, Asked, NotYetErased, GetRecordHeader, LogAt, Used,
     Slot, RecordImage, Lo, Hi
<1> QED
  BY <1>2, <1>3, <1>4, <1>5, <1>6, <1>7, <1>8 DEF Next

LEMMA LogInvariant == Spec => [](IInv /\ LogInv)
<1> QED
  BY InitIInv, NextIInv, InitLogInv, NextLogInv, PTL DEF Spec

-----------------------------------------------------------------------------
(* What a reader finds, as a function of the state it depends on.           *)

EntryAt(f, a) == [id |-> IdAt(f, a), wm |-> f[a + 2], frames |-> f[a + 3]]
EntriesOf(f, n) == [i \in 1 .. n |-> EntryAt(f, Slot(i - 1))]
Gone(p, q) == (p = "erase" /\ q > 0) \/ p \in {"reset", "header"}

StoredOf(f, m, p, q, n) ==
  CASE m = "run" /\ Gone(p, q)  -> <<>>
    [] m = "run" /\ ~Gone(p, q) -> EntriesOf(f, n)
    [] m # "run" /\ GetRecordHeader(f) ->
         EntriesOf(f, CHOOSE j \in 0 .. Area : LogAt(f, j))
    [] OTHER -> <<>>

NewestOf(s) == IF s = <<>> THEN 0 ELSE s[Len(s)].id
LastOf(m, l, s) == IF m = "run" THEN l ELSE NewestOf(s)

LogRecord == [id : 0 .. W * W - 1, wm : HalfWord, frames : HalfWord]

LEMMA StoredIs ==
  /\ Stored = StoredOf(flash, mode, pc["isr"], pos["isr"], num)
  /\ Stored' = StoredOf(flash', mode', pc'["isr"], pos'["isr"], num')
<1>1. Stored = StoredOf(flash, mode, pc["isr"], pos["isr"], num)
  BY DEF Stored, StoredOf, HeaderGone, Gone, Entries, EntriesOf, Entry, EntryAt
<1>2. Stored' = StoredOf(flash', mode', pc'["isr"], pos'["isr"], num')
  BY DEF Stored, StoredOf, HeaderGone, Gone, Entries, EntriesOf, Entry, EntryAt,
     IdAt, U32, GetRecordHeader, LogAt, Slot, Used
<1> QED
  BY <1>1, <1>2

LEMMA LastIs ==
  /\ StoredLast = LastOf(mode, lastId, Stored)
  /\ StoredLast' = LastOf(mode', lastId', Stored')
BY DEF StoredLast, LastOf, NewestOf

LEMMA StoredWhileRunning ==
  ASSUME NEW f, NEW p, NEW q, NEW n, ~Gone(p, q)
  PROVE  StoredOf(f, "run", p, q, n) = EntriesOf(f, n)
BY DEF StoredOf

(* The scan of boot finds the end of the log wherever it is. *)
LEMMA LogUnique ==
  ASSUME NEW f, NEW m \in Nat, NEW n \in Nat, LogAt(f, m), LogAt(f, n)
  PROVE  m = n
<1>1. ASSUME NEW i \in Nat, NEW j \in Nat, LogAt(f, i), LogAt(f, j), i < j
      PROVE  FALSE
  <2>1. Used(f, Slot(i)) /\ Slot(j) < Area
    BY <1>1 DEF LogAt
  <2>2. /\ Slot(i) \in Cell /\ Slot(i) + 1 \in Cell
        /\ Slot(i) >= Slot(i) /\ Slot(i) + 1 >= Slot(i)
    BY <1>1, <2>1, SizesAreNat DEF Slot, RecLen, Cell
  <2>3. f[Slot(i)] = Blank /\ f[Slot(i) + 1] = Blank
    BY <1>1, <2>2 DEF LogAt
  <2> QED
    BY <2>1, <2>3 DEF Used
<1> QED
  BY <1>1

LEMMA StoredWhileBooting ==
  ASSUME NEW f, NEW m, m # "run", NEW p, NEW q, NEW any, NEW n \in Nat,
         GetRecordHeader(f), LogAt(f, n)
  PROVE  StoredOf(f, m, p, q, any) = EntriesOf(f, n)
<1>1. n \in 0 .. Area
  BY SizesAreNat DEF LogAt, Slot, RecLen
<1> DEFINE c == CHOOSE j \in 0 .. Area : LogAt(f, j)
<1>2. c \in 0 .. Area /\ LogAt(f, c)
  BY <1>1
<1>3. c = n
  BY <1>2, LogUnique, SizesAreNat
<1> QED
  BY <1>3 DEF StoredOf

LEMMA StoredNothing ==
  ASSUME NEW f, NEW m, NEW p, NEW q, NEW n,
         IF m = "run" THEN Gone(p, q) ELSE ~GetRecordHeader(f)
  PROVE  StoredOf(f, m, p, q, n) = <<>>
BY DEF StoredOf

LEMMA EntryType ==
  ASSUME NEW f \in [Cell -> HalfWord], NEW a \in Nat, a + 3 < Area
  PROVE  EntryAt(f, a) \in LogRecord
<1>1. a \in Cell /\ a + 1 \in Cell /\ a + 2 \in Cell /\ a + 3 \in Cell
  BY SizesAreNat DEF Cell
<1>2. IdAt(f, a) \in 0 .. W * W - 1
  BY <1>1, U32InRange DEF IdAt
<1> QED
  BY <1>1, <1>2 DEF EntryAt, LogRecord

LEMMA EntriesType ==
  ASSUME NEW f \in [Cell -> HalfWord], NEW n \in Nat, Slot(n) <= Area
  PROVE  /\ EntriesOf(f, n) \in Seq(LogRecord) /\ Len(EntriesOf(f, n)) = n
         /\ \A i \in 1 .. n : EntriesOf(f, n)[i] = EntryAt(f, Slot(i - 1))
<1>1. ASSUME NEW i \in 1 .. n PROVE EntryAt(f, Slot(i - 1)) \in LogRecord
  <2>1. Slot(i - 1) \in Nat /\ Slot(i - 1) + 3 < Area
    BY SizesAreNat DEF Slot, RecLen
  <2> QED
    BY <2>1, EntryType
<1>2. EntriesOf(f, n) \in [1 .. n -> LogRecord]
  BY <1>1 DEF EntriesOf
<1>3. EntriesOf(f, n) \in Seq(LogRecord)
  BY <1>2, SeqDef
<1>4. Len(EntriesOf(f, n)) = n
  BY <1>2, <1>3, LenProperties
<1> QED
  BY <1>3, <1>4 DEF EntriesOf

LEMMA NoEntries ==
  ASSUME NEW f \in [Cell -> HalfWord]
  PROVE  EntriesOf(f, 0) = <<>>
<1>1. Slot(0) <= Area
  BY SizesAreNat DEF Slot, RecLen
<1>2. EntriesOf(f, 0) \in Seq(LogRecord) /\ Len(EntriesOf(f, 0)) = 0
  BY <1>1, EntriesType
<1> QED
  BY <1>2, EmptySeq

(* The newest of n records is in the slot before the end. *)
LEMMA NewestEntry ==
  ASSUME NEW f \in [Cell -> HalfWord], NEW n \in Nat, Slot(n) <= Area
  PROVE  NewestOf(EntriesOf(f, n)) = IF n = 0 THEN 0 ELSE IdAt(f, Slot(n - 1))
<1>1. CASE n = 0
  BY <1>1, NoEntries DEF NewestOf
<1>2. CASE n # 0
  <2>1. EntriesOf(f, n) # <<>> /\ Len(EntriesOf(f, n)) = n /\ n \in 1 .. n
    BY <1>2, EntriesType, EmptySeq
  <2>2. EntriesOf(f, n)[n] = EntryAt(f, Slot(n - 1))
    BY <2>1, EntriesType
  <2> QED
    BY <1>2, <2>1, <2>2 DEF NewestOf, EntryAt
<1> QED
  BY <1>1, <1>2

(* Readers of n records see only the cells below Slot(n). *)
LEMMA EntriesSame ==
  ASSUME NEW f \in [Cell -> HalfWord], NEW g \in [Cell -> HalfWord],
         NEW n \in Nat, Slot(n) <= Area,
         \A b \in Cell : b < Slot(n) => g[b] = f[b]
  PROVE  EntriesOf(g, n) = EntriesOf(f, n)
<1>1. ASSUME NEW i \in 1 .. n
      PROVE  EntryAt(g, Slot(i - 1)) = EntryAt(f, Slot(i - 1))
  <2> DEFINE a == Slot(i - 1)
  <2>1. \A k \in 0 .. 3 : a + k \in Cell /\ a + k < Slot(n)
    BY SizesAreNat DEF Cell, Slot, RecLen
  <2>2. \A k \in 0 .. 3 : g[a + k] = f[a + k]
    BY <2>1
  <2>3. a + 0 = a
    BY SizesAreNat DEF Slot, RecLen
  <2>4. g[a] = f[a] /\ g[a + 1] = f[a + 1] /\ g[a + 2] = f[a + 2] /\ g[a + 3] = f[a + 3]
    BY <2>2, <2>3
  <2> QED
    BY <2>4 DEF EntryAt, IdAt
<1> QED
  BY <1>1 DEF EntriesOf

LEMMA EntriesGrow ==
  ASSUME NEW f \in [Cell -> HalfWord], NEW n \in Nat, Slot(n) + RecLen <= Area
  PROVE  /\ EntryAt(f, Slot(n)) \in LogRecord
         /\ EntriesOf(f, n + 1) = Append(EntriesOf(f, n), EntryAt(f, Slot(n)))
<1> DEFINE s == EntriesOf(f, n)
           t == EntriesOf(f, n + 1)
           e == EntryAt(f, Slot(n))
<1>1. /\ Slot(n + 1) <= Area /\ Slot(n) <= Area /\ Slot(n) \in Nat /\ n + 1 \in Nat
      /\ Slot(n) + 3 < Area
  BY SizesAreNat DEF Slot, RecLen
<1>2. s \in Seq(LogRecord) /\ Len(s) = n /\ \A i \in 1 .. n : s[i] = EntryAt(f, Slot(i - 1))
  BY <1>1, EntriesType
<1>3. t \in Seq(LogRecord) /\ Len(t) = n + 1
      /\ \A i \in 1 .. n + 1 : t[i] = EntryAt(f, Slot(i - 1))
  BY <1>1, EntriesType
<1>4. e \in LogRecord
  BY <1>1, EntryType
<1>5. t[n + 1] = e
  <2>1. (n + 1) - 1 = n /\ n + 1 \in 1 .. n + 1
    OBVIOUS
  <2>2. t[n + 1] = EntryAt(f, Slot((n + 1) - 1))
    BY <1>3, <2>1
  <2> QED
    BY <2>1, <2>2
<1> HIDE DEF s, t, e
<1>6. /\ Append(s, e) \in Seq(LogRecord) /\ Len(Append(s, e)) = n + 1
      /\ \A i \in 1 .. n : Append(s, e)[i] = s[i]
      /\ Append(s, e)[n + 1] = e
  BY <1>2, <1>4, AppendProperties
<1>7. \A i \in 1 .. n + 1 : t[i] = Append(s, e)[i]
  <2> SUFFICES ASSUME NEW i \in 1 .. n + 1 PROVE t[i] = Append(s, e)[i]
    OBVIOUS
  <2>1. CASE i = n + 1
    BY <1>5, <1>6, <2>1
  <2>2. CASE i # n + 1
    <3>1. i \in 1 .. n
      BY <2>2
    <3> QED
      BY <1>2, <1>3, <1>6, <3>1
  <2> QED
    BY <2>1, <2>2
<1>8. t = Append(s, e)
  BY <1>3, <1>6, <1>7, SeqEqual
<1> QED
  BY <1>4, <1>8 DEF s, t, e

(* Which n the test for room of WriteRecord lets in. *)
LEMMA RoomEnds ==
  ASSUME NEW n \in Nat, Slot(n) + RecLen < Area
  PROVE  n < Capacity
<1>1. Area - HdrLen - 1 \in Nat /\ 4 * (n + 1) <= Area - HdrLen - 1
  BY SizesAreNat DEF Slot, RecLen
<1> QED
  BY <1>1 DEF Capacity, RecLen

-----------------------------------------------------------------------------
(* Each step of the store is a step of the log.                             *)

LEMMA WriteHalfWordFollows ==
  ASSUME IInv, LogInv, WriteHalfWord
  PROVE  \/ Stored' = Stored /\ StoredLast' = StoredLast
         \/ \E wm, frames \in Payload : Log!Write(wm, frames)
<1> DEFINE p == pos["isr"]
<1>1. /\ pc["isr"] = "write" /\ mode = "run" /\ mode' = "run" /\ TypeOK
      /\ num \in Nat /\ lastId \in Nat /\ address = Slot(num)
      /\ Slot(num) + RecLen < Area /\ lastId + 1 \in 0 .. W * W - 1
      /\ Slot(num) \in Nat /\ Slot(num) <= Area
  BY SizesAreNat DEF WriteHalfWord, IInv, Contexts, TypeOK, WritePhase, Fits, Slot, RecLen
<1>2. /\ p \in 0 .. 3 /\ flash \in [Cell -> HalfWord] /\ flash' \in [Cell -> HalfWord]
      /\ flash' = [flash EXCEPT ![address + p] = image["isr"][p + 1]]
  BY <1>1, WriteHalfWordStep DEF RecLen, TypeOK
<1>3. EntriesOf(flash', num) = EntriesOf(flash, num)
  <2>1. \A b \in Cell : b < Slot(num) => flash'[b] = flash[b]
    BY <1>1, <1>2 DEF Cell
  <2>2. /\ num \in Nat /\ Slot(num) <= Area
        /\ flash \in [Cell -> HalfWord] /\ flash' \in [Cell -> HalfWord]
    BY <1>1, <1>2
  <2> QED
    BY <2>1, <2>2, EntriesSame
<1>4. Stored = EntriesOf(flash, num) /\ Len(Stored) = num /\ StoredLast = lastId
  BY <1>1, <1>2, StoredIs, LastIs, StoredWhileRunning, EntriesType DEF Gone, LastOf
<1>5. CASE p + 1 < RecLen
  <2>1. pc'["isr"] = "write" /\ num' = num /\ lastId' = lastId
    BY <1>1, <1>5 DEF WriteHalfWord, Goto, ram, TypeOK, Ctx
  <2> QED
    BY <1>1, <1>3, <1>4, <2>1, StoredIs, LastIs, StoredWhileRunning DEF Gone, LastOf
<1>6. CASE ~(p + 1 < RecLen)
  <2>1. /\ pc'["isr"] = "idle" /\ num' = num + 1 /\ lastId' = lastId + 1
        /\ p + 1 = RecLen
    <3>1. pc["isr"] = "write" => lastId < MaxId
      BY DEF LogInv, Asked
    <3>2. NextId = lastId + 1
      BY <1>1, <3>1, IdsCount
    <3> QED
      BY <1>1, <1>2, <1>6, <3>2 DEF WriteHalfWord, Goto, ram, TypeOK, Ctx, RecLen
  <2>2. Stored' = EntriesOf(flash', num + 1) /\ StoredLast' = lastId + 1
    BY <1>1, <2>1, StoredIs, LastIs, StoredWhileRunning DEF Gone, LastOf
  <2>3. Stored' = Append(Stored, EntryAt(flash', Slot(num)))
    <3>1. Slot(num) + RecLen <= Area
      BY <1>1, SizesAreNat DEF RecLen
    <3> QED
      BY <1>1, <1>2, <1>3, <1>4, <2>2, <3>1, EntriesGrow
  <2>4. PICK wm \in Payload, frames \in Payload :
          image["isr"] = RecordImage(lastId + 1, wm, frames) /\ lastId < MaxId
    BY <1>1 DEF LogInv, Asked
  <2>5. /\ flash'[Slot(num)] = Lo(lastId + 1) /\ flash'[Slot(num) + 1] = Hi(lastId + 1)
        /\ flash'[Slot(num) + 2] = wm /\ flash'[Slot(num) + 3] = frames
    <3>1. \A j \in 0 .. 3 : flash'[Slot(num) + j] = image["isr"][j + 1]
      <4>1. Holds(flash', address, image["isr"], p + 1)
        BY WriteHalfWordEffect
      <4> QED
        BY <1>1, <2>1, <4>1 DEF Holds, RecLen
    <3>2. Slot(num) + 0 = Slot(num)
      BY <1>1
    <3>3. /\ image["isr"][0 + 1] = Lo(lastId + 1) /\ image["isr"][1 + 1] = Hi(lastId + 1)
          /\ image["isr"][2 + 1] = wm /\ image["isr"][3 + 1] = frames
      BY <2>4 DEF RecordImage
    <3> QED
      BY <3>1, <3>2, <3>3
  <2>6. EntryAt(flash', Slot(num)) = [id |-> lastId + 1, wm |-> wm, frames |-> frames]
    BY <1>1, <2>5, HalvesOfId DEF EntryAt, IdAt
  <2>7. num < Capacity
    BY <1>1, RoomEnds
  <2>8. Log!Write(wm, frames)
    BY <1>4, <2>2, <2>3, <2>4, <2>6, <2>7 DEF Log!Write, Log!HasRoom
  <2> QED
    BY <2>8
<1> QED
  BY <1>5, <1>6

(* The log goes with the first page. *)
LEMMA ErasePageFollows ==
  ASSUME NEW c \in Ctx, IInv, LogInv, ErasePage(c)
  PROVE  \/ Stored' = Stored /\ StoredLast' = StoredLast
         \/ Log!Erase
<1>1. /\ pc[c] = "erase" /\ mode # "fault" /\ mode' = mode /\ lastId' = lastId
      /\ TypeOK /\ Contexts /\ ErasePhase(c)
  BY DEF ErasePage, Runs, ram, IInv
<1>2. Erasing(c) /\ pos[c] \in Nat /\ ~pgerr
  BY <1>1, OneErasing
<1>3. pc'[c] = "erase" /\ pos'[c] > 0 /\ \A d \in Ctx : d # c => pc'[d] = pc[d]
  BY <1>1, <1>2, SizesAreNat DEF ErasePage, Goto, TypeOK
<1>4. CASE c = "isr"
  <2>1. Stored' = <<>> /\ mode = "run"
    BY <1>1, <1>2, <1>3, <1>4, StoredIs, StoredNothing DEF Gone, Erasing
  <2> QED
    BY <1>1, <2>1, LastIs DEF Log!Erase, LastOf
<1>5. CASE c = "base"
  <2>1. mode = "boot"
    BY <1>2, <1>5 DEF Erasing
  <2>2. ~GetRecordHeader(flash)
    <3>1. CASE pos[c] = 0
      BY <1>1, <1>5, <3>1 DEF LogInv, NotYetErased
    <3>2. CASE pos[c] > 0
      <4>1. flash[0] = Blank
        BY <1>1, <3>2, SizesAreNat DEF ErasePhase
      <4> QED
        BY <4>1, SizesAreNat DEF GetRecordHeader
    <3> QED
      BY <1>2, <3>1, <3>2
  <2>3. ~GetRecordHeader(flash')
    <3>1. ErasePhase(c)'
      BY <1>5, ErasePageIInv DEF IInv
    <3>2. flash'[0] = Blank
      BY <1>3, <3>1, SizesAreNat DEF ErasePhase
    <3> QED
      BY <3>2, SizesAreNat DEF GetRecordHeader
  <2>4. Stored = <<>> /\ Stored' = <<>>
    BY <1>1, <2>1, <2>2, <2>3, StoredIs, StoredNothing
  <2> QED
    BY <1>1, <2>1, <2>4, LastIs DEF LastOf
<1> QED
  BY <1>4, <1>5 DEF Ctx

(* In an area whose first half-word is erased a reader finds nothing. *)
LEMMA NoHeader ==
  ASSUME NEW f, f[0] = Blank
  PROVE  ~GetRecordHeader(f)
BY SizesAreNat DEF GetRecordHeader

LEMMA PagesErasedFollows ==
  ASSUME NEW c \in Ctx, IInv, PagesErased(c) \/ ResetNum(c)
  PROVE  Stored' = Stored /\ StoredLast' = StoredLast
<1>1. /\ pc[c] \in {"erase", "reset"} /\ mode # "fault" /\ mode' = mode
      /\ lastId' = lastId /\ TypeOK /\ flash' = flash
      /\ pc[c] = "erase" => pos[c] >= Area
      /\ ErasePhase(c) /\ ResetPhase(c)
  BY DEF PagesErased, ResetNum, Runs, ram, IInv
<1>2. Erasing(c) /\ pos[c] \in Nat
  BY <1>1, OneErasing
<1>3. pc'[c] \in {"reset", "header"} /\ \A d \in Ctx : d # c => pc'[d] = pc[d]
  BY <1>1 DEF PagesErased, ResetNum, Goto, TypeOK
<1>4. ~GetRecordHeader(flash)
  <2>1. CASE pc[c] = "erase"
    BY <1>1, <1>2, <2>1, NoHeader, SizesAreNat DEF ErasePhase, Cell
  <2>2. CASE pc[c] = "reset"
    BY <1>1, <2>2, NoHeader, SizesAreNat DEF ResetPhase, ErasedFrom
  <2> QED
    BY <1>1, <2>1, <2>2
<1>5. Stored = <<>> /\ Stored' = <<>>
  <2>1. CASE c = "isr"
    <3>1. mode = "run"
      BY <1>2, <2>1 DEF Erasing
    <3>2. Gone(pc["isr"], pos["isr"])
      <4>1. pos["isr"] \in Nat /\ (pc["isr"] = "erase" => pos["isr"] >= Area)
        BY <1>1, <1>2, <2>1
      <4>2. pc["isr"] = "erase" => pos["isr"] > 0
        <5>1. Area \in Nat /\ Area > 0
          BY SizesAreNat DEF Cell
        <5> QED
          BY <4>1, <5>1
      <4> QED
        BY <1>1, <2>1, <4>2 DEF Gone
    <3>3. Gone(pc'["isr"], pos'["isr"])
      BY <1>3, <2>1 DEF Gone
    <3> QED
      BY <1>1, <3>1, <3>2, <3>3, StoredIs, StoredNothing
  <2>2. CASE c = "base"
    <3>1. mode = "boot"
      BY <1>2, <2>2 DEF Erasing
    <3> QED
      BY <1>1, <1>4, <3>1, StoredIs, StoredNothing
  <2> QED
    BY <2>1, <2>2 DEF Ctx
<1> QED
  BY <1>1, <1>5, LastIs DEF LastOf

(* A header half written is no header, or an empty log. *)
LEMMA HeaderTears ==
  ASSUME NEW f, NEW p \in Nat, p < HdrLen, ErasedFrom(f, p)
  PROVE  ~GetRecordHeader(f) \/ LogAt(f, 0)
<1>1. CASE p < IdLen
  <2>1. p \in Cell /\ p \in 0 .. IdLen - 1
    BY <1>1, SizesAreNat DEF Cell, RecLen
  <2>2. f[p] = Blank
    BY <2>1 DEF ErasedFrom
  <2> QED
    BY <2>1, <2>2, SizesAreNat DEF GetRecordHeader
<1>2. CASE p >= IdLen
  <2>1. Slot(0) = HdrLen /\ Slot(0) < Area
    BY SizesAreNat DEF Slot, RecLen
  <2>2. \A a \in Cell : a >= Slot(0) => f[a] = Blank
    BY <2>1, SizesAreNat DEF ErasedFrom, Cell
  <2> QED
    BY <2>1, <2>2 DEF LogAt
<1> QED
  BY <1>1, <1>2, SizesAreNat

LEMMA SetRecordHeaderFollows ==
  ASSUME NEW c \in Ctx, IInv, SetRecordHeader(c)
  PROVE  Stored' = Stored /\ StoredLast' = StoredLast
<1>1. /\ pc[c] = "header" /\ mode # "fault" /\ mode' = mode
      /\ lastId' = lastId /\ num' = num /\ num = 0 /\ TypeOK
      /\ pos[c] \in Nat /\ pos[c] < HdrLen /\ flash' \in [Cell -> HalfWord]
  BY SetRecordHeaderStep DEF SetRecordHeader, Runs, ram, IInv, HeaderPhase
<1>2. Erasing(c) /\ EntriesOf(flash, 0) = <<>> /\ EntriesOf(flash', 0) = <<>>
  BY <1>1, OneErasing, NoEntries DEF TypeOK
<1>3. ~GetRecordHeader(flash') \/ LogAt(flash', 0)
  <2>1. CASE pos[c] + 1 < HdrLen
    <3>1. ErasedFrom(flash', pos[c] + 1) /\ pos[c] + 1 \in Nat
      BY <1>1, SetRecordHeaderStep
    <3> QED
      BY <2>1, <3>1, HeaderTears
  <2>2. CASE pos[c] + 1 >= HdrLen
    BY <2>2, HeaderDone
  <2> QED
    BY <1>1, <2>1, <2>2, SizesAreNat
<1>4. Stored = <<>> /\ Stored' = <<>>
  <2>1. CASE c = "isr"
    <3>1. mode = "run" /\ Gone(pc["isr"], pos["isr"])
      BY <1>1, <1>2, <2>1 DEF Erasing, Gone
    <3>2. Stored = <<>>
      BY <3>1, StoredIs, StoredNothing
    <3>3. Gone(pc'["isr"], pos'["isr"]) \/ ~Gone(pc'["isr"], pos'["isr"])
      OBVIOUS
    <3> QED
      BY <1>1, <1>2, <3>1, <3>2, <3>3, StoredIs, StoredNothing, StoredWhileRunning
  <2>2. CASE c = "base"
    <3>1. mode = "boot"
      BY <1>2, <2>2 DEF Erasing
    <3>2. ~GetRecordHeader(flash) \/ LogAt(flash, 0)
      BY <1>1, HeaderTears DEF IInv, HeaderPhase
    <3>3. Stored = <<>>
      BY <1>2, <3>1, <3>2, StoredIs, StoredNothing, StoredWhileBooting
    <3>4. Stored' = <<>>
      BY <1>1, <1>2, <1>3, <3>1, StoredIs, StoredNothing, StoredWhileBooting
    <3> QED
      BY <3>3, <3>4
  <2> QED
    BY <2>1, <2>2 DEF Ctx
<1> QED
  BY <1>1, <1>4, LastIs DEF LastOf

(* Boot changes nothing a reader can see: its scan finds the records there  *)
(* are, and GetRecord hands back the ID of the newest.                      *)
LEMMA BootFollows ==
  ASSUME IInv, LogInv, WithinReach, Boot
  PROVE  Stored' = Stored /\ StoredLast' = StoredLast
<1>1. mode = "boot" /\ pc["isr"] = "idle" /\ TypeOK /\ BootPhase /\ lastId = 0
  BY DEF Boot, BootCheck, BootScan, BootPublish, BootLastId, Runs, IInv, Contexts, LogInv
<1>2. CASE BootCheck \/ BootScan \/ BootPublish
  <2>1. flash' = flash /\ mode' # "run"
    BY <1>1, <1>2 DEF BootCheck, BootScan, BootPublish, EraseRecord
  <2>2. Stored' = Stored
    BY <1>1, <2>1, StoredIs DEF StoredOf
  <2> QED
    BY <1>1, <2>1, <2>2, LastIs DEF LastOf
<1>3. CASE BootLastId
  <2>1. /\ GetRecordHeader(flash) /\ LogAt(flash, found) /\ num = found
        /\ found \in Nat /\ found <= IndexLimit /\ Slot(found) <= Area
        /\ flash \in [Cell -> HalfWord]
    BY <1>1, <1>3, SizesAreNat
    DEF BootLastId, BootPhase, WithinReach, TypeOK, LogAt, Slot, RecLen
  <2>2. flash' = flash /\ mode' = "run" /\ num' = num /\ pc'["isr"] = "idle"
    BY <1>1, <1>3 DEF BootLastId, Goto, TypeOK, Ctx
  <2>3. Stored = EntriesOf(flash, found)
    BY <1>1, <2>1, StoredIs, StoredWhileBooting
  <2>4. Stored' = EntriesOf(flash, found)
    BY <2>1, <2>2, StoredIs, StoredWhileRunning DEF Gone
  <2>5. lastId' = NewestOf(EntriesOf(flash, found))
    <3>1. CASE found = 0
      BY <1>1, <1>3, <2>1, <3>1, NewestEntry DEF BootLastId
    <3>2. CASE found # 0
      <4>1. found > 0 /\ found - 1 \in Nat /\ found - 1 < IndexLimit
        BY <2>1, <3>2, FlashParameters
      <4>2. Int8(found - 1) = found - 1
        <5>1. found - 1 + IndexLimit \in 0 .. 2 * IndexLimit - 1
          BY <4>1, FlashParameters
        <5> QED
          BY <4>1, <5>1, FlashParameters DEF Int8
      <4>3. lastId' = IdAt(flash, Slot(found - 1))
        BY <1>3, <2>1, <4>1, <4>2 DEF BootLastId, GetRecordID
      <4> QED
        BY <2>1, <3>2, <4>3, NewestEntry
    <3> QED
      BY <3>1, <3>2
  <2> QED
    BY <1>1, <2>2, <2>3, <2>4, <2>5, LastIs DEF LastOf
<1> QED
  BY <1>2, <1>3 DEF Boot

(* An ID whose high half is still erased is no smaller than the whole one. *)
LEMMA TornIdIsLarge ==
  ASSUME NEW id \in 0 .. W * W - 1
  PROVE  U32(Lo(id), Blank) >= id
<1>1. Lo(id) \in HalfWord /\ Hi(id) \in HalfWord /\ Lo(id) + W * Hi(id) = id
  BY HalvesOfId DEF U32
<1>2. Hi(id) \in Nat /\ Hi(id) <= Blank /\ Blank \in Nat /\ W \in Nat /\ Lo(id) \in Nat
  BY <1>1, SizesAreNat DEF HalfWord, Blank
<1>3. PICK d \in Nat : Blank = Hi(id) + d
  <2>1. Blank - Hi(id) \in Nat /\ Blank = Hi(id) + (Blank - Hi(id))
    BY <1>2
  <2> QED
    BY <2>1
<1>4. W * Blank = W * Hi(id) + W * d /\ W * d \in Nat /\ W * Hi(id) \in Nat
  BY <1>2, <1>3
<1> QED
  BY <1>1, <1>2, <1>4 DEF U32

(* The record that a power failure cuts short joins the log or does not; if *)
(* it does, its ID is ahead of those before it.                             *)
LEMMA TornRecord ==
  ASSUME IInv, LogInv, pc["isr"] = "write"
  PROVE  /\ GetRecordHeader(flash) /\ num \in Nat /\ Slot(num) + RecLen < Area
         /\ \/ LogAt(flash, num)
            \/ LogAt(flash, num + 1) /\ IdAt(flash, Slot(num)) > lastId
<1> DEFINE p == pos["isr"]
           a == Slot(num)
<1>1. /\ TypeOK /\ p \in 0 .. 3 /\ num \in Nat /\ a = HdrLen + 4 * num
      /\ address = a /\ a + RecLen < Area /\ a \in Nat /\ lastId \in Nat
      /\ lastId + 1 \in 0 .. W * W - 1 /\ GetRecordHeader(flash)
      /\ UsedBelow(flash, num) /\ ErasedFrom(flash, a + p)
      /\ Holds(flash, a, image["isr"], p)
  BY OtherCtx, SizesAreNat DEF IInv, TypeOK, WritePhase, Fits, Slot, RecLen
<1>2. image["isr"][1] = Lo(lastId + 1) /\ image["isr"][2] = Hi(lastId + 1)
  BY DEF LogInv, Asked, RecordImage
<1>3. a \in Cell /\ a + 1 \in Cell /\ a + 4 \in Cell
  BY <1>1, SizesAreNat DEF Cell, RecLen
<1>4. CASE flash[a] = Blank /\ flash[a + 1] = Blank
  <2>1. p = 0 \/ p = 1
    <3>1. p >= 2 => flash[a + 0] = image["isr"][0 + 1] /\ flash[a + 1] = image["isr"][1 + 1]
      BY <1>1 DEF Holds
    <3>2. image["isr"][1] # Blank \/ image["isr"][2] # Blank
      BY DEF IInv, WritePhase
    <3> QED
      BY <1>1, <1>4, <3>1, <3>2
  <2>2. ErasedFrom(flash, a)
    BY <1>1, <1>4, <2>1 DEF ErasedFrom, Cell
  <2>3. LogAt(flash, num)
    BY <1>1, <2>2, SizesAreNat DEF LogAt, UsedBelow, ErasedFrom, RecLen
  <2> QED
    BY <1>1, <2>3
<1>5. CASE ~(flash[a] = Blank /\ flash[a + 1] = Blank)
  <2>1. Used(flash, a) /\ Slot(num + 1) = a + 4
    BY <1>1, <1>5, SizesAreNat DEF Used, Slot, RecLen
  <2>2. UsedBelow(flash, num + 1)
    BY <1>1, <2>1 DEF UsedBelow
  <2>3. ErasedFrom(flash, a + 4)
    BY <1>1 DEF ErasedFrom, Cell
  <2>4. LogAt(flash, num + 1)
    BY <1>1, <2>1, <2>2, <2>3 DEF LogAt, UsedBelow, ErasedFrom, RecLen
  <2>5. IdAt(flash, a) > lastId
    <3>1. CASE p = 0
      BY <1>1, <1>3, <1>5, <3>1 DEF ErasedFrom
    <3>2. CASE p = 1
      <4>1. flash[a + 0] = image["isr"][0 + 1] /\ a + 0 = a
        BY <1>1, <3>2 DEF Holds
      <4>2. flash[a + 1] = Blank
        BY <1>1, <1>3, <3>2 DEF ErasedFrom
      <4>3. IdAt(flash, a) = U32(Lo(lastId + 1), Blank)
        BY <1>2, <4>1, <4>2 DEF IdAt
      <4>4. IdAt(flash, a) \in Int
        BY <1>1, <1>3, U32InRange DEF IdAt, TypeOK
      <4> QED
        BY <1>1, <4>3, <4>4, TornIdIsLarge
    <3>3. CASE p >= 2
      <4>1. /\ flash[a + 0] = image["isr"][0 + 1] /\ a + 0 = a
            /\ flash[a + 1] = image["isr"][1 + 1]
        BY <1>1, <3>3 DEF Holds
      <4>2. IdAt(flash, a) = lastId + 1
        BY <1>1, <1>2, <4>1, HalvesOfId DEF IdAt
      <4> QED
        BY <1>1, <4>2
    <3> QED
      BY <1>1, <3>1, <3>2, <3>3
  <2> QED
    BY <1>1, <2>4, <2>5
<1> QED
  BY <1>4, <1>5

(* A restart keeps the log, and may complete it by the record it tore.      *)
LEMMA PowerCycleFollows ==
  ASSUME IInv, LogInv, PowerCycle
  PROVE  Log!Restart
<1>1. mode' = "boot" /\ flash' = flash /\ StoredLast' = NewestOf(Stored')
  BY LastIs DEF PowerCycle, Reset, LastOf
<1>2. ASSUME ~GetRecordHeader(flash) PROVE Stored' = <<>>
  BY <1>1, <1>2, StoredIs, StoredNothing
<1>3. ASSUME NEW n \in Nat, GetRecordHeader(flash), LogAt(flash, n)
      PROVE  Stored' = EntriesOf(flash, n)
  BY <1>1, <1>3, StoredIs, StoredWhileBooting
<1>4. ASSUME \/ Stored' = Stored
             \/ Log!HasRoom /\ \E torn \in Log!Record :
                  torn.id > StoredLast /\ Stored' = Append(Stored, torn)
      PROVE  Log!Restart
  BY <1>1, <1>4 DEF Log!Restart, NewestOf
<1>5. /\ TypeOK /\ Contexts /\ num \in Nat /\ flash \in [Cell -> HalfWord]
      /\ EntriesOf(flash, 0) = <<>> /\ 0 \in Nat
  BY NoEntries DEF IInv, TypeOK
<1>6. CASE mode # "run"
  <2>1. Stored' = Stored
    BY <1>1, <1>6, StoredIs DEF StoredOf
  <2> QED
    BY <1>4, <2>1
<1>7. CASE mode = "run" /\ GetRecordHeader(flash) /\ LogAt(flash, num)
           /\ ~Gone(pc["isr"], pos["isr"])
  <2>1. Stored = EntriesOf(flash, num)
    BY <1>7, StoredIs, StoredWhileRunning
  <2> QED
    BY <1>3, <1>4, <1>5, <1>7, <2>1
<1>8. CASE mode = "run" /\ Gone(pc["isr"], pos["isr"])
           /\ (~GetRecordHeader(flash) \/ LogAt(flash, 0))
  <2>1. Stored = <<>>
    BY <1>8, StoredIs, StoredNothing
  <2>2. Stored' = <<>>
    BY <1>2, <1>3, <1>5, <1>8
  <2> QED
    BY <1>4, <2>1, <2>2
<1>9. CASE pc["isr"] = "idle" /\ mode = "run"
  BY <1>7, <1>9 DEF IInv, IdlePhase, Gone
<1>10. CASE pc["isr"] = "erase" /\ mode = "run"
  <2>1. CASE pos["isr"] = 0
    BY <1>7, <1>10, <2>1 DEF LogInv, NotYetErased, Gone
  <2>2. CASE pos["isr"] > 0
    <3>1. flash[0] = Blank
      BY <1>5, <1>10, <2>2, OtherCtx, SizesAreNat DEF IInv, ErasePhase, TypeOK
    <3> QED
      BY <1>8, <1>10, <2>2, <3>1, NoHeader DEF Gone
  <2>3. pos["isr"] \in Nat
    BY <1>5, OtherCtx DEF TypeOK
  <2> QED
    BY <2>1, <2>2, <2>3
<1>11. CASE pc["isr"] = "reset" /\ mode = "run"
  <2>1. flash[0] = Blank
    BY <1>11, OtherCtx, SizesAreNat DEF IInv, ResetPhase, ErasedFrom
  <2> QED
    BY <1>8, <1>11, <2>1, NoHeader DEF Gone
<1>12. CASE pc["isr"] = "header" /\ mode = "run"
  <2>1. ~GetRecordHeader(flash) \/ LogAt(flash, 0)
    BY <1>5, <1>12, OtherCtx, HeaderTears DEF IInv, HeaderPhase, TypeOK
  <2> QED
    BY <1>8, <1>12, <2>1 DEF Gone
<1>13. CASE pc["isr"] = "write" /\ mode = "run"
  <2>1. /\ GetRecordHeader(flash) /\ Slot(num) + RecLen < Area
        /\ \/ LogAt(flash, num)
           \/ LogAt(flash, num + 1) /\ IdAt(flash, Slot(num)) > lastId
    BY <1>13, TornRecord
  <2>2. CASE LogAt(flash, num)
    BY <1>7, <1>13, <2>1, <2>2 DEF Gone
  <2>3. CASE LogAt(flash, num + 1) /\ IdAt(flash, Slot(num)) > lastId
    <3> DEFINE torn == EntryAt(flash, Slot(num))
    <3>1. Stored = EntriesOf(flash, num) /\ StoredLast = lastId
      BY <1>13, StoredIs, LastIs, StoredWhileRunning DEF Gone, LastOf
    <3>2. Stored' = EntriesOf(flash, num + 1)
      BY <1>3, <1>5, <2>1, <2>3
    <3>3. Slot(num) + RecLen <= Area /\ Slot(num) <= Area
      BY <1>5, <2>1, SizesAreNat DEF RecLen, Slot
    <3>4. Stored' = Append(Stored, torn) /\ torn \in LogRecord
      BY <1>5, <3>1, <3>2, <3>3, EntriesGrow
    <3>5. Len(Stored) < Capacity
      BY <1>5, <2>1, <3>1, <3>3, EntriesType, RoomEnds
    <3>6. torn.id > StoredLast
      BY <2>3, <3>1 DEF EntryAt
    <3> QED
      BY <1>4, <3>4, <3>5, <3>6 DEF Log!HasRoom, Log!Record, LogRecord
  <2> QED
    BY <2>1, <2>2, <2>3
<1> QED
  BY <1>5, <1>6, <1>9, <1>10, <1>11, <1>12, <1>13 DEF Contexts, TypeOK

LEMMA StepFollows ==
  ASSUME IInv, LogInv, WithinReach, [Next]_vars
  PROVE  [Log!LogNext]_(Log!logVars)
<1>1. ASSUME Stored' = Stored /\ StoredLast' = StoredLast
      PROVE  [Log!LogNext]_(Log!logVars)
  BY <1>1 DEF Log!logVars
<1>2. ASSUME Report
      PROVE  Stored' = Stored /\ StoredLast' = StoredLast
  <2>1. /\ mode = "run" /\ mode' = mode /\ pc["isr"] = "idle" /\ pc'["isr"] = "write"
        /\ UNCHANGED <<flash, num, lastId>>
    BY <1>2 DEF Report, RunEnds, WriteRecord, Goto, ram, IInv, TypeOK, Ctx
  <2>2. Stored' = Stored
    BY <2>1, StoredIs, StoredWhileRunning DEF Gone
  <2> QED
    BY <2>1, <2>2, LastIs DEF LastOf
<1>3. CASE WriteHalfWord
  <2>1. (\E wm, frames \in Payload : Log!Write(wm, frames)) => Log!LogNext
    BY DEF Log!LogNext
  <2> QED
    BY <1>1, <1>3, <2>1, WriteHalfWordFollows
<1>4. ASSUME HostErase
      PROVE  Stored' = Stored /\ StoredLast' = StoredLast
  <2>1. /\ mode = "run" /\ mode' = mode /\ pc["isr"] = "idle"
        /\ pc'["isr"] = "erase" /\ pos'["isr"] = 0
        /\ UNCHANGED <<flash, num, lastId>>
    BY <1>4 DEF HostErase, EraseRecord, Goto, ram, IInv, TypeOK, Ctx
  <2>2. Stored' = Stored
    BY <2>1, StoredIs, StoredWhileRunning DEF Gone
  <2> QED
    BY <2>1, <2>2, LastIs DEF LastOf
<1>5. ASSUME NEW c \in Ctx, EraseStep(c)
      PROVE  [Log!LogNext]_(Log!logVars)
  <2>1. Log!Erase => Log!LogNext
    BY DEF Log!LogNext
  <2> QED
    BY <1>1, <1>5, <2>1, ErasePageFollows, PagesErasedFollows,
       SetRecordHeaderFollows DEF EraseStep
<1>6. CASE Boot
  BY <1>1, <1>6, BootFollows
<1>7. CASE PowerCycle
  BY <1>7, PowerCycleFollows DEF Log!LogNext
<1>8. CASE UNCHANGED vars
  <2>1. UNCHANGED <<flash, mode, pc, pos, num, lastId>>
    BY <1>8 DEF vars, ram
  <2>2. Stored' = Stored
    BY <2>1, StoredIs
  <2> QED
    BY <1>1, <2>1, <2>2, LastIs
<1> QED
  BY <1>1, <1>2, <1>3, <1>4, <1>5, <1>6, <1>7, <1>8 DEF Next

LEMMA StartsEmpty == Init => Log!LogInit
<1> SUFFICES ASSUME Init PROVE Log!LogInit
  OBVIOUS
<1>1. mode = "boot" /\ flash[0] = Blank
  BY SizesAreNat DEF Init
<1>2. Stored = <<>>
  BY <1>1, NoHeader, StoredIs, StoredNothing
<1> QED
  BY <1>1, <1>2, LastIs DEF Log!LogInit, LastOf, NewestOf

(* The store is the log of RecordLog: a write adds its record in one step,  *)
(* under the next ID; an erase empties the log in one step, wherever power  *)
(* fails in it; a restart keeps every record and adds at most the torn one, *)
(* and takes its IDs up where the log ends.  The store must not hold more   *)
(* records than GetRecord's index reaches.                                  *)
THEOREM StoreFollowsLog == Spec /\ []WithinReach => LogSpec
<1>1. IInv /\ LogInv /\ WithinReach /\ [Next]_vars => [Log!LogNext]_(Log!logVars)
  BY StepFollows
<1> QED
  BY <1>1, StartsEmpty, LogInvariant, PTL DEF Spec, LogSpec, Log!LogSpec

-----------------------------------------------------------------------------
(* What RecordLog promises then holds of the store.                         *)
Abstract == INSTANCE RecordLog_proofs
              WITH Field <- HalfWord, Id <- 0 .. W * W - 1,
                   log <- Stored, last <- StoredLast

LEMMA LogIsWellFormed ==
  /\ Payload \subseteq HalfWord
  /\ 0 .. W * W - 1 \subseteq Nat /\ Capacity \in Nat
  /\ MaxId \in Nat /\ 0 .. MaxId \subseteq 0 .. W * W - 1
<1>1. Capacity \in Nat
  BY SizesAreNat DEF Capacity, RecLen
<1> QED
  BY <1>1, FlashParameters DEF HalfWord

(* The IDs of the stored records increase, and none is ahead of Last_ID,    *)
(* torn records, erases and restarts included: the search of                *)
(* GetRecordIndexById finds the oldest record it may (usr_flash.c 214).     *)
THEOREM StoredIdsGrow == Spec /\ []WithinReach => []StoredIdsIncrease
<1> Abstract!LogParameters
  BY LogIsWellFormed DEF Abstract!LogParameters
<1>1. Abstract!LogSpec => []Abstract!IdsIncrease
  BY Abstract!StoredInOrder, PTL
<1>2. Log!LogInit => Abstract!LogInit
  BY DEF Log!LogInit, Abstract!LogInit
<1>3. [Log!LogNext]_(Log!logVars) => [Abstract!LogNext]_(Abstract!logVars)
  BY DEF Log!LogNext, Abstract!LogNext, Log!logVars, Abstract!logVars,
     Log!Write, Abstract!Write, Log!Erase, Abstract!Erase,
     Log!Restart, Abstract!Restart, Log!HasRoom, Abstract!HasRoom,
     Log!Record, Abstract!Record
<1>4. Abstract!IdsIncrease => StoredIdsIncrease
  BY DEF StoredIdsIncrease, Log!IdsIncrease, Abstract!IdsIncrease
<1> QED
  BY <1>1, <1>2, <1>3, <1>4, StoreFollowsLog, PTL
  DEF LogSpec, Log!LogSpec, Abstract!LogSpec

-----------------------------------------------------------------------------
(* An area that holds no more records than the index reaches needs no such  *)
(* condition: that is the area the model checker runs.                      *)
(*                                                                          *)
(* WM_Record_Num never counts more records than the area holds.             *)
LEMMA NumInArea == Spec => [](Slot(num) < Area)
<1>1. Init => Slot(num) < Area
  BY SizesAreNat DEF Init, Slot, RecLen
<1>2. IInv /\ Slot(num) < Area /\ [Next]_vars => (Slot(num) < Area)'
  <2> SUFFICES ASSUME IInv, Slot(num) < Area, [Next]_vars
               PROVE  Slot(num') < Area
    BY DEF Slot
  <2>1. Slot(0) < Area
    BY SizesAreNat DEF Slot, RecLen
  <2>2. CASE WriteHalfWord
    <3>1. /\ num \in Nat /\ Slot(num) + RecLen < Area
          /\ num' = num \/ num' = num + 1
      BY <2>2 DEF WriteHalfWord, ram, IInv, TypeOK, WritePhase, Fits
    <3> QED
      BY <3>1, SizesAreNat DEF Slot, RecLen
  <2>3. CASE BootPublish
    BY <2>3 DEF BootPublish, IInv, BootPhase, LogAt
  <2>4. CASE ~WriteHalfWord /\ ~BootPublish
    <3>1. num' = num \/ num' = 0
      BY <2>4 DEF Next, Report, RunEnds, Boot, WriteRecord, HostErase,
         EraseRecord, EraseStep, ErasePage, PagesErased, ResetNum,
         SetRecordHeader, BootCheck, BootScan, BootLastId, PowerCycle, Reset, ram, vars
    <3> QED
      BY <2>1, <3>1
  <2> QED
    BY <2>2, <2>3, <2>4
<1> QED
  BY <1>1, <1>2, InductiveInvariant, PTL DEF Spec

(* In such an area the store is the log whatever happens to it.             *)
COROLLARY SmallStoreFollowsLog ==
  ASSUME Capacity <= IndexLimit
  PROVE  Spec => LogSpec /\ []StoredIdsIncrease
<1>1. TypeOK /\ Slot(num) < Area => WithinReach
  <2> SUFFICES ASSUME TypeOK, Slot(num) < Area PROVE num <= IndexLimit
    BY DEF WithinReach
  <2>1. num \in Nat /\ 4 * num <= Area - HdrLen - 1 /\ Area - HdrLen - 1 \in Nat
    BY SizesAreNat DEF TypeOK, Slot, RecLen
  <2>2. num <= Capacity
    BY <2>1 DEF Capacity, RecLen
  <2> QED
    BY <2>1, <2>2, LogIsWellFormed, FlashParameters
<1> QED
  BY <1>1, NumInArea, TypeCorrect, StoreFollowsLog, StoredIdsGrow, PTL
=============================================================================
