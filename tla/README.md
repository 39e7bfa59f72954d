# A verification project for the STM32 watermark box

The program (`src/`) runs on an STM32F107 board. A DSP sends it the bits it
extracts from a broadcast; the board compares them with stored watermarks, keeps
a record of which watermark was heard for how long in its own flash, and hands
the records to a host over a serial line, to TCP clients, and to a web server
through a GSM module. Records must survive power failures and nobody watches the
board, so the record store and what feeds and reads it are the core of the
system, and the core of this project.

## 1. Inventory

| Part | State | Operations | Talks to |
|---|---|---|---|
| Record store (`APP/flash`) | flash pages 0x0803B000..0x0803FFFF; `WMFlag.WM_Record_*` | `Usr_Flash_Init`, `WriteRecord`, `EraseRecord`, `GetRecord`, `GetRecordIndexById` | flash driver; called by everything below |
| Watermark store (`APP/flash`) | flash pages 0x08036000..0x0803AFFF; `WMFlag.WM_Data_*` | `GetWM`, `WriteWM`, `EraseWM` | flash driver |
| Watermark matching (`APP/dsp`) | `g_WMRecord`, `MessageData` | `Handle_Water`, `DSP_Water_Handle` (never called) | stores; reports to serial, TCP, GSM |
| DSP link (`APP/dsp`) | `DSPState`, `MessageData` | `DSP_Start`, `DSP_Stop`, `DSP_ReseveMsg` | USART3 |
| Host console (`APP/usart`) | none | one command byte: start, stop, list, erase | USART2, stores |
| TCP command server (`lwip port/server.c`, `APP/server`) | `gPcb`, `perTemp` | `Server_accept`, `Server_recv`, packet framing | lwIP, stores, DSP link |
| GPRS uploader (`APP/usr_task.c`, `APP/http`) | `Next_Record`, `WMRecord` | `App_GPRSSend` | record store, GSM driver |
| GSM driver (`GSM`) | receive state machine, `Flag_*` | `GSM_COM_ISR`, `GSM_Wait_OK` | USART1 |
| Ethernet driver and port | DMA descriptor rings | receive interrupt, transmit | lwIP |
| Boot, tasks, timers (`main.c`, `BSP`, `usr_task.c`, `netconf.c`) | `LocalTime` | `System_Setup`, `Task_Init`, `App_LWIP` | all |
| uC/OS-II, lwIP, CMSIS, StdPeriph | third party | | |

**Who interrupts whom.** USART2 (host) and USART3 (DSP) have preemption priority
1, Ethernet priority 3 (`BSP/bsp.c` 236-257); tasks are below all. So a serial
interrupt runs to its end without the other, but cuts into TCP commands, boot and
tasks at any instruction. A flash program or erase stalls the core until it is
done, so one half-word and one page are the units at which an interrupt or a power
failure can fall.

**What is hard.** Power failing inside a write, an erase or the recovery of
either; an interrupt's operation nested in another operation on the same area
and the same lock bit; the area running full; 8- and 16-bit counters; a task that
searches, fetches and advances while interrupts write and erase; a serial stream
without delimiters; one packet buffer and one connection pointer shared by
interrupts of two priorities. `PROJECT.json` lists each at its line.

**What makes each part correct.**
*Record store*: what `WriteRecord` accepted is found again after any restart,
until it is erased; an erase is all or nothing; IDs increase; boot ends.
*Matching*: the runs are exactly the maximal blocks of equal halves, and the area holds
them but for the latest once it is full.
*Uploader*: no stored record is passed over and each gets its turn, as far as its index reaches.
*Watermark store*: as the record store, and an erase heals the area.
*DSP link*: messages start where the DSP starts them; a handshake and an overrun
end. *Server*: a client that gets END has all it asked for,
but what there was no memory for; what a time-out can cost in segments is bounded.

## 2. Modules

| Module | Models | State and actions |
|---|---|---|
| `RecordLog` | what the record store promises: an append-only numbered log | `log`, `last`; `Write`, `Erase`, `Restart` |
| `RecordStore` | the record area, half-word by half-word | `flash`, `locked` and `pgerr` (the controller), `address`, `num`, `lastId` (`WMFlag`), and per context `pc`, `pos`, `image`; one action per loop turn of `WriteRecord`, `EraseRecord`, `SetRecordHeader`, `Usr_Flash_Init`; `PowerCycle` at any point |
| `RecordStoreLog` | the refinement mapping from `RecordStore` to `RecordLog` | no state |
| `WatermarkList` | what the watermark store promises: a list that grows, is emptied at once and survives restarts | `list`; `Add`, `Erase`, `Restart` |
| `WatermarkStore` | the watermark area, half-word by half-word, and the refinement of `WatermarkList` | as `RecordStore` with one context; `c` in `WriteHalfWord`, `ErasePage`, `SetWMHeader`: an interrupt's `FLASH_Lock` came just before |
| `BestMatch` | the loop over the stored watermarks, as a recursive function of its turns, and what it is for | no state |
| `WaterMatch` | `Handle_Water`, over `RecordLog` and `WatermarkList` | `run` (`g_WMRecord`), `marks` and `erasing`, `msg`, `pc`; `Receive` compares, then `Continue`, `Turn` or `Silence` for each half; a full area refuses the record (`Flush`) |
| `DspLink` | start, stop and the byte stream of the DSP | `state` (`DSPState`), `led`, `data` and `ready` (`MessageData`), `rx`, `ore`, `tx` (USART3; `tx` holds commands and other bytes of the host), `dsp`, and where the interrupt (`isr`) and what it preempts (`pc`) are |
| `ServerSession` | connections and replies of the TCP server, over `RecordLog` | lwIP's slots (`state`, `queued`, and of slots the timer freed `unsent`, `unacked`, `memerr`), `gPcb`, `perTemp`, and `Server_recv`'s `pc`, `cmd`, `i`, `WMRecord` |
| `GprsUpload` | `App_GPRSSend` and its search, over `RecordLog` | `next`, `i`, `index`, `WMRecord`, `pc`; one action per step at which an interrupt may fall |
| `RecordStore_proofs`, `RecordLog_proofs`, `RecordStoreLog_proofs`, `WatermarkStore_proofs`, `WaterMatch_proofs`, `GprsUpload_proofs`, `DspLink_proofs`, `ServerSession_proofs` | theorems (section 4) | |
| `*MC` | what the small instances keep of the real sizes, as assumptions TLC evaluates | |

`RecordStore` has two contexts. `isr` is the serial interrupts; `base` is what
they preempt: `Usr_Flash_Init` first, TCP commands later. `base` steps only while
`isr` is idle. Three specifications share the actions: `Spec` leaves out the three
callers that can meet an operation of the other context halfway; `SpecTcp` adds
`/eraserecord` over TCP (`TcpErase`); `SpecAll` adds that and what the serial
interrupts can do while `Usr_Flash_Init` runs, for `main` enables them first
(`main.c` 26, 29): the host's erase byte (`HostEraseBoot`), and a run that a streaming
DSP ends once `WM_Data_Num` is set (`ReportBoot`). The last one finds
`WM_Record_Address` still 0, which lies below the area (`address` is negative there);
what is programmed outside the area is not kept, but may flag PGERR.
What a program or erase does is the reference manual's (PM0075):
a locked controller ignores it, a half-word that is not erased takes only 0 and
else raises PGERR, and the driver returns an error while PGERR stands
(`stm32f10x_flash.c` 1514, 1594), for ever, because nothing clears it.

`WaterMatch`, `GprsUpload` and `ServerSession` see the record area as `RecordLog`,
which `RecordStore`'s `Spec` implements. A TCP erase that a record write interrupts
is outside that promise (run `record_store_tcp` shows how it breaks), so these
take erases as whole. They also start with boot done. `WaterMatch` sees the watermark area as `WatermarkList`,
except that the pages of an erase go one by one while `WM_Data_Num` still has its
old value: the interrupt then compares with erased flash.

`WatermarkStore` has one context, for only boot and the TCP server write the area.
What the serial interrupts do to it is to lock the controller: each step may find
that one of them came just before (`c`). The history variable `cut` remembers it
for the operation under way, `clean` until an erase goes through whole. It is also
false once a watermark was stored that reads as erased flash (ID 65535, pattern
beginning 0xFFFF).

`DspLink` knows a byte by its place in the message. Bytes move while the processor
waits, or is held up by output at 9600 baud or a page erase; then the receiver may
overrun, and an overrun may fall between the reads of the status and the data
register. `synced`, `gap`, `missed` and `last` are history variables that say which
of these things happened. A byte of the host that is no command is handed on to the DSP
(`HostForward`).

`ServerSession` takes a call of lwIP as one step and lets pushes of records fall
between calls. A slot of the pool keeps its content when it is freed, which is
what a stale `gPcb` reads. `tcp_write` fails on a full queue (`Refused`) and, at any
time, for want of a segment or of heap (`Starved`): the pool of 12 segments and the
10 KB heap are shared by ten connections, so nothing about one connection says when.
A call that succeeds runs `tcp_output`. On a live connection what that moves is
acknowledged and freed in the end and only `snd_queuelen` matters; on a slot the timer
freed it decides what is lost (`Strand`): the first push goes to `unacked` or stays on
`unsent`, the next ones are chained to a segment there (twelve records of at most 40
bytes fit into one, for any MSS from the usual minimum of 536 up), kept there by Nagle's
rule or the window, or follow to `unacked` when an earlier failure set TF_NAGLEMEMERR.

`GprsUpload` remembers in `beyond` that the area has held more records than `GetRecord`
can index since power-on, and `WaterMatch` in `before` and `since` where the area and
the runs stood at power-on or at its last erase.

## 3. Runs

| Run | Specification | States | Shows |
|---|---|---|---|
| `record_store` | `Spec` | 36,718 | `LogShape`, `Recoverable`, `WriteLands`, `StoredIdsIncrease`; boot faults on no area but a full one (`FaultOnlyWhenFull`); `LogSpec`: the store implements `RecordLog` |
| `record_store_all` | `SpecAll` | 2,060,232 | even with operations nested in a TCP erase or in boot: the lock is closed when all is idle |
| `record_store_full` | `Spec` | violation | at the real alignment a full area makes boot read past the flash |
| `record_store_tcp` | `SpecTcp` | violation | a record written during a TCP erase leaves address and number out of step |
| `record_store_index` | `Spec` | violation | beyond the reach of `int8_t`, boot takes a wrong last ID |
| `watermatch` | `Spec` | 932,875 | each half has the ID of the last of the most similar watermarks within `int8_t`; runs are exactly the blocks heard, in the 16 bits of `FrameNum`; the area holds them in order but for the latest once it is full |
| `watermatch_idle` | `FairSpec` | violation | a run is not written while the DSP is silent |
| `gprs_upload` | `Spec` | 7,819 | never ahead; and until the area has held more records than the index reaches (`beyond`): nothing skipped, everything but the newest posted in the end, and, until an erase, posts are stored records, in order |
| `gprs_upload_again` | `Spec` | violation | the first record is posted twice |
| `watermark_store` | `Spec` | 485,758 | while nothing was cut: `AreaShape`, `Recoverable`, `FollowsList` (the refinement of `WatermarkList`), no error flagged; always: an uncut erase heals, the scan ends in the area |
| `dsp_link` | `Spec` | 358,407 | whole messages after each handshake that took the answer; state, LED and DSP agree unless commands cross; the handshake, an overrun storm and the commands of TCP end |
| `server` | `Spec` | 480,302 | END means that the client has all that there was memory for, in order; a command is answered; segments are lost only by pushing to a timed-out connection, two for each time-out |

**Bounds.** *Record area*: 16 half-words with a header of 3 and pages of 4 hold
up to three records that straddle page borders, and are one half-word over as the
real area is (10240 = 7 + 4 n + 1); `W = 4` so that IDs use and carry into their
high half and a field can hold the erased value, and `MaxId` above the number of
records that fit, so that several erases and restarts happen within it. `MaxId` also
means that the 32-bit ID is never near its end: an ID torn to 0xFFFFxxxx and the wrap to 0
it leads to after 2^16 more records are outside every property.
*WaterMatch*: four halves are two messages, enough for a run to begin in either
half, cross a message border and end; `FrameMod = 6` wraps the count to exactly
zero after three halves (really 16384), which is where a run is lost. The area
holds one record, so that the next run is refused. Lists of
three watermarks of two bits, of which one must agree (80 of 96), hold ties
between different IDs and one watermark more than the index reaches.
*WatermarkStore*: two pages and three watermarks, one across the page border, and
one half-word less than a fourth left over, as in the real area (10240 = 7 + 7 n +
6); one of the three marks offered has the erased ID, one reads as erased.
*DspLink*: messages of two bytes: a cut falls before, inside or behind one; at
most two bytes are on their way at a time (the transmitter's two registers), and
a byte that is no command only when nothing else is.
*ServerSession*: one slot (really 10), which is closed, reset, timed out, killed and
reused, and to which records are pushed at any time, while it answers and after it is
gone; a second slot multiplies the states beyond what the liveness check can take, and
what the two could do to each other is left to the proofs, which hold for any pool. A
queue of four (really 12), one place more than an answer of two records and END needs, an
area of three records of which the index reaches two, two timeouts and a push that finds
no memory: a timed-out slot takes up to three pushes, one more than two segments need.
*GprsUpload*: five records, two more than the index reaches, and torn IDs beyond `MaxId`,
more records than fit over the life of the board, so that the uploader meets erases at
every step. The assumptions in
the MC modules tie these choices to the real sizes.

**Fairness.** `GprsUpload`: weak fairness of the task. It has the lowest priority,
but the tasks above it sleep for a second in each turn and interrupts end, and the
modem calls it makes only transmit and sleep. `EventuallyPosted` asks nothing of a
board that restarts for ever (`StaysUp`). `DspLink`: weak fairness of the USART3
interrupt and of what holds the processor up, which ends; strong fairness of the
code below the interrupts, which runs again and again between bytes (87
microseconds apart) but not continuously, and of the UARTs and the DSP, which shift
whenever the processor lets them. `StormEnds` and `BaseFinishes` except the storm
that a stopped DSP leaves behind: there the board hangs. `ServerSession`: weak
fairness of `Server_recv`, which runs whenever no serial interrupt does.
`WaterMatch`'s `FairSpec`: weak fairness
of `App_LWIP`'s loop, which delays one second per turn, and of an interrupt that
has begun. `RecordStore` needs none: it states safety only.

## 4. Proofs

Every theorem holds for every value of the constants that satisfies the `ASSUME` of
its module. Every safety property of the passing runs, invariant or action property,
is stated by a theorem. A few hold under a hypothesis:

| Property | Theorem | Hypothesis besides the constants' |
|---|---|---|
| `TypeOK` of each module | `TypeCorrect` (`TypeCorrectAll` for `SpecAll`) | |
| `RecordStore`: `LogShape`, `Recoverable`, `WriteLands`, `FaultOnlyWhenFull` | `LogShapeHolds`, `AlwaysRecoverable`, `WritesLand`, `FaultsOnlyWhenFull` | |
| `RecordStore` under `SpecAll`: `LockedWhenIdle` | `IdleIsLocked` | |
| `RecordStoreLog`: `LogSpec`, `StoredIdsIncrease` | `StoreFollowsLog`, `StoredIdsGrow` | `[](num <= IndexLimit)` |
| `WatermarkStore`: `EraseHeals` | `UncutEraseHeals` | |
| `WatermarkStore`: `ScanEnds`, `AreaShape`, `Recoverable`, `NoErrorWhileClean`, `FollowsList` | `ScanStaysInArea`, `AreaShapeHolds`, `AlwaysRecoverable`, `NoErrorFlagged`, `StoreFollowsList` | `RoomLeft` |
| `WaterMatch`: `RunsAreBlocks`, `RunsStored` | `BlocksAreRecorded`, `RunsAreStored` | |
| `WaterMatch`: `MatchIsBest` | `BestIsTaken` | `[](Len(marks) <= 2 * IndexLimit)` |
| `DspLink`: `WholeMessages`, `CommandsAgree` | `MessagesAreWhole`, `LinkAgrees` | |
| `ServerSession`: `LeaksBounded`, `EndMeansAll` | `LeaksAreBounded`, `EndIsTheEnd` | |
| `GprsUpload`: `NeverAhead`, `NoSkips`, `PostsFollowLog` | `NeverOvertakes`, `NothingSkipped`, `PostsAreStored` | |

`RecordLog` has one of its own, `StoredInOrder`: the IDs of the abstract log increase.

**The hypotheses.** `GetRecord` and `GetWM` take an `int8_t`, so a search reaches 128
of the 2558 records the area holds (`IndexLimit` is 128 on the board). That no more are
stored at once is a condition on the behaviour, not on the constants. `NoSkips`,
`PostsFollowLog` and `EventuallyPosted` (`~beyond`) and `EndMeansAll`
(`Len(log) <= IndexLimit`) have it in the property, and their theorems speak of areas of
any size; `StoreFollowsLog` and `StoredIdsGrow` have it as hypothesis (`WithinReach`).
What happens beyond is run `record_store_index` and a hazard of its own. The matching loop needs less: the indexes 128 to 255 are refused and the last
watermark is compared again, which changes nothing, so up to 256 watermarks
(`WithinIndex`) give the right answer among the first 128; the 257th is index 0 again.
1461 fit. Corollaries drop the two hypotheses for areas
that small, which are those of the runs `record_store` and `watermatch`. `RoomLeft`, `(Area - HdrLen) % WmLen # 1`, is
true of the board (10240, 7 and 7 leave 6); in the other case boot would fault on a
full area as it does for records (`NoFaultUnlessOneShort`: `[]NoFault` for records
when `(Area - HdrLen) % RecLen # 1`, which is not so on the board).

**The arguments.** None of these properties is inductive; each proof has an invariant
that says more, one lemma per action that keeps it, and a theorem that combines them
by PTL.

- `RecordStore_proofs`. What flash holds depends on how far an operation has come, so
  `IInv` says it for each place of the program counter: `WritePhase` (a prefix of the
  image has been programmed at `address`, erased flash behind), `ErasePhase` (pages
  before `pos` are erased; only the first makes the header go), `ResetPhase`,
  `HeaderPhase`, `BootPhase` (the records before the scan address are used).
  With nested operations none of that holds. `AllInv` keeps what does: a write has its
  image (`Writing`), a header loop its own (`HeaderLoop`); the boot scan stays in the area,
  so an ID it reads is one of the area, whatever an interrupt does to `num` meanwhile
  (`Scanned`); and while the lock is open somebody who will close it is in an operation
  (`LockHeld`). Nothing is claimed about `address`: during boot a write may go to 0.
- `RecordStoreLog_proofs`. The mapped log is written as a function of flash, number and
  place (`StoredOf`): a step that programs behind the last record or erases a page after
  the header is gone leaves it alone; one that completes a record, erases the header, or
  tears either by power failure is a `Write`, an `Erase` or a `Restart`. It needs to
  know what an unfinished write was asked for (`Asked`). `StoredIdsIncrease` follows from
  the refinement and `RecordLog`'s own invariant, which is what an abstract
  specification is for.
- `RecordLog_proofs`. A torn record's ID exceeds the last one.
- `WatermarkStore_proofs`. `BInv` is what survives a cut command (a write has room; what
  is behind `address` and what an erase has passed is erased); `CleanInv` describes the
  flash for each place of the program counter, only while `clean`. The refinement is laid
  out as for records.
- `WaterMatch_proofs`. The runs written are described by the positions in `heard` at
  which their blocks begin: `Past` for blocks that have ended, `Present` for the one at
  the end of what was heard, which is the open run. A half either extends the block at
  the end (`Continued`, `GrowingBlock`) or ends it (`Closing`, `Ended`), and blocks that
  have ended are those of the longer sequence (`EndedBlock`, `EndingBlock`). The count is
  a multiple of `Mul` modulo `FrameMod` (`MulStep`). `RunsStored` follows the area and the
  runs from `before` and `since` on: while a run has been refused the area is full, and it
  stays so until it is erased. For `MatchIsBest`, `Turns` is first
  shown to be a function that satisfies its own recursion (`LoopExists`: otherwise there
  is a least number of turns without one), then `Found` is kept by each turn: the loop
  holds the last most similar of the watermarks it has reached.
- `DspLink_proofs`. `Stream` ties the bytes counted so far, the receiver and the DSP's
  next byte together while `synced`; `Agree` says where a command under way has got to, with
  other bytes of the host behind it or not.
- `GprsUpload_proofs`. For `NoSkips` the task may be about to advance over a record that
  it has not posted; `Followed` says it is not: from the search to the post, the record
  that is due is the one `i`, `index` or `WMRecord` stands for, or it has been erased.
  For `PostsFollowLog`, until an erase (`PInv`) what the search has found is the oldest
  record with that ID or a newer one, and stays it while writes append.
- `ServerSession_proofs`. `LeaksBounded` needs to know what a gone slot can still take:
  `Room` counts a segment on `unsent` and one on `unacked` where there is none, and one
  more where TF_NAGLEMEMERR lets a segment follow to `unacked`. `LeakInv`: leaked segments
  and that room never exceed two per timeout and one per push that found no memory, and
  leaked segments and the places left in the queue never exceed `QueueLen - 1` per
  timeout. For `EndMeansAll`, `Answering(f)` says for each place of `Server_recv` which of
  the records behind the `f`-th have been sent or found no memory, where the queue being
  full excuses what is missing.

**Only model-checked.** The liveness properties (`EventuallyPosted`, `StartAnswered`,
`StormEnds`, `BaseFinishes`, `ReplyEnds`), which are out of the prover's reach, as is
everything that turns on ENABLED. Induction over data is out of reach too where the
library states it with an operator as parameter; where a proof needs it (`LoopExists`,
`TurnsFound`, the search in `ServerSession`) it takes the least counterexample instead,
by `LeastNat`, proved in `RecordLog_proofs` from the well-founded order of finite sets.

## 5. What the code does otherwise than it says

`PROJECT.json` "findings" has the five violation runs with the lines they
contradict. Two belong together in the field: a full area faults at the next boot,
and well before it is full (128 of 2558 records) the IDs go wrong after a restart.

## 6. Not modelled, and the plan

Left out for good:

- text formatting and URL decoding, pin and clock set-up, the unused lwIP examples;
- the vendored kernel, stack, libraries and peripheral drivers, which are nearly all
  of the repository's lines, but for what the program's own behaviour turns on: the
  flash driver, the USART's two registers, and of lwIP the life of a connection
  slot, `tcp_write` and `tcp_close`. Two contexts inside lwIP at once is undefined
  (`rawapi.txt` 30-35);
- the GSM receiver: nothing that runs consumes what it parses;
- the Ethernet driver: its behaviour is the DMA engine's, which the repository does
  not describe.

Left for later:

1. Proofs: that the specifications of `WaterMatch`, `GprsUpload` and `ServerSession`
   keep their promises over the half-word stores, by composing the refinements already
   proved; what the matching loop gives beyond 256 watermarks.
2. A record written while the TCP server writes or erases watermarks, with both
   areas in one module: `WatermarkStore` shows what the lock does to the watermark,
   `RecordStore` what it does to the record area, neither both at once.
3. `ServerSession` with more than one reply in flight and the client's side, its own
   copy of the log over several `/updrecord`.
