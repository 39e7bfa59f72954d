----------------------------- MODULE GprsUpload -----------------------------
(***************************************************************************)
(* App_GPRSSend (APP/usr_task.c): the lowest-priority task, which posts    *)
(* stored records to the web server over the GSM module.  It keeps only    *)
(* Next_Record.Record_ID, in RAM, and searches the record area afresh for  *)
(* each post.                                                              *)
(*                                                                         *)
(* Records are written and erased by interrupts, so each such operation is *)
(* atomic here (RecordStore shows that it may be seen so) and falls        *)
(* between any two steps of the task.  GPRS_TCP_Connet, GSM_GPRS_SEND and  *)
(* GRRS_TCP_Close tell the task nothing of what became of a post: "posted" *)
(* means handed to the modem.                                              *)
(***************************************************************************)
EXTENDS RecordLog, SequencesExt

CONSTANTS
  Blank,       \* the ID in erased flash, 0xFFFFFFFF
  IndexLimit,  \* GetRecord's int8_t index holds -IndexLimit..IndexLimit-1
  Unset        \* WMRecord before GetRecord first fills it (stack contents)

ASSUME UploadParameters ==
  /\ IndexLimit \in Nat \ {0}
  /\ Blank \in Nat /\ \A id \in Id : id < Blank
  /\ Unset \notin Nat

VARIABLES
  next,        \* Next_Record.Record_ID
  pc,          \* where App_GPRSSend is
  i,           \* GetRecordIndexById's loop variable
  index,       \* its result, -1 for none
  WMRecord,    \* the ID of App_GPRSSend's local record, for the whole of it
  posts,       \* history: the IDs posted since power-on, in order
  erased,      \* history: whether the area was erased since power-on
  beyond       \* history: since power-on, the area has held more records than
               \* an int8_t indexes

task == <<next, pc, i, index, WMRecord, posts>>
history == <<erased, beyond>>
vars == <<logVars, task, history>>

TypeOK ==
  /\ LogTypeOK
  /\ next \in 0 .. Blank - 1
  /\ pc \in {"look", "test", "read", "fetch", "post", "advance"}
  /\ i \in 0 .. Capacity /\ index \in -1 .. Capacity
  /\ WMRecord \in Id \cup {Blank, Unset}
  /\ posts \in Seq(Id \cup {Blank, Unset})
  /\ erased \in BOOLEAN /\ beyond \in BOOLEAN

Init ==
  /\ LogInit
  /\ next = 0 /\ pc = "look" /\ i = 0 /\ index = -1
  /\ WMRecord = Unset /\ posts = <<>>
  /\ erased = FALSE /\ beyond = FALSE

-----------------------------------------------------------------------------
Int8(n) == ((n + IndexLimit) % (2 * IndexLimit)) - IndexLimit

(* GetRecord: nothing is copied for an index it rejects.  The index after   *)
(* the last record passes, and reads erased flash.                          *)
Rejected(n)   == n > Len(log) \/ n < 0
GetRecord(n)  == IF n = Len(log) THEN Blank ELSE log[n + 1].id

(* The outer and the inner while: nothing new means a heartbeat, and the    *)
(* loop comes round after a second.  GetRecordIndexById is entered only     *)
(* with Next_Record below Last_ID, which never falls: its first test fails. *)
LookTwoBehind ==             \* mutant: one record too early is enough
  /\ pc = "look" /\ next + 1 < last
  /\ pc' = "test" /\ i' = 0
  /\ UNCHANGED <<logVars, history, next, index, WMRecord, posts>>

Look ==
  /\ pc = "look" /\ next < last
  /\ pc' = "test" /\ i' = 0
  /\ UNCHANGED <<logVars, history, next, index, WMRecord, posts>>

(* GetRecordIndexById: the loop's test, then its body.  For a rejected      *)
(* index the local record is the one of the turn before, already refused.   *)
TestIndex ==
  /\ pc = "test"
  /\ IF i < Len(log) THEN pc' = "read" /\ UNCHANGED index
                     ELSE pc' = "fetch" /\ index' = -1
  /\ UNCHANGED <<logVars, history, next, i, WMRecord, posts>>

(* Mutant: the search is for a record newer than Next_Record. *)
ReadNewer ==
  /\ pc = "read"
  /\ IF ~Rejected(Int8(i)) /\ GetRecord(Int8(i)) > next + 1
     THEN pc' = "fetch" /\ index' = i /\ UNCHANGED i
     ELSE pc' = "test" /\ i' = i + 1 /\ UNCHANGED index
  /\ UNCHANGED <<logVars, history, next, WMRecord, posts>>

ReadIndex ==
  /\ pc = "read"
  /\ IF ~Rejected(Int8(i)) /\ GetRecord(Int8(i)) >= next
     THEN pc' = "fetch" /\ index' = i /\ UNCHANGED i
     ELSE pc' = "test" /\ i' = i + 1 /\ UNCHANGED index
  /\ UNCHANGED <<logVars, history, next, WMRecord, posts>>

(* GetRecord(&WMRecord, index), its result ignored.  The index passes       *)
(* through a uint8_t into GetRecord's int8_t.                               *)
Fetch ==
  /\ pc = "fetch"
  /\ WMRecord' = IF Rejected(Int8(index)) THEN WMRecord
                                          ELSE GetRecord(Int8(index))
  /\ pc' = "post"
  /\ UNCHANGED <<logVars, history, next, i, index, posts>>

(* GSM_Post_Record and GSM_GPRS_SEND. *)
Post ==
  /\ pc = "post"
  /\ posts' = Append(posts, WMRecord)
  /\ pc' = "advance"
  /\ UNCHANGED <<logVars, history, next, i, index, WMRecord>>

(* Mutants: Next_Record jumps to the newest record, or moves by two.        *)
AdvanceToLast ==
  /\ pc = "advance"
  /\ next' = last /\ pc' = "look"
  /\ UNCHANGED <<logVars, history, i, index, WMRecord, posts>>

AdvanceTwice ==
  /\ pc = "advance"
  /\ next' = next + 2 /\ pc' = "look"
  /\ UNCHANGED <<logVars, history, i, index, WMRecord, posts>>

Advance ==
  /\ pc = "advance"
  /\ next' = next + 1 /\ pc' = "look"
  /\ UNCHANGED <<logVars, history, i, index, WMRecord, posts>>

App_GPRSSend == Look \/ TestIndex \/ ReadIndex \/ Fetch \/ Post \/ Advance

-----------------------------------------------------------------------------
(* What the interrupts do to the record area. *)
WriteRecord ==
  /\ \E wm, frames \in Payload : Write(wm, frames)
  /\ beyond' = (beyond \/ Len(log') > IndexLimit)
  /\ UNCHANGED <<task, erased>>

EraseRecord ==
  /\ Erase /\ erased' = TRUE
  /\ UNCHANGED <<task, beyond>>

(* Next_Record and the task start afresh; the area may gain a torn record.  *)
PowerCycle ==
  /\ Restart
  /\ next' = 0 /\ pc' = "look" /\ i' = 0 /\ index' = -1
  /\ WMRecord' = Unset /\ posts' = <<>>
  /\ erased' = FALSE /\ beyond' = (Len(log') > IndexLimit)

Next == App_GPRSSend \/ WriteRecord \/ EraseRecord \/ PowerCycle

(* The tasks above this one sleep a second at a time and interrupts end, so *)
(* the task runs whenever it can; the modem calls it makes only transmit    *)
(* and sleep for a fixed time, so each of them returns.                     *)
Spec == Init /\ [][Next]_vars /\ WF_vars(App_GPRSSend)

-----------------------------------------------------------------------------
(* No stored record is passed over: one whose ID Next_Record has gone past  *)
(* has been posted since power-on, whatever was erased or written between   *)
(* the search, the fetch and the post (usr_task.c 74 to 81).  This holds of *)
(* a board whose area has not held more records than an int8_t indexes (128 *)
(* of 2558) since power-on; beyond that GetRecord refuses the index and the *)
(* record posted before goes out once more in place of the one due.         *)
NoSkips ==
  ~beyond =>
    \A k \in DOMAIN log : log[k].id < next => log[k].id \in ToSet(posts)

(* Next_Record never overtakes WM_Record_Last_ID, even though the two are   *)
(* read and advanced with any number of writes and erases in between: the   *)
(* inner while ends exactly when they are equal.                            *)
NeverAhead == next <= last

(* Until somebody erases, what the task posts for each value n of           *)
(* Next_Record is the oldest stored record with an ID of at least n: the    *)
(* posts are in order, and each is a record of the log, never the contents  *)
(* of the stack or of erased flash.  Again while the index reaches them all.*)
PostsFollowLog ==
  ~erased /\ ~beyond => \A n \in DOMAIN posts :
    \E k \in DOMAIN log :
      /\ posts[n] = log[k].id /\ log[k].id >= n - 1
      /\ \A j \in 1 .. k - 1 : log[j].id < n - 1

(* If from some time on the board stays up, every stored record but the     *)
(* newest is posted in the end or erased, or the area comes to hold more    *)
(* records than an int8_t indexes.                                          *)
StaysUp == <>[][~PowerCycle]_vars
Waiting(id) == id < last /\ \E k \in DOMAIN log : log[k].id = id
Settled(id) == \/ id \in ToSet(posts)
               \/ \A k \in DOMAIN log : log[k].id # id
EventuallyPosted ==
  StaysUp => \A id \in Id : Waiting(id) ~> Settled(id) \/ beyond

(* Next_Record is the record to be sent next (usr_task.c 14), so when the   *)
(* task turns to it, it has not been sent yet.                              *)
NextNotSent == pc = "look" /\ next < last => next \notin ToSet(posts)
=============================================================================
