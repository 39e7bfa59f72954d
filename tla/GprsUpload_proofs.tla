-------------------------- MODULE GprsUpload_proofs ---------------------------
(* Theorems about GprsUpload, for every size of the log and every choice of *)
(* payloads and torn IDs, whatever is written, erased or restarted between  *)
(* the steps of App_GPRSSend.                                               *)
EXTENDS GprsUpload, RecordLog_proofs

-----------------------------------------------------------------------------
(* The task sees the record area as RecordLog.                              *)

LEMMA LogStep ==
  ASSUME IInv, [Next]_vars
  PROVE  IInv'
<1>1. CASE UNCHANGED logVars
  BY <1>1 DEF IInv, logVars, LogTypeOK, IdsIncrease
<1>2. CASE WriteRecord
  BY <1>2, WriteIInv DEF WriteRecord
<1>3. CASE EraseRecord
  BY <1>3, EraseIInv DEF EraseRecord
<1>4. CASE PowerCycle
  BY <1>4, RestartIInv DEF PowerCycle
<1> QED
  BY <1>1, <1>2, <1>3, <1>4 DEF Next, vars, App_GPRSSend, Look, TestIndex,
     ReadIndex, Fetch, Post, Advance

LEMMA LogFacts ==
  ASSUME IInv
  PROVE  /\ log \in Seq(Record) /\ Len(log) \in Nat /\ DOMAIN log = 1 .. Len(log)
         /\ last \in Nat /\ last \in Id /\ last < Blank
         /\ \A k \in 1 .. Len(log) : /\ log[k].id \in Nat /\ log[k].id \in Id
                                     /\ log[k].id <= last
         /\ \A j, k \in 1 .. Len(log) : j < k => log[j].id < log[k].id
<1>1. log \in Seq(Record) /\ last \in Id /\ Id \subseteq Nat
  BY LogParameters DEF IInv, LogTypeOK
<1>2. \A k \in 1 .. Len(log) : log[k] \in Record
  BY <1>1
<1>3. \A k \in 1 .. Len(log) : log[k].id \in Id
  BY <1>2 DEF Record
<1>4. Len(log) \in Nat /\ DOMAIN log = 1 .. Len(log)
  BY <1>1
<1>5. last \in Nat /\ last < Blank
  BY <1>1, UploadParameters
<1>6. \A k \in 1 .. Len(log) : log[k].id \in Nat
  BY <1>1, <1>3
<1>7. /\ \A k \in 1 .. Len(log) : log[k].id <= last
      /\ \A j, k \in 1 .. Len(log) : j < k => log[j].id < log[k].id
  BY DEF IInv, IdsIncrease
<1> QED
  BY <1>1, <1>3, <1>4, <1>5, <1>6, <1>7

(* What the interrupts leave in the log: the entries it had, or none, and   *)
(* entries newer than any before.                                           *)
LEMMA LogGrows ==
  ASSUME IInv, WriteRecord
  PROVE  /\ Len(log') = Len(log) + 1 /\ Len(log) < Capacity /\ last' = last + 1
         /\ \A k \in 1 .. Len(log) : log'[k] = log[k]
         /\ log'[Len(log) + 1].id = last + 1
<1>1. PICK wm \in Payload, frames \in Payload : Write(wm, frames)
  BY DEF WriteRecord
<1>2. log \in Seq(Record)
  BY LogFacts
<1> QED
  BY <1>1, <1>2 DEF Write, HasRoom

-----------------------------------------------------------------------------
(* Types, and where Next_Record is.                                         *)

(* The index reaches every stored record: at most 128 in an int8_t.         *)
WithinReach == Len(log) <= IndexLimit

UInv ==
  /\ IInv /\ Len(log) <= Capacity
  /\ next \in Nat /\ next <= last
  /\ pc \in {"look", "test", "read", "fetch", "post", "advance"}
  /\ pc # "look" => next < last
  /\ i \in 0 .. Capacity /\ (pc = "read" => i < Capacity)
  /\ index \in -1 .. Capacity
  /\ WMRecord \in Id \cup {Blank, Unset}
  /\ posts \in Seq(Id \cup {Blank, Unset})
  /\ erased \in BOOLEAN /\ beyond \in BOOLEAN
  /\ ~beyond => WithinReach

LEMMA InitUInv == Init => UInv
<1> SUFFICES ASSUME Init PROVE UInv
  OBVIOUS
<1>1. IInv
  BY InitIInv DEF Init
<1>2. << >> \in Seq(Id \cup {Blank, Unset})
  OBVIOUS
<1>3. Len(log) <= Capacity /\ 0 \in 0 .. Capacity /\ -1 \in -1 .. Capacity
  BY LogParameters DEF Init, LogInit
<1>4. next \in Nat /\ next <= last
  BY DEF Init, LogInit
<1>5. WithinReach
  BY UploadParameters DEF Init, LogInit, WithinReach
<1> QED
  BY <1>1, <1>2, <1>3, <1>4, <1>5 DEF Init, UInv

(* GetRecord's answer for an index it accepts. *)
LEMMA RecordRead ==
  ASSUME IInv, NEW n \in Int, ~Rejected(n)
  PROVE  /\ n \in 0 .. Len(log) /\ GetRecord(n) \in Id \cup {Blank}
         /\ n < Len(log) => GetRecord(n) = log[n + 1].id /\ n + 1 \in 1 .. Len(log)
<1>0. Len(log) \in Nat
  BY LogFacts
<1>1. n \in 0 .. Len(log)
  BY <1>0 DEF Rejected
<1>2. CASE n = Len(log)
  BY <1>1, <1>2 DEF GetRecord
<1>3. CASE n # Len(log)
  <2>1. n + 1 \in 1 .. Len(log)
    BY <1>0, <1>1, <1>3
  <2> QED
    BY <1>1, <1>3, <2>1, LogFacts DEF GetRecord
<1> QED
  BY <1>1, <1>2, <1>3

LEMMA Int8Type ==
  ASSUME NEW n \in Int
  PROVE  Int8(n) \in Int
BY UploadParameters DEF Int8

(* The history remembers when the index no longer reached them all.         *)
LEMMA BeyondStep ==
  ASSUME UInv, [Next]_vars
  PROVE  /\ beyond' \in BOOLEAN /\ (~beyond' => WithinReach')
         /\ PowerCycle \/ (beyond => beyond')
<1>1. Len(log) \in Nat /\ Len(log') \in Nat /\ IndexLimit \in Nat
      /\ beyond \in BOOLEAN /\ (~beyond => WithinReach)
  BY LogStep, LogFacts, UploadParameters DEF UInv
<1>2. CASE UNCHANGED <<log, beyond>>
  BY <1>1, <1>2, Zenon DEF WithinReach
<1>3. CASE WriteRecord
  <2>1. beyond' = (beyond \/ Len(log') > IndexLimit)
    BY <1>3 DEF WriteRecord
  <2>2. beyond' \in BOOLEAN /\ (beyond => beyond')
    BY <2>1, Zenon
  <2>3. ~beyond' => ~(Len(log') > IndexLimit)
    BY <2>1, Zenon
  <2> QED
    BY <1>1, <2>2, <2>3 DEF WithinReach
<1>4. CASE EraseRecord
  <2>1. beyond' = beyond /\ Len(log') <= IndexLimit
    BY <1>1, <1>4 DEF EraseRecord, Erase
  <2> QED
    BY <1>1, <2>1 DEF WithinReach
<1>5. CASE PowerCycle
  <2>1. beyond' = (Len(log') > IndexLimit)
    BY <1>5 DEF PowerCycle
  <2>2. beyond' \in BOOLEAN /\ (~beyond' => ~(Len(log') > IndexLimit))
    <3>1. (Len(log') > IndexLimit) \in BOOLEAN
      BY <1>1
    <3>2. beyond' \in BOOLEAN
      BY <2>1, <3>1, Zenon
    <3>3. ~beyond' => ~(Len(log') > IndexLimit)
      BY <2>1, Zenon
    <3> QED
      BY <3>2, <3>3
  <2> QED
    BY <1>1, <1>5, <2>2 DEF WithinReach
<1> QED
  BY <1>2, <1>3, <1>4, <1>5 DEF Next, vars, App_GPRSSend, Look, TestIndex,
     ReadIndex, Fetch, Post, Advance, logVars, history

LEMMA NextUInv == UInv /\ [Next]_vars => UInv'
<1> SUFFICES ASSUME UInv, [Next]_vars PROVE UInv'
  OBVIOUS
<1>1. IInv /\ IInv' /\ Capacity \in Nat /\ beyond' \in BOOLEAN
      /\ (~beyond' => WithinReach')
  BY LogStep, BeyondStep, LogParameters DEF UInv
<1>2. CASE Look
  BY <1>1, <1>2, LogFacts DEF UInv, Look, logVars, history
<1>3. CASE TestIndex
  <2>1. Len(log) \in Nat
    BY <1>1, LogFacts
  <2> QED
    BY <1>1, <1>3, <2>1 DEF UInv, TestIndex, logVars, history
<1>4. CASE ReadIndex
  BY <1>1, <1>4 DEF UInv, ReadIndex, logVars, history
<1>5. CASE Fetch
  <2>1. index \in Int
    BY <1>1 DEF UInv
  <2>2. WMRecord' \in Id \cup {Blank, Unset}
    BY <1>1, <1>5, <2>1, Int8Type, RecordRead DEF UInv, Fetch
  <2> QED
    BY <1>1, <1>5, <2>2 DEF UInv, Fetch, logVars, history
<1>6. CASE Post
  <2>1. posts' \in Seq(Id \cup {Blank, Unset})
    BY <1>6 DEF UInv, Post
  <2> QED
    BY <1>1, <1>6, <2>1 DEF UInv, Post, logVars, history
<1>7. CASE Advance
  <2>1. next + 1 <= last /\ next + 1 \in Nat
    BY <1>1, <1>7, LogFacts DEF UInv, Advance
  <2> QED
    BY <1>1, <1>7, <2>1 DEF UInv, Advance, logVars, history
<1>8. CASE WriteRecord
  <2>1. Len(log') = Len(log) + 1 /\ Len(log) < Capacity /\ last' = last + 1
        /\ Len(log) \in Nat /\ last \in Nat
    BY <1>1, <1>8, LogGrows, LogFacts
  <2>2. Len(log') <= Capacity /\ next <= last' /\ (pc # "look" => next < last')
    BY <1>1, <2>1 DEF UInv
  <2> QED
    BY <1>1, <1>8, <2>2 DEF UInv, WriteRecord, task
<1>9. CASE EraseRecord
  BY <1>1, <1>9 DEF UInv, EraseRecord, Erase, task
<1>10. CASE PowerCycle
  <2>1. Len(log') <= Capacity
    BY <1>1, <1>10, LogFacts DEF UInv, PowerCycle, Restart, HasRoom
  <2>2. last' \in Nat
    BY <1>1, LogParameters DEF IInv, LogTypeOK
  <2>3. << >> \in Seq(Id \cup {Blank, Unset})
    OBVIOUS
  <2>4. 0 \in 0 .. Capacity /\ -1 \in -1 .. Capacity /\ 0 <= last'
    BY <1>1, <2>2
  <2> QED
    BY <1>1, <1>10, <2>1, <2>2, <2>3, <2>4 DEF UInv, PowerCycle
<1>11. CASE UNCHANGED vars
  BY <1>1, <1>11 DEF UInv, vars, task, logVars, history
<1> QED
  BY <1>2, <1>3, <1>4, <1>5, <1>6, <1>7, <1>8, <1>9, <1>10, <1>11
  DEF Next, App_GPRSSend

LEMMA UInductive == Spec => []UInv
<1> QED
  BY InitUInv, NextUInv, PTL DEF Spec

(* The variables keep their types: above all the index stays within the     *)
(* area, and Next_Record below the ID of erased flash.                      *)
THEOREM TypeCorrect == Spec => []TypeOK
<1>1. UInv => TypeOK
  <2> SUFFICES ASSUME UInv PROVE TypeOK
    OBVIOUS
  <2>1. last \in Nat /\ last < Blank /\ Blank \in Nat
    BY LogFacts, UploadParameters DEF UInv
  <2>2. next \in 0 .. Blank - 1
    BY <2>1 DEF UInv
  <2> QED
    BY <2>2 DEF UInv, TypeOK, IInv
<1> QED
  BY <1>1, UInductive, PTL

(* Next_Record never overtakes WM_Record_Last_ID (usr_task.c 72, 81).       *)
THEOREM NeverOvertakes == Spec => []NeverAhead
<1>1. UInv => NeverAhead
  BY DEF UInv, NeverAhead
<1> QED
  BY <1>1, UInductive, PTL

-----------------------------------------------------------------------------
(***************************************************************************)
(* No record is passed over: follow the stored record with the ID           *)
(* Next_Record, if there is one, from the search to the post.               *)
(***************************************************************************)

Due(k) == k \in 1 .. Len(log) /\ log[k].id = next

Followed ==
  /\ pc \in {"test", "read"} => \A k \in Nat : Due(k) => i < k
  /\ pc = "fetch"            => \A k \in Nat : Due(k) => index = k - 1
  /\ pc = "post"             => \A k \in Nat : Due(k) => WMRecord = next
  /\ pc = "advance"          => \A k \in Nat : Due(k) => next \in ToSet(posts)

AllPosted == \A k \in DOMAIN log : log[k].id < next => log[k].id \in ToSet(posts)

SInv == UInv /\ (~beyond => AllPosted /\ Followed)

LEMMA Int8InReach ==
  ASSUME NEW n \in Nat, n < IndexLimit
  PROVE  Int8(n) = n
<1>1. IndexLimit \in Nat /\ IndexLimit > 0
  BY UploadParameters
<1>2. n + IndexLimit \in 0 .. 2 * IndexLimit - 1
  BY <1>1
<1>3. (n + IndexLimit) % (2 * IndexLimit) = n + IndexLimit
  BY <1>1, <1>2
<1> QED
  BY <1>1, <1>3 DEF Int8

(* GetRecord of a stored record's index answers with it.                    *)
LEMMA ReadsStored ==
  ASSUME ~beyond, UInv, NEW n \in Nat, n < Len(log)
  PROVE  Int8(n) = n /\ ~Rejected(Int8(n)) /\ GetRecord(Int8(n)) = log[n + 1].id
<1>1. Len(log) \in Nat /\ IndexLimit \in Nat /\ Len(log) <= IndexLimit
  BY LogFacts, UploadParameters DEF UInv, WithinReach
<1>2. Int8(n) = n
  BY <1>1, Int8InReach
<1>3. ~Rejected(n)
  BY <1>1 DEF Rejected
<1>4. GetRecord(n) = log[n + 1].id
  BY <1>1, <1>3, RecordRead DEF UInv
<1> QED
  BY <1>2, <1>3, <1>4

LEMMA InitSInv == Init => SInv
<1> SUFFICES ASSUME Init PROVE SInv
  OBVIOUS
<1>1. UInv
  BY InitUInv
<1>2. AllPosted
  BY DEF Init, LogInit, AllPosted
<1> QED
  BY <1>1, <1>2 DEF SInv, Followed, Init

(* Steps that leave the log, Next_Record and the posts alone.               *)
LEMMA AllPostedKept ==
  ASSUME AllPosted, UNCHANGED <<log, next, posts>>
  PROVE  AllPosted'
BY DEF AllPosted, ToSet

LEMMA ReadIndexFollows ==
  ASSUME ~beyond, SInv, ReadIndex
  PROVE  Followed'
<1>1. /\ UInv /\ IInv /\ pc = "read" /\ i \in Nat /\ next \in Nat
      /\ \A k \in Nat : Due(k) => i < k
      /\ UNCHANGED <<log, next>>
  BY LogParameters DEF SInv, UInv, Followed, ReadIndex, logVars
<1>2. CASE ~Rejected(Int8(i)) /\ GetRecord(Int8(i)) >= next
  <2>1. pc' = "fetch" /\ index' = i
    BY <1>2 DEF ReadIndex
  <2> SUFFICES ASSUME NEW k \in Nat, Due(k) PROVE i = k - 1
    BY <1>1, <2>1 DEF Followed, Due
  <2>2. i < k /\ k \in 1 .. Len(log) /\ log[k].id = next /\ Len(log) \in Nat
    BY <1>1, LogFacts DEF Due
  <2>3. i < Len(log) /\ i + 1 \in 1 .. Len(log)
    BY <1>1, <2>2
  <2>4. log[i + 1].id >= next /\ log[i + 1].id \in Nat
    BY <1>1, <1>2, <2>3, ReadsStored, LogFacts
  <2>5. ~(i + 1 < k)
    BY <1>1, <2>2, <2>3, <2>4, LogFacts
  <2> QED
    BY <1>1, <2>2, <2>5
<1>3. CASE Rejected(Int8(i)) \/ ~(GetRecord(Int8(i)) >= next)
  <2>1. pc' = "test" /\ i' = i + 1
    BY <1>3 DEF ReadIndex
  <2> SUFFICES ASSUME NEW k \in Nat, Due(k) PROVE i + 1 < k
    BY <1>1, <2>1 DEF Followed, Due
  <2>2. i < k /\ k \in 1 .. Len(log) /\ log[k].id = next /\ Len(log) \in Nat
    BY <1>1, LogFacts DEF Due
  <2>3. i < Len(log)
    BY <1>1, <2>2
  <2>4. k # i + 1
    BY <1>1, <1>3, <2>2, <2>3, ReadsStored
  <2> QED
    BY <1>1, <2>2, <2>4
<1> QED
  BY <1>2, <1>3

LEMMA TaskSInv ==
  ASSUME ~beyond, SInv, App_GPRSSend
  PROVE  AllPosted' /\ Followed'
<1>1. UInv /\ IInv /\ AllPosted /\ Followed /\ Len(log) \in Nat /\ i \in Nat
      /\ log' = log /\ next \in Nat
  BY LogFacts, LogParameters DEF SInv, UInv, App_GPRSSend, Look, TestIndex,
     ReadIndex, Fetch, Post, Advance, logVars
<1>2. CASE Look
  <2>1. pc' = "test" /\ i' = 0 /\ UNCHANGED <<log, next, posts>>
    BY <1>2 DEF Look, logVars
  <2>2. Followed'
    BY <1>1, <2>1 DEF Followed, Due
  <2> QED
    BY <1>1, <2>1, <2>2, AllPostedKept
<1>3. CASE TestIndex
  <2>1. UNCHANGED <<log, next, posts, i>> /\ pc = "test"
    BY <1>3 DEF TestIndex, logVars
  <2>2. CASE i < Len(log)
    <3>1. pc' = "read"
      BY <1>3, <2>2 DEF TestIndex
    <3>2. Followed'
      BY <1>1, <2>1, <3>1 DEF Followed, Due
    <3> QED
      BY <1>1, <2>1, <3>2, AllPostedKept
  <2>3. CASE ~(i < Len(log))
    <3>1. pc' = "fetch"
      BY <1>3, <2>3 DEF TestIndex
    <3>2. \A k \in Nat : ~Due(k)
      BY <1>1, <2>1, <2>3 DEF Followed, Due
    <3>3. Followed'
      BY <2>1, <3>1, <3>2 DEF Followed, Due
    <3> QED
      BY <1>1, <2>1, <3>3, AllPostedKept
  <2> QED
    BY <2>2, <2>3
<1>4. CASE ReadIndex
  <2>1. UNCHANGED <<log, next, posts>>
    BY <1>4 DEF ReadIndex, logVars
  <2> QED
    BY <1>1, <1>4, <2>1, AllPostedKept, ReadIndexFollows
<1>5. CASE Fetch
  <2>1. pc = "fetch" /\ pc' = "post" /\ UNCHANGED <<log, next, posts>>
    BY <1>5 DEF Fetch, logVars
  <2>2. ASSUME NEW k \in Nat, Due(k) PROVE WMRecord' = next
    <3>1. index = k - 1 /\ k \in 1 .. Len(log) /\ log[k].id = next
      BY <1>1, <2>1, <2>2 DEF Followed, Due
    <3>2. index \in Nat /\ index < Len(log) /\ index + 1 = k
      BY <1>1, <3>1
    <3>3. ~Rejected(Int8(index)) /\ GetRecord(Int8(index)) = log[k].id
      BY <1>1, <3>2, ReadsStored
    <3> QED
      BY <1>5, <3>1, <3>3 DEF Fetch
  <2>3. Followed'
    BY <2>1, <2>2 DEF Followed, Due
  <2> QED
    BY <1>1, <2>1, <2>3, AllPostedKept
<1>6. CASE Post
  <2>1. /\ pc = "post" /\ pc' = "advance" /\ UNCHANGED <<log, next, WMRecord>>
        /\ posts' = Append(posts, WMRecord)
    BY <1>6 DEF Post, logVars
  <2>2. ToSet(posts') = ToSet(posts) \cup {WMRecord}
    <3>1. /\ posts \in Seq(Id \cup {Blank, Unset})
          /\ Len(posts) \in Nat /\ DOMAIN posts = 1 .. Len(posts)
      BY <1>1 DEF UInv
    <3>2. /\ DOMAIN posts' = 1 .. Len(posts) + 1
          /\ \A n \in 1 .. Len(posts) : posts'[n] = posts[n]
          /\ posts'[Len(posts) + 1] = WMRecord
      BY <2>1, <3>1
    <3> QED
      BY <3>1, <3>2 DEF ToSet
  <2>3. AllPosted'
    BY <1>1, <2>1, <2>2 DEF AllPosted
  <2>4. Followed'
    BY <1>1, <2>1, <2>2 DEF Followed, Due
  <2> QED
    BY <2>3, <2>4
<1>7. CASE Advance
  <2>1. /\ pc = "advance" /\ pc' = "look" /\ next' = next + 1
        /\ UNCHANGED <<log, posts>>
    BY <1>7 DEF Advance, logVars
  <2>2. ASSUME NEW k \in DOMAIN log, log[k].id < next + 1
        PROVE  log[k].id \in ToSet(posts)
    <3>1. k \in 1 .. Len(log) /\ k \in Nat /\ log[k].id \in Nat
      BY <1>1, LogFacts
    <3>2. CASE log[k].id < next
      BY <1>1, <3>2 DEF AllPosted
    <3>3. CASE log[k].id = next
      BY <1>1, <2>1, <3>1, <3>3 DEF Followed, Due
    <3> QED
      BY <1>1, <2>2, <3>1, <3>2, <3>3
  <2>3. AllPosted'
    BY <2>1, <2>2 DEF AllPosted, ToSet
  <2>4. Followed'
    BY <2>1 DEF Followed
  <2> QED
    BY <2>3, <2>4
<1> QED
  BY <1>2, <1>3, <1>4, <1>5, <1>6, <1>7 DEF App_GPRSSend

(* A record written meanwhile is newer than Next_Record.                    *)
LEMMA WriteRecordSInv ==
  ASSUME ~beyond, SInv, WriteRecord
  PROVE  AllPosted' /\ Followed'
<1>1. UInv /\ IInv /\ AllPosted /\ Followed
      /\ UNCHANGED <<next, pc, i, index, WMRecord, posts>>
  BY DEF SInv, UInv, WriteRecord, task
<1>2. /\ Len(log) \in Nat /\ DOMAIN log = 1 .. Len(log)
      /\ next \in Nat /\ last \in Nat /\ next <= last
  BY <1>1, LogFacts DEF UInv
<1>3. /\ Len(log') = Len(log) + 1 /\ log'[Len(log) + 1].id = last + 1
      /\ \A k \in 1 .. Len(log) : log'[k] = log[k]
  BY <1>1, LogGrows
<1>4. DOMAIN log' = 1 .. Len(log')
  BY <1>1, LogStep, LogFacts DEF Next, IInv, LogTypeOK
<1>5. ASSUME NEW k \in 1 .. Len(log'), log'[k].id <= next
      PROVE  k \in 1 .. Len(log) /\ log'[k] = log[k]
  BY <1>2, <1>3, <1>5
<1>6. AllPosted'
  <2> SUFFICES ASSUME NEW k \in DOMAIN log', log'[k].id < next
               PROVE  log'[k].id \in ToSet(posts)
    BY <1>1 DEF AllPosted, ToSet
  <2>1. k \in 1 .. Len(log) /\ log'[k] = log[k]
    <3>1. CASE k = Len(log) + 1
      BY <1>2, <1>3, <3>1
    <3>2. CASE k # Len(log) + 1
      BY <1>2, <1>3, <1>4, <3>2
    <3> QED
      BY <3>1, <3>2
  <2> QED
    BY <1>1, <1>2, <2>1 DEF AllPosted
<1>7. ASSUME NEW k \in Nat, Due(k)' PROVE Due(k)
  BY <1>1, <1>5, <1>2, <1>7 DEF Due
<1>8. Followed'
  BY <1>1, <1>7 DEF Followed, ToSet
<1> QED
  BY <1>6, <1>8

LEMMA NextSInv == SInv /\ [Next]_vars => SInv'
<1> SUFFICES ASSUME SInv, [Next]_vars, ~beyond' PROVE AllPosted' /\ Followed'
  BY NextUInv DEF SInv
<1>1. CASE App_GPRSSend
  <2>1. ~beyond
    BY <1>1 DEF App_GPRSSend, Look, TestIndex, ReadIndex, Fetch, Post, Advance,
       history
  <2> QED
    BY <1>1, <2>1, TaskSInv
<1>2. CASE WriteRecord
  <2>1. beyond' = (beyond \/ Len(log') > IndexLimit)
    BY <1>2 DEF WriteRecord
  <2>2. ~beyond
    BY <2>1, Zenon
  <2> QED
    BY <1>2, <2>2, WriteRecordSInv
<1>3. CASE EraseRecord
  <2>1. log' = <<>>
    BY <1>3 DEF EraseRecord, Erase
  <2>2. \A k \in Nat : ~Due(k)'
    BY <2>1 DEF Due
  <2> QED
    BY <2>1, <2>2 DEF AllPosted, Followed
<1>4. CASE PowerCycle
  <2>1. next' = 0 /\ pc' = "look"
    BY <1>4 DEF PowerCycle
  <2>2. IInv'
    BY LogStep DEF SInv, UInv
  <2>3. \A k \in DOMAIN log' : log'[k].id \in Nat
    <3>1. log' \in Seq(Record)
      BY <2>2 DEF IInv, LogTypeOK
    <3>2. \A k \in DOMAIN log' : log'[k] \in Record
      BY <3>1
    <3>3. Id \subseteq Nat
      BY LogParameters
    <3> QED
      BY <3>2, <3>3 DEF Record
  <2> QED
    BY <2>1, <2>3 DEF AllPosted, Followed
<1>5. CASE UNCHANGED vars
  BY <1>5 DEF vars, task, logVars, history, SInv, AllPosted, Followed, Due, ToSet
<1> QED
  BY <1>1, <1>2, <1>3, <1>4, <1>5 DEF Next

(* As long as the index has reached every stored record since power-on,     *)
(* none is passed over (usr_task.c 74 to 81): one whose ID Next_Record has  *)
(* gone past has been posted, whatever was written or erased between        *)
(* search, fetch and post.                                                  *)
THEOREM NothingSkipped == Spec => []NoSkips
<1>1. SInv => NoSkips
  BY DEF SInv, NoSkips, AllPosted
<1> QED
  BY <1>1, NextSInv, InitSInv, PTL DEF Spec

-----------------------------------------------------------------------------
(***************************************************************************)
(* What is posted, until somebody erases.  Then the log only grows, so that *)
(* a post once right stays right; its newest record is the one WM_Record_-  *)
(* Last_ID names, so that every search finds a record; and Next_Record      *)
(* counts the posts, so that the n-th was sought with n - 1.                *)
(***************************************************************************)

NewestIsLast == last > 0 => log # <<>> /\ log[Len(log)].id = last

(* The k-th record is the oldest with an ID of at least n.                  *)
OldestFrom(k, n) ==
  /\ k \in 1 .. Len(log) /\ log[k].id >= n
  /\ \A j \in 1 .. Len(log) : j < k => log[j].id < n

Posted == \A n \in 1 .. Len(posts) :
            \E k \in Nat : OldestFrom(k, n - 1) /\ posts[n] = log[k].id

(* Where the search is, and what it has in hand.                            *)
Searched ==
  /\ pc \in {"test", "read"} =>
       \A j \in 1 .. Len(log) : j <= i => log[j].id < next
  /\ pc = "read"  => i < Len(log)
  /\ pc = "fetch" => index \in Nat /\ OldestFrom(index + 1, next)
  /\ pc = "post"  => \E k \in Nat : OldestFrom(k, next) /\ WMRecord = log[k].id
  /\ pc = "advance" => Len(posts) = next + 1
  /\ pc # "advance" => Len(posts) = next

PInv == UInv /\ (~erased /\ ~beyond => NewestIsLast /\ Posted /\ Searched)

LEMMA PostsAreOldest == PInv => PostsFollowLog
<1> SUFFICES ASSUME PInv, ~erased, ~beyond, NEW n \in DOMAIN posts
             PROVE  \E k \in DOMAIN log :
                      /\ posts[n] = log[k].id /\ log[k].id >= n - 1
                      /\ \A j \in 1 .. k - 1 : log[j].id < n - 1
  BY DEF PostsFollowLog
<1>1. n \in 1 .. Len(posts) /\ Posted
  BY DEF PInv, UInv
<1>2. PICK k \in Nat : OldestFrom(k, n - 1) /\ posts[n] = log[k].id
  BY <1>1 DEF Posted
<1>3. Len(log) \in Nat /\ DOMAIN log = 1 .. Len(log)
  BY LogFacts DEF PInv, UInv
<1>4. \A j \in 1 .. k - 1 : j \in 1 .. Len(log) /\ j < k
  BY <1>2, <1>3 DEF OldestFrom
<1>5. \A j \in 1 .. k - 1 : log[j].id < n - 1
  BY <1>2, <1>4 DEF OldestFrom
<1> QED
  BY <1>2, <1>3, <1>5 DEF OldestFrom

LEMMA InitPInv == Init => PInv
<1> SUFFICES ASSUME Init PROVE PInv
  OBVIOUS
<1>1. last = 0 /\ posts = <<>> /\ pc = "look" /\ next = 0
  BY DEF Init, LogInit
<1> QED
  BY <1>1, InitUInv DEF PInv, NewestIsLast, Posted, Searched

(* The records there are keep their places when one is written.             *)
LEMMA OldestStays ==
  ASSUME IInv, WriteRecord, NEW k \in Nat, NEW n \in Int, OldestFrom(k, n)
  PROVE  OldestFrom(k, n)' /\ log'[k] = log[k]
<1>1. Len(log) \in Nat /\ Len(log') = Len(log) + 1
  BY LogFacts, LogGrows
<1>2. \A j \in 1 .. Len(log) : log'[j] = log[j]
  BY LogGrows
<1>3. k \in 1 .. Len(log) /\ k \in 1 .. Len(log')
  BY <1>1 DEF OldestFrom
<1>4. \A j \in 1 .. Len(log') : j < k => j \in 1 .. Len(log)
  BY <1>1, <1>3
<1> QED
  BY <1>2, <1>3, <1>4 DEF OldestFrom

LEMMA WriteRecordPInv ==
  ASSUME PInv, ~erased, ~beyond, WriteRecord
  PROVE  NewestIsLast' /\ Posted' /\ Searched'
<1>1. /\ IInv /\ UInv /\ NewestIsLast /\ Posted /\ Searched
      /\ UNCHANGED <<next, pc, i, index, WMRecord, posts>>
  BY DEF PInv, UInv, WriteRecord, task
<1>2. /\ Len(log) \in Nat /\ Len(log') = Len(log) + 1 /\ last' = last + 1
      /\ log'[Len(log) + 1].id = last + 1
      /\ \A k \in 1 .. Len(log) : log'[k] = log[k]
  BY <1>1, LogFacts, LogGrows
<1>3. /\ next \in Nat /\ last \in Nat /\ next <= last
      /\ i \in Nat /\ index \in Int /\ Len(posts) \in Nat
      /\ pc # "look" => next < last
  BY <1>1, LogFacts, LogParameters DEF UInv
<1>4. NewestIsLast'
  <2>1. log' # <<>>
    BY <1>2
  <2> QED
    BY <1>2, <2>1 DEF NewestIsLast
<1>5. Posted'
  <2> SUFFICES ASSUME NEW n \in 1 .. Len(posts)
               PROVE  \E k \in Nat : OldestFrom(k, n - 1)' /\ posts[n] = log'[k].id
    BY <1>1 DEF Posted, OldestFrom
  <2>1. PICK k \in Nat : OldestFrom(k, n - 1) /\ posts[n] = log[k].id
    BY <1>1 DEF Posted
  <2>2. OldestFrom(k, n - 1)' /\ log'[k] = log[k]
    BY <1>1, <1>3, <2>1, OldestStays
  <2> QED
    BY <2>1, <2>2
<1>6. Searched'
  <2>1. ASSUME pc \in {"test", "read"}, NEW j \in 1 .. Len(log'), j <= i
        PROVE  log'[j].id < next
    <3>1. PICK h \in 1 .. Len(log) : log[h].id > next \/ j <= Len(log)
      <4>1. last > 0 /\ log # <<>> /\ log[Len(log)].id = last
        BY <1>1, <1>3, <2>1 DEF NewestIsLast
      <4>2. Len(log) \in 1 .. Len(log)
        <5>1. log \in Seq(Record)
          BY <1>1, LogFacts
        <5> QED
          BY <1>2, <4>1, <5>1
      <4> QED
        BY <1>3, <2>1, <4>1, <4>2
    <3>2. j <= Len(log)
      <4> SUFFICES ASSUME j > Len(log) PROVE FALSE
        BY <1>2, <2>1
      <4>1. log[h].id > next /\ h <= i /\ log[h].id \in Nat
        BY <1>1, <1>2, <1>3, <2>1, <3>1, LogFacts
      <4>2. log[h].id < next
        BY <1>1, <2>1, <4>1 DEF Searched
      <4> QED
        BY <1>3, <4>1, <4>2
    <3> QED
      BY <1>1, <1>2, <2>1, <3>2 DEF Searched
  <2>2. pc = "read" => i < Len(log')
    BY <1>1, <1>2, <1>3 DEF Searched
  <2>3. ASSUME pc = "fetch" PROVE index \in Nat /\ OldestFrom(index + 1, next)'
    <3>1. index \in Nat /\ OldestFrom(index + 1, next)
      BY <1>1, <2>3 DEF Searched
    <3>2. OldestFrom(index + 1, next)' \/ UNCHANGED <<index, next>>
      BY <1>1
    <3> DEFINE k == index + 1
    <3>3. /\ k \in 1 .. Len(log) /\ log[k].id >= next
          /\ \A j \in 1 .. Len(log) : j < k => log[j].id < next
      BY <3>1 DEF OldestFrom
    <3>4. k \in 1 .. Len(log') /\ log'[k].id >= next
      BY <1>2, <3>3
    <3>5. \A j \in 1 .. Len(log') : j < k => log'[j].id < next
      BY <1>2, <3>3
    <3> QED
      BY <1>1, <3>1, <3>4, <3>5 DEF OldestFrom
  <2>4. ASSUME pc = "post"
        PROVE  \E k \in Nat : OldestFrom(k, next)' /\ WMRecord = log'[k].id
    <3>1. PICK k \in Nat : OldestFrom(k, next) /\ WMRecord = log[k].id
      BY <1>1, <2>4 DEF Searched
    <3>2. /\ k \in 1 .. Len(log) /\ log[k].id >= next
          /\ \A j \in 1 .. Len(log) : j < k => log[j].id < next
      BY <3>1 DEF OldestFrom
    <3>3. k \in 1 .. Len(log') /\ log'[k].id >= next /\ WMRecord = log'[k].id
      BY <1>2, <3>1, <3>2
    <3>4. \A j \in 1 .. Len(log') : j < k => log'[j].id < next
      BY <1>2, <3>2
    <3> QED
      BY <1>1, <3>3, <3>4 DEF OldestFrom
  <2> QED
    BY <1>1, <2>1, <2>2, <2>3, <2>4 DEF Searched
<1> QED
  BY <1>4, <1>5, <1>6

(* Steps of the task leave the log alone, and all but Post the posts.       *)
LEMMA PostedKept ==
  ASSUME Posted, UNCHANGED <<log, posts>>
  PROVE  Posted'
BY DEF Posted, OldestFrom

LEMMA ReadIndexSearches ==
  ASSUME PInv, ~erased, ~beyond, ReadIndex
  PROVE  Searched'
<1>1. /\ UInv /\ IInv /\ pc = "read" /\ i \in Nat /\ next \in Nat /\ i < Len(log)
      /\ \A j \in 1 .. Len(log) : j <= i => log[j].id < next
      /\ UNCHANGED <<log, next, posts>> /\ Len(posts) = next
      /\ Len(log) \in Nat
  BY LogParameters, LogFacts DEF PInv, UInv, Searched, ReadIndex, logVars
<1>2. ~Rejected(Int8(i)) /\ GetRecord(Int8(i)) = log[i + 1].id
  BY <1>1, ReadsStored
<1>3. i + 1 \in 1 .. Len(log) /\ log[i + 1].id \in Nat
  BY <1>1, LogFacts
<1>4. CASE log[i + 1].id >= next
  <2>1. pc' = "fetch" /\ index' = i
    BY <1>2, <1>4 DEF ReadIndex
  <2>2. \A j \in 1 .. Len(log) : j < i + 1 => log[j].id < next
    BY <1>1
  <2> QED
    BY <1>1, <1>3, <1>4, <2>1, <2>2 DEF Searched, OldestFrom
<1>5. CASE ~(log[i + 1].id >= next)
  <2>1. pc' = "test" /\ i' = i + 1
    BY <1>2, <1>5 DEF ReadIndex
  <2>2. \A j \in 1 .. Len(log) : j <= i + 1 => log[j].id < next
    BY <1>1, <1>3, <1>5
  <2> QED
    BY <1>1, <2>1, <2>2 DEF Searched
<1> QED
  BY <1>4, <1>5

LEMMA TaskPInv ==
  ASSUME PInv, ~erased, ~beyond, App_GPRSSend
  PROVE  NewestIsLast' /\ Posted' /\ Searched'
<1>1. /\ UInv /\ IInv /\ NewestIsLast /\ Posted /\ Searched
      /\ Len(log) \in Nat /\ i \in Nat /\ next \in Nat /\ last \in Nat
      /\ log' = log /\ last' = last
  BY LogFacts, LogParameters DEF PInv, UInv, App_GPRSSend, Look, TestIndex,
     ReadIndex, Fetch, Post, Advance, logVars
<1>2. NewestIsLast'
  BY <1>1 DEF NewestIsLast
<1>3. CASE Look
  <2>1. pc = "look" /\ pc' = "test" /\ i' = 0 /\ UNCHANGED <<next, posts>>
    BY <1>3 DEF Look
  <2>2. \A j \in 1 .. Len(log) : ~(j <= 0)
    BY <1>1
  <2>3. Searched'
    BY <1>1, <2>1, <2>2 DEF Searched
  <2> QED
    BY <1>1, <1>2, <2>1, <2>3, PostedKept
<1>4. CASE TestIndex
  <2>1. pc = "test" /\ UNCHANGED <<next, posts, i>>
    BY <1>4 DEF TestIndex
  <2>2. i < Len(log)
    <3> SUFFICES ASSUME i >= Len(log) PROVE FALSE
      BY <1>1
    <3>1. next < last
      BY <1>1, <2>1 DEF UInv
    <3>2. log # <<>> /\ log[Len(log)].id = last
      BY <1>1, <3>1 DEF NewestIsLast
    <3>3. Len(log) \in 1 .. Len(log)
      <4>1. log \in Seq(Record)
        BY <1>1, LogFacts
      <4> QED
        BY <1>1, <3>2, <4>1
    <3>4. log[Len(log)].id < next
      BY <1>1, <2>1, <3>3 DEF Searched
    <3> QED
      BY <1>1, <3>1, <3>2, <3>4
  <2>3. pc' = "read"
    BY <1>4, <2>2 DEF TestIndex
  <2>4. Searched'
    BY <1>1, <2>1, <2>2, <2>3 DEF Searched
  <2> QED
    BY <1>1, <1>2, <2>1, <2>4, PostedKept
<1>5. CASE ReadIndex
  <2>1. UNCHANGED posts
    BY <1>5 DEF ReadIndex
  <2> QED
    BY <1>1, <1>2, <1>5, <2>1, PostedKept, ReadIndexSearches
<1>6. CASE Fetch
  <2>1. pc = "fetch" /\ pc' = "post" /\ UNCHANGED <<next, posts>>
    BY <1>6 DEF Fetch
  <2>2. index \in Nat /\ OldestFrom(index + 1, next)
    BY <1>1, <2>1 DEF Searched
  <2>3. index < Len(log)
    BY <1>1, <2>2 DEF OldestFrom
  <2>4. WMRecord' = log[index + 1].id
    BY <1>1, <1>6, <2>2, <2>3, ReadsStored DEF Fetch
  <2>5. \E k \in Nat : OldestFrom(k, next) /\ WMRecord' = log[k].id
    BY <2>2, <2>4
  <2>6. Searched'
    BY <1>1, <2>1, <2>5 DEF Searched, OldestFrom
  <2> QED
    BY <1>1, <1>2, <2>1, <2>6, PostedKept
<1>7. CASE Post
  <2>1. /\ pc = "post" /\ pc' = "advance" /\ next' = next
        /\ posts' = Append(posts, WMRecord)
    BY <1>7 DEF Post
  <2>2. /\ Len(posts) = next /\ Len(posts') = next + 1
        /\ \A n \in 1 .. next : posts'[n] = posts[n]
        /\ posts'[next + 1] = WMRecord
    <3>1. posts \in Seq(Id \cup {Blank, Unset}) /\ Len(posts) = next
      BY <1>1, <2>1 DEF UInv, Searched
    <3> QED
      BY <1>1, <2>1, <3>1
  <2>3. PICK k \in Nat : OldestFrom(k, next) /\ WMRecord = log[k].id
    BY <1>1, <2>1 DEF Searched
  <2>4. ASSUME NEW n \in 1 .. next + 1
        PROVE  \E h \in Nat : OldestFrom(h, n - 1) /\ posts'[n] = log[h].id
    <3>1. CASE n = next + 1
      <4>1. n - 1 = next
        BY <1>1, <3>1
      <4> QED
        BY <2>2, <2>3, <3>1, <4>1
    <3>2. CASE n # next + 1
      <4>1. n \in 1 .. next
        BY <1>1, <3>2
      <4> QED
        BY <1>1, <2>2, <4>1 DEF Posted
    <3> QED
      BY <3>1, <3>2
  <2>5. Posted'
    BY <1>1, <2>2, <2>4 DEF Posted, OldestFrom
  <2>6. Searched'
    BY <2>1, <2>2 DEF Searched
  <2> QED
    BY <1>2, <2>5, <2>6
<1>8. CASE Advance
  <2>1. /\ pc = "advance" /\ pc' = "look" /\ next' = next + 1 /\ posts' = posts
    BY <1>8 DEF Advance
  <2>2. Searched'
    BY <1>1, <2>1 DEF Searched
  <2> QED
    BY <1>1, <1>2, <2>1, <2>2, PostedKept
<1> QED
  BY <1>3, <1>4, <1>5, <1>6, <1>7, <1>8 DEF App_GPRSSend

LEMMA NextPInv == PInv /\ [Next]_vars => PInv'
<1> SUFFICES ASSUME PInv, [Next]_vars, ~erased', ~beyond'
             PROVE  NewestIsLast' /\ Posted' /\ Searched'
  BY NextUInv DEF PInv
<1>1. CASE App_GPRSSend
  <2>1. ~erased /\ ~beyond
    BY <1>1 DEF App_GPRSSend, Look, TestIndex, ReadIndex, Fetch, Post, Advance,
       history
  <2> QED
    BY <1>1, <2>1, TaskPInv
<1>2. CASE WriteRecord
  <2>1. erased' = erased /\ beyond' = (beyond \/ Len(log') > IndexLimit)
    BY <1>2 DEF WriteRecord
  <2>2. ~erased /\ ~beyond
    BY <2>1, Zenon
  <2> QED
    BY <1>2, <2>2, WriteRecordPInv
<1>3. CASE EraseRecord
  BY <1>3 DEF EraseRecord
<1>4. CASE PowerCycle
  <2>1. next' = 0 /\ pc' = "look" /\ posts' = <<>>
        /\ last' = IF log' = <<>> THEN 0 ELSE log'[Len(log')].id
    BY <1>4 DEF PowerCycle, Restart
  <2> QED
    BY <2>1 DEF NewestIsLast, Posted, Searched
<1>5. CASE UNCHANGED vars
  <2>1. UNCHANGED <<log, last, next, pc, i, index, WMRecord, posts>>
        /\ ~erased /\ ~beyond
    BY <1>5 DEF vars, task, logVars, history
  <2>2. NewestIsLast /\ Posted /\ Searched
    BY <2>1 DEF PInv
  <2> QED
    BY <2>1, <2>2 DEF NewestIsLast, Posted, Searched, OldestFrom
<1> QED
  BY <1>1, <1>2, <1>3, <1>4, <1>5 DEF Next

(* Until somebody erases, and as long as the index has reached every stored *)
(* record since power-on, what the task posts with Next_Record at n is the  *)
(* oldest stored record with an ID of at least n: never the stack, never    *)
(* erased flash, never out of order (usr_task.c 74 to 81).                  *)
THEOREM PostsAreStored == Spec => []PostsFollowLog
<1> QED
  BY PostsAreOldest, NextPInv, InitPInv, PTL DEF Spec
=============================================================================
