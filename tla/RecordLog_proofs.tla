-------------------------- MODULE RecordLog_proofs --------------------------
(***************************************************************************)
(* The IDs of the abstract log increase, for every size of the area and    *)
(* every set of payloads and torn IDs.                                     *)
(***************************************************************************)
EXTENDS RecordLog, FiniteSetTheorems, WellFoundedInduction, TLAPS

IInv == LogTypeOK /\ IdsIncrease

LEMMA InitIInv == LogInit => IInv
BY LogParameters DEF LogInit, IInv, LogTypeOK, IdsIncrease, Record

(* An entry newer than every stored one may join. *)
LEMMA AppendIncreasing ==
  ASSUME IInv, NEW e \in Record, e.id > last,
         log' = Append(log, e), last' = e.id
  PROVE  IInv'
<1>1. log \in Seq(Record) /\ last \in Id /\ e.id \in Id /\ Id \subseteq Nat
  BY LogParameters DEF IInv, LogTypeOK, Record
<1>2. /\ log' \in Seq(Record) /\ Len(log') = Len(log) + 1
      /\ \A i \in 1 .. Len(log) : log'[i] = log[i]
      /\ log'[Len(log) + 1] = e
  BY <1>1
<1>3. /\ \A i \in 1 .. Len(log) : log[i].id \in Nat
      /\ \A i \in 1 .. Len(log) : log[i].id <= last
      /\ last \in Nat /\ e.id \in Nat
  <2>1. \A i \in 1 .. Len(log) : log[i] \in Record
    BY <1>1
  <2>2. \A i \in 1 .. Len(log) : log[i].id \in Nat
    BY <1>1, <2>1 DEF Record
  <2> QED BY <1>1, <2>2 DEF IInv, IdsIncrease
<1>4. \A i, j \in 1 .. Len(log') : i < j => log'[i].id < log'[j].id
  <2> SUFFICES ASSUME NEW i \in 1 .. Len(log'), NEW j \in 1 .. Len(log'), i < j
               PROVE  log'[i].id < log'[j].id
    OBVIOUS
  <2>1. i \in 1 .. Len(log)
    BY <1>1, <1>2
  <2>2. CASE j \in 1 .. Len(log)
    BY <1>2, <2>1, <2>2 DEF IInv, IdsIncrease
  <2>3. CASE j = Len(log) + 1
    <3>1. log'[i].id = log[i].id /\ log'[j].id = e.id
      BY <1>2, <2>1, <2>3
    <3> QED BY <1>3, <2>1, <3>1
  <2> QED BY <1>1, <1>2, <2>2, <2>3
<1>5. \A i \in 1 .. Len(log') : log'[i].id <= last'
  <2> TAKE i \in 1 .. Len(log')
  <2>1. CASE i \in 1 .. Len(log)
    <3>1. log'[i].id = log[i].id
      BY <1>2, <2>1
    <3> QED BY <1>3, <2>1, <3>1
  <2>2. CASE i = Len(log) + 1
    BY <1>2, <1>3, <2>2
  <2> QED BY <1>1, <1>2, <2>1, <2>2
<1> QED BY <1>1, <1>2, <1>4, <1>5 DEF IInv, LogTypeOK, IdsIncrease

LEMMA WriteIInv ==
  ASSUME IInv, NEW wm \in Payload, NEW frames \in Payload, Write(wm, frames)
  PROVE  IInv'
<1> DEFINE e == [id |-> last + 1, wm |-> wm, frames |-> frames]
<1>1. last \in Nat /\ last < MaxId /\ last + 1 \in Id
  BY LogParameters DEF IInv, LogTypeOK, Write
<1>2. e \in Record /\ e.id = last + 1
  BY <1>1, LogParameters DEF Record
<1>3. log' = Append(log, e) /\ last' = e.id
  BY DEF Write
<1> QED BY <1>1, <1>2, <1>3, AppendIncreasing

LEMMA EraseIInv ==
  ASSUME IInv, Erase
  PROVE  IInv'
BY DEF IInv, Erase, LogTypeOK, IdsIncrease, Record

LEMMA RestartIInv ==
  ASSUME IInv, Restart
  PROVE  IInv'
<1>1. log \in Seq(Record) /\ last \in Id /\ Id \subseteq Nat /\ 0 \in Id
  BY LogParameters DEF IInv, LogTypeOK
<1>2. last' = IF log' = <<>> THEN 0 ELSE log'[Len(log')].id
  BY DEF Restart
<1>3. CASE log' = log
  <2>1. CASE log = <<>>
    BY <1>1, <1>2, <1>3, <2>1 DEF IInv, LogTypeOK, IdsIncrease
  <2>2. CASE log # <<>>
    <3>1. Len(log) \in Nat /\ Len(log) > 0 /\ last' = log[Len(log)].id
      BY <1>1, <1>2, <1>3, <2>2
    <3>2. \A i \in 1 .. Len(log) : log[i].id \in Nat /\ log[i].id \in Id
      <4>1. \A i \in 1 .. Len(log) : log[i] \in Record
        BY <1>1
      <4> QED BY <1>1, <4>1 DEF Record
    <3>3. \A i \in 1 .. Len(log) : log[i].id <= last'
      <4> TAKE i \in 1 .. Len(log)
      <4>1. i = Len(log) \/ log[i].id < log[Len(log)].id
        BY <3>1 DEF IInv, IdsIncrease
      <4>2. log[i].id \in Nat /\ log[Len(log)].id \in Nat
        BY <3>1, <3>2
      <4> QED BY <3>1, <4>1, <4>2
    <3> QED BY <1>1, <1>3, <3>1, <3>2, <3>3 DEF IInv, LogTypeOK, IdsIncrease
  <2> QED BY <2>1, <2>2
<1>4. CASE \E torn \in Record : torn.id > last /\ log' = Append(log, torn)
  <2>1. PICK torn \in Record : torn.id > last /\ log' = Append(log, torn)
    BY <1>4
  <2>2. log' # <<>> /\ log'[Len(log')] = torn
    BY <1>1, <2>1
  <2>3. last' = torn.id
    BY <1>2, <2>2
  <2> QED BY <2>1, <2>3, AppendIncreasing
<1> QED BY <1>3, <1>4 DEF Restart

(* GetRecordIndexById's search is sound: along the stored records the IDs   *)
(* increase and none is ahead of WM_Record_Last_ID, through any writes,     *)
(* erases, restarts and torn records (usr_flash.c 158 to 230).              *)
THEOREM StoredInOrder == LogSpec => []IdsIncrease
<1>1. IInv /\ [LogNext]_logVars => IInv'
  <2> SUFFICES ASSUME IInv, [LogNext]_logVars PROVE IInv'
    OBVIOUS
  <2>1. CASE \E wm, frames \in Payload : Write(wm, frames)
    BY <2>1, WriteIInv
  <2>2. CASE Erase
    BY <2>2, EraseIInv
  <2>3. CASE Restart
    BY <2>3, RestartIInv
  <2>4. CASE UNCHANGED logVars
    BY <2>4 DEF IInv, logVars, LogTypeOK, IdsIncrease
  <2> QED BY <2>1, <2>2, <2>3, <2>4 DEF LogNext
<1>2. IInv => IdsIncrease
  BY DEF IInv
<1> QED BY <1>1, <1>2, InitIInv, PTL DEF LogSpec

-----------------------------------------------------------------------------
(* A search from the start ends at the least index that will do.            *)
LEMMA LeastNat ==
  ASSUME NEW S \in SUBSET Nat, S # {}
  PROVE  \E m \in S : \A n \in S : m <= n
<1> DEFINE T == {0 .. n : n \in S}
<1>1. IsWellFoundedOn(StrictSubsetOrdering(Nat), FiniteSubsetsOf(Nat))
  BY FS_StrictSubsetOrderingWellFounded
<1>2. T \subseteq FiniteSubsetsOf(Nat) /\ T # {}
  <2>1. ASSUME NEW n \in S PROVE 0 .. n \in FiniteSubsetsOf(Nat)
    <3>1. IsFiniteSet(0 .. n)
      BY FS_Interval
    <3>2. 0 .. n \in SUBSET Nat
      OBVIOUS
    <3> QED
      BY <3>1, <3>2 DEF FiniteSubsetsOf
  <2> QED
    BY <2>1
<1>3. PICK t \in T : \A u \in T : <<u, t>> \notin StrictSubsetOrdering(Nat)
  <2> HIDE DEF T
  <2> QED BY <1>1, <1>2, WFMin
<1>4. PICK m \in S : t = 0 .. m
  BY <1>3
<1>5. ASSUME NEW n \in S, n < m PROVE FALSE
  <2>1. 0 .. n \in SUBSET Nat /\ 0 .. m \in SUBSET Nat /\ 0 .. n \subseteq 0 .. m
    BY <1>5
  <2>2. m \in 0 .. m /\ m \notin 0 .. n
    BY <1>5
  <2>3. <<0 .. n, 0 .. m>> \in StrictSubsetOrdering(Nat)
    BY <2>1, <2>2 DEF StrictSubsetOrdering
  <2> QED BY <1>3, <1>4, <2>3
<1> QED BY <1>5
=============================================================================
