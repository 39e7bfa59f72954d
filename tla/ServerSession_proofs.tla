------------------------- MODULE ServerSession_proofs -------------------------
(* Theorems about ServerSession, for every number of connections, length of *)
(* lwIP's queue and size of the log, whatever arrives, times out, is erased *)
(* or is pushed between the calls of lwIP.                                  *)
EXTENDS ServerSession, RecordLog_proofs, SequenceTheorems

-----------------------------------------------------------------------------
(* Types.                                                                   *)

PoolInv ==
  /\ state \in [Pcb -> {"free", "syn", "open", "wait", "last", "gone"}]
  /\ queued \in [Pcb -> 0 .. QueueLen]
  /\ unsent \subseteq Pcb /\ unacked \subseteq Pcb /\ memerr \subseteq Pcb
  /\ gPcb \in Pcb \cup {None}
  /\ leaked \in Nat /\ lost \in 0 .. MaxTimeouts /\ starved \in 0 .. MaxStarved
  /\ \A p \in Pcb : state[p] = "syn" => queued[p] > 0
  /\ \A p \in unsent \cup unacked : state[p] = "gone"

BaseInv ==
  /\ IInv /\ Len(log) <= Capacity
  /\ perTemp \in Packet
  /\ pc \in {"idle", "search", "test", "get", "write", "done"}
  /\ pcb \in Pcb \cup {None}
  /\ cmd \in {"none", "updrecord", "status", "wmdata"}
  /\ asked \in 0 .. MaxId /\ i \in -1 .. Capacity
  /\ pc = "get" => i \in 0 .. Capacity - 1
  /\ pc \in {"idle", "search"} => i = -1
  /\ todo \in Seq({Text, End}) /\ WMRecord \in Id \cup {Blank, Unset}
  /\ reply \in Seq(Packet) /\ had \in 0 .. Capacity
  /\ mixed \in BOOLEAN /\ erased \in BOOLEAN

(* A command lasts while nothing arrives: its connection stays open.        *)
Serving ==
  /\ pc = "idle" => cmd = "none"
  /\ pc # "idle" => pcb \in Pcb /\ state[pcb] = "open"

TInv == PoolInv /\ BaseInv /\ Serving

LEMMA Sizes ==
  /\ QueueLen \in Nat /\ QueueLen > 0 /\ IndexLimit \in Nat /\ IndexLimit > 0
  /\ Capacity \in Nat /\ MaxId \in Nat /\ MaxTimeouts \in Nat
  /\ MaxStarved \in Nat /\ None \notin Pcb /\ Id \subseteq Nat /\ 0 .. MaxId \subseteq Id
BY ServerParameters, LogParameters

LEMMA InitTInv == Init => TInv
<1> SUFFICES ASSUME Init PROVE TInv
  OBVIOUS
<1>1. IInv
  BY InitIInv DEF Init
<1>2. << >> \in Seq({Text, End}) /\ << >> \in Seq(Packet)
  OBVIOUS
<1>3. PoolInv
  BY Sizes DEF PoolInv, Init
<1>4. BaseInv
  <2>1. NoCommand /\ Len(log) <= Capacity /\ 0 \in 0 .. Capacity
        /\ 0 \in 0 .. MaxId /\ -1 \in -1 .. Capacity
    BY Sizes DEF Init, LogInit
  <2> QED
    BY <1>1, <1>2, <2>1 DEF BaseInv, NoCommand, Packet
<1> QED
  BY <1>3, <1>4 DEF TInv, Serving, Init, NoCommand

LEMMA EnqueueTypes ==
  ASSUME PoolInv, NEW p \in Pcb, HasSpace(p), tcp_enqueue(p)
  PROVE  /\ queued' \in [Pcb -> 0 .. QueueLen] /\ queued'[p] = queued[p] + 1
         /\ \A q \in Pcb : q # p => queued'[q] = queued[q]
<1>1. queued[p] \in Nat /\ queued[p] + 1 \in 0 .. QueueLen
  BY Sizes DEF PoolInv, HasSpace
<1> QED
  BY <1>1 DEF PoolInv, tcp_enqueue

(* What is handed to tcp_write, with any outcome.                           *)
Handed(p) == Refused(p) \/ Starved(p) \/ Queued(p)

LEMMA HandedTypes ==
  ASSUME PoolInv, NEW p \in Pcb, Handed(p)
  PROVE  /\ queued' \in [Pcb -> 0 .. QueueLen]
         /\ \A q \in Pcb : queued'[q] >= queued[q]
<1>1. \A q \in Pcb : queued[q] \in Nat
  BY Sizes DEF PoolInv
<1>2. CASE UNCHANGED queued
  BY <1>1, <1>2 DEF PoolInv
<1>3. CASE CanSend(p) /\ tcp_enqueue(p)
  <2>1. HasSpace(p)
    BY <1>3 DEF CanSend
  <2> QED
    BY <1>1, <1>3, <2>1, EnqueueTypes
<1> QED
  BY <1>2, <1>3 DEF Handed, Refused, Starved, Queued

LEMMA DrainTypes ==
  ASSUME PoolInv, NEW p \in Pcb, NEW n \in 0 .. QueueLen, Drain(p, n)
  PROVE  /\ queued' \in [Pcb -> 0 .. QueueLen] /\ queued'[p] = n
         /\ \A q \in Pcb : q # p => queued'[q] = queued[q]
BY DEF PoolInv, Drain

LEMMA StateTypes ==
  ASSUME PoolInv, NEW p \in Pcb,
         NEW s \in {"free", "syn", "open", "wait", "last", "gone"}, SetState(p, s)
  PROVE  /\ state' \in [Pcb -> {"free", "syn", "open", "wait", "last", "gone"}]
         /\ state'[p] = s /\ \A q \in Pcb : q # p => state'[q] = state[q]
BY DEF PoolInv, SetState

(* Only a gone slot holds segments: what happens to another one, or to one  *)
(* that is cleared, leaves the sets right.                                  *)
LEMMA SlotKept ==
  ASSUME PoolInv, NEW p \in Pcb, p \notin unsent' \cup unacked',
         unsent' \subseteq unsent, unacked' \subseteq unacked,
         \A q \in Pcb : q # p => state'[q] = state[q]
  PROVE  /\ unsent' \subseteq Pcb /\ unacked' \subseteq Pcb
         /\ \A q \in unsent' \cup unacked' : state'[q] = "gone"
BY DEF PoolInv

LEMMA NetworkPool ==
  ASSUME PoolInv, NEW p \in Pcb
  PROVE  /\ Syn(p) => PoolInv'
         /\ Server_accept(p) => PoolInv'
         /\ Ack(p) => PoolInv'
         /\ Fin(p) => PoolInv'
         /\ Rst(p) => PoolInv'
         /\ Timeout(p) => PoolInv'
<1>0. queued[p] \in 0 .. QueueLen /\ queued[p] \in Nat
  BY Sizes DEF PoolInv
<1>1. ASSUME Syn(p) PROVE PoolInv'
  <2>1. /\ unsent' = unsent \ {p} /\ unacked' = unacked \ {p} /\ memerr' = memerr \ {p}
        /\ UNCHANGED <<gPcb, leaked, lost, starved>>
    BY <1>1 DEF Syn, history, counts
  <2>2. \/ SetState(p, "syn") /\ Drain(p, 1)
        \/ SetState(p, "free") /\ Drain(p, 0)
    BY <1>1 DEF Syn
  <2>3. 0 \in 0 .. QueueLen /\ 1 \in 0 .. QueueLen
    BY Sizes
  <2>4. /\ state' \in [Pcb -> {"free", "syn", "open", "wait", "last", "gone"}]
        /\ \A q \in Pcb : q # p => state'[q] = state[q]
        /\ queued' \in [Pcb -> 0 .. QueueLen]
        /\ \A q \in Pcb : q # p => queued'[q] = queued[q]
        /\ state'[p] = "syn" => queued'[p] > 0
    BY <2>2, <2>3, StateTypes, DrainTypes
  <2>5. /\ unsent' \subseteq Pcb /\ unacked' \subseteq Pcb
        /\ \A q \in unsent' \cup unacked' : state'[q] = "gone"
    BY <2>1, <2>4, SlotKept
  <2> QED
    BY <2>1, <2>4, <2>5 DEF PoolInv
<1>2. ASSUME Server_accept(p) PROVE PoolInv'
  <2>1. /\ SetState(p, "open") /\ gPcb' = p /\ Drain(p, queued[p] - 1)
        /\ UNCHANGED <<gone, leaked, lost, starved>> /\ state[p] = "syn"
    BY <1>2 DEF Server_accept, history, counts
  <2>2. queued[p] - 1 \in 0 .. QueueLen
    <3>1. queued[p] > 0
      BY <2>1 DEF PoolInv
    <3> QED
      BY <1>0, <3>1, Sizes
  <2>3. p \notin unsent \cup unacked
    BY <2>1 DEF PoolInv
  <2>4. /\ state' \in [Pcb -> {"free", "syn", "open", "wait", "last", "gone"}]
        /\ state'[p] = "open" /\ \A q \in Pcb : q # p => state'[q] = state[q]
        /\ queued' \in [Pcb -> 0 .. QueueLen]
        /\ \A q \in Pcb : q # p => queued'[q] = queued[q]
    BY <2>1, <2>2, StateTypes, DrainTypes
  <2> QED
    BY <2>1, <2>3, <2>4, SlotKept DEF PoolInv, gone
<1>3. ASSUME Ack(p) PROVE PoolInv'
  <2>1. PICK n \in 0 .. queued[p] - 1 :
          /\ Drain(p, n)
          /\ IF state[p] = "last" /\ n = 0 THEN SetState(p, "free")
                                           ELSE UNCHANGED state
    BY <1>3 DEF Ack
  <2>2. n \in 0 .. QueueLen /\ state[p] \in {"open", "wait", "last"}
        /\ UNCHANGED <<gone, gPcb, leaked, lost, starved>>
    BY <1>0, <1>3, Sizes DEF Ack, history, counts
  <2>3. p \notin unsent \cup unacked
    BY <2>2 DEF PoolInv
  <2>4. /\ state' \in [Pcb -> {"free", "syn", "open", "wait", "last", "gone"}]
        /\ state'[p] # "syn" /\ \A q \in Pcb : q # p => state'[q] = state[q]
    <3>1. CASE state[p] = "last" /\ n = 0
      BY <2>1, <3>1, StateTypes
    <3>2. CASE ~(state[p] = "last" /\ n = 0)
      BY <2>1, <2>2, <3>2 DEF PoolInv
    <3> QED
      BY <3>1, <3>2
  <2>5. /\ queued' \in [Pcb -> 0 .. QueueLen]
        /\ \A q \in Pcb : q # p => queued'[q] = queued[q]
    BY <2>1, <2>2, DrainTypes
  <2> QED
    BY <2>2, <2>3, <2>4, <2>5, SlotKept DEF PoolInv, gone
<1>4. ASSUME Fin(p) PROVE PoolInv'
  <2>1. state[p] = "open" /\ UNCHANGED <<gone, gPcb, leaked, lost, starved>>
    BY <1>4 DEF Fin, history, counts
  <2>2. \/ HasSpace(p) /\ SetState(p, "last") /\ tcp_enqueue(p)
        \/ SetState(p, "wait") /\ UNCHANGED queued
    BY <1>4 DEF Fin
  <2>3. p \notin unsent \cup unacked
    BY <2>1 DEF PoolInv
  <2>4. /\ state' \in [Pcb -> {"free", "syn", "open", "wait", "last", "gone"}]
        /\ state'[p] # "syn" /\ \A q \in Pcb : q # p => state'[q] = state[q]
    BY <2>2, StateTypes
  <2>5. /\ queued' \in [Pcb -> 0 .. QueueLen]
        /\ \A q \in Pcb : q # p => queued'[q] = queued[q]
    BY <2>2, EnqueueTypes DEF PoolInv
  <2> QED
    BY <2>1, <2>3, <2>4, <2>5, SlotKept DEF PoolInv, gone
<1>5. ASSUME Rst(p) PROVE PoolInv'
  <2>1. /\ SetState(p, "free") /\ Drain(p, 0) /\ state[p] \in Active
        /\ UNCHANGED <<gone, gPcb, leaked, lost, starved>>
    BY <1>5 DEF Rst, history, counts
  <2>2. p \notin unsent \cup unacked
    BY <2>1 DEF PoolInv, Active
  <2>3. /\ state' \in [Pcb -> {"free", "syn", "open", "wait", "last", "gone"}]
        /\ state'[p] = "free" /\ \A q \in Pcb : q # p => state'[q] = state[q]
        /\ queued' \in [Pcb -> 0 .. QueueLen]
        /\ \A q \in Pcb : q # p => queued'[q] = queued[q]
    BY <2>1, Sizes, StateTypes, DrainTypes
  <2> QED
    BY <2>1, <2>2, <2>3, SlotKept DEF PoolInv, gone
<1>6. ASSUME Timeout(p) PROVE PoolInv'
  <2>1. UNCHANGED <<unsent, unacked, gPcb, leaked, starved>> /\ lost' \in 0 .. MaxTimeouts
        /\ state[p] \in Active
    <3>1. p = gPcb => lost < MaxTimeouts
      BY <1>6 DEF Timeout
    <3>2. lost' = IF p = gPcb THEN lost + 1 ELSE lost
      BY <1>6 DEF Timeout
    <3> QED
      BY <1>6, <3>1, <3>2, Sizes DEF Timeout, PoolInv
  <2>2. p \notin unsent \cup unacked
    BY <2>1 DEF PoolInv, Active
  <2>3. /\ state' \in [Pcb -> {"free", "syn", "open", "wait", "last", "gone"}]
        /\ state'[p] # "syn" /\ \A q \in Pcb : q # p => state'[q] = state[q]
        /\ queued' \in [Pcb -> 0 .. QueueLen]
        /\ \A q \in Pcb : q # p => queued'[q] = queued[q]
    BY <1>6, Sizes, StateTypes, DrainTypes DEF Timeout, PoolInv
  <2>4. memerr' \subseteq Pcb
    BY <1>6 DEF Timeout, PoolInv
  <2> QED
    BY <2>1, <2>2, <2>3, <2>4, SlotKept DEF PoolInv
<1> QED
  BY <1>1, <1>2, <1>3, <1>4, <1>5, <1>6

LEMMA PoolKept ==
  ASSUME PoolInv, UNCHANGED <<pool, gPcb, counts>>
  PROVE  PoolInv'
BY DEF PoolInv, pool, gone, counts

LEMMA WritePool ==
  ASSUME PoolInv, NEW p \in Pcb, Handed(p), UNCHANGED <<state, gPcb, lost>>
  PROVE  PoolInv'
<1>1. /\ queued' \in [Pcb -> 0 .. QueueLen]
      /\ \A q \in Pcb : queued'[q] >= queued[q]
  BY HandedTypes
<1>2. \A q \in Pcb : queued[q] \in Nat /\ queued'[q] \in Nat
  BY <1>1, Sizes DEF PoolInv
<1>3. \A q \in Pcb : state[q] = "syn" => queued'[q] > 0
  BY <1>1, <1>2 DEF PoolInv
<1>4. CASE UNCHANGED <<unsent, unacked, leaked>>
  <2>1. memerr' \subseteq Pcb /\ starved' \in 0 .. MaxStarved
    BY <1>4, Sizes DEF Handed, Refused, Starved, Queued, Strand, gone, PoolInv
  <2> QED
    BY <1>1, <1>3, <1>4, <2>1 DEF PoolInv
<1>5. CASE state[p] = "gone" /\ Strand(p) /\ UNCHANGED starved
  <2>1. /\ unsent' \subseteq unsent \cup {p} /\ unacked' \subseteq unacked \cup {p}
        /\ memerr' \subseteq memerr /\ leaked' \in {leaked, leaked + 1}
    BY <1>5 DEF Strand
  <2>2. leaked' \in Nat
    BY <2>1 DEF PoolInv
  <2> QED
    BY <1>1, <1>3, <1>5, <2>1, <2>2 DEF PoolInv
<1> QED
  BY <1>4, <1>5 DEF Handed, Refused, Starved, Queued, gone

LEMMA NextPool ==
  ASSUME TInv, [Next]_vars
  PROVE  PoolInv'
<1>0. PoolInv /\ Serving
  BY DEF TInv
<1>1. CASE Network
  BY <1>0, <1>1, NetworkPool DEF Network
<1>2. CASE \E p \in Pcb, c \in {"updrecord", "status", "wmdata"}, id \in 0 .. MaxId :
             (c # "updrecord" => id = 0) /\ Server_recv(p, c, id)
  <2>1. UNCHANGED <<pool, gPcb, counts>>
    BY <1>2 DEF Server_recv, history
  <2> QED
    BY <1>0, <2>1, PoolKept
<1>3. CASE \E p \in Pcb : TcpErase(p)
  <2>1. UNCHANGED <<pool, gPcb, counts>>
    BY <1>3 DEF TcpErase, history
  <2> QED
    BY <1>0, <2>1, PoolKept
<1>4. CASE Search \/ Test \/ Get \/ Return
  <2>1. UNCHANGED <<pool, gPcb, counts>>
    BY <1>4 DEF Search, Test, Get, Return, history
  <2> QED
    BY <1>0, <2>1, PoolKept
<1>5. CASE SendNetPacket
  <2>1. pcb \in Pcb /\ Handed(pcb) /\ UNCHANGED <<state, gPcb, lost>>
    BY <1>0, <1>5 DEF Serving, SendNetPacket, Handed
  <2> QED
    BY <1>0, <2>1, WritePool
<1>6. CASE Report
  <2>1. UNCHANGED <<state, gPcb, lost>>
    BY <1>6 DEF Report
  <2>2. CASE UNCHANGED <<queued, gone, leaked, starved>>
    BY <1>0, <2>1, <2>2, PoolKept DEF pool, counts
  <2>3. CASE ~UNCHANGED <<queued, gone, leaked, starved>>
    <3>1. gPcb # None /\ Handed(gPcb)
      BY <1>6, <2>3 DEF Report, Handed
    <3>2. gPcb \in Pcb
      BY <1>0, <3>1 DEF PoolInv
    <3> QED
      BY <1>0, <2>1, <3>1, <3>2, WritePool
  <2> QED
    BY <2>2, <2>3
<1>7. CASE HostErase
  <2>1. UNCHANGED <<pool, gPcb, counts>>
    BY <1>7 DEF HostErase
  <2> QED
    BY <1>0, <2>1, PoolKept
<1>8. CASE PowerCycle
  BY <1>8, Sizes DEF PowerCycle, PoolInv
<1>9. CASE UNCHANGED vars
  <2>1. UNCHANGED <<pool, gPcb, counts>>
    BY <1>9 DEF vars, history
  <2> QED
    BY <1>0, <2>1, PoolKept
<1> QED
  BY <1>1, <1>2, <1>3, <1>4, <1>5, <1>6, <1>7, <1>8, <1>9 DEF Next, Base

(* What arrives changes nothing of a command, and finds none.               *)
LEMMA NetworkLeavesBase ==
  ASSUME Network
  PROVE  pc = "idle" /\ UNCHANGED <<logVars, perTemp, base, mixed, erased>>
<1> SUFFICES ASSUME NEW p \in Pcb,
                    \/ Syn(p) \/ Server_accept(p) \/ Ack(p)
                    \/ Fin(p) \/ Rst(p) \/ Timeout(p)
             PROVE  pc = "idle" /\ UNCHANGED <<logVars, perTemp, base, mixed, erased>>
  BY DEF Network
<1> QED
  BY DEF Syn, Server_accept, Ack, Fin, Rst, Timeout, Quiet, history

LEMMA NextServing ==
  ASSUME TInv, [Next]_vars
  PROVE  Serving'
<1>0. Serving /\ pcb \in Pcb \cup {None}
  BY DEF TInv, BaseInv
<1>1. CASE Network
  BY <1>0, <1>1, NetworkLeavesBase DEF Serving, base
<1>2. CASE \E p \in Pcb, c \in {"updrecord", "status", "wmdata"}, id \in 0 .. MaxId :
             (c # "updrecord" => id = 0) /\ Server_recv(p, c, id)
  BY <1>2 DEF Server_recv, Serving, pool
<1>3. CASE \E p \in Pcb : TcpErase(p)
  BY <1>0, <1>3 DEF TcpErase, Serving, base, pool
<1>4. CASE Search \/ Test \/ Get \/ SendNetPacket
  BY <1>0, <1>4 DEF Search, Test, Get, SendNetPacket, Serving, pool
<1>5. CASE Return
  BY <1>5 DEF Return, Finish, Serving
<1>6. CASE Report \/ HostErase
  BY <1>0, <1>6 DEF Report, HostErase, Serving, base, pool
<1>7. CASE PowerCycle
  BY <1>7 DEF PowerCycle, Finish, Serving
<1>8. CASE UNCHANGED vars
  BY <1>0, <1>8 DEF vars, Serving, base, pool
<1> QED
  BY <1>1, <1>2, <1>3, <1>4, <1>5, <1>6, <1>7, <1>8 DEF Next, Base

LEMMA LogStep ==
  ASSUME TInv, [Next]_vars
  PROVE  IInv' /\ Len(log') <= Capacity
<1>0. IInv /\ Len(log) <= Capacity /\ Len(log) \in Nat /\ log \in Seq(Record)
  BY DEF TInv, BaseInv, IInv, LogTypeOK
<1>1. CASE UNCHANGED logVars
  BY <1>0, <1>1 DEF IInv, logVars, LogTypeOK, IdsIncrease
<1>2. CASE \E w, f \in Payload : Write(w, f)
  <2>1. Len(log') <= Capacity
    BY <1>0, <1>2, Sizes DEF Write, HasRoom
  <2> QED
    BY <1>0, <1>2, <2>1, WriteIInv
<1>3. CASE Erase
  <2>1. Len(log') <= Capacity
    BY <1>3, Sizes DEF Erase
  <2> QED
    BY <1>0, <1>3, <2>1, EraseIInv
<1>4. CASE Restart
  <2>1. Len(log') <= Capacity
    BY <1>0, <1>4, Sizes DEF Restart, HasRoom
  <2> QED
    BY <1>0, <1>4, <2>1, RestartIInv
<1>5. \/ UNCHANGED logVars \/ Erase \/ Restart
      \/ \E w, f \in Payload : Write(w, f)
  <2>1. Network => UNCHANGED logVars
    BY NetworkLeavesBase
  <2> QED
    BY <2>1 DEF Next, vars, Server_recv, TcpErase, Base, Search, Test, Get,
       SendNetPacket, Return, Report, HostErase, PowerCycle
<1> QED
  BY <1>1, <1>2, <1>3, <1>4, <1>5

LEMMA LogFacts ==
  ASSUME IInv
  PROVE  /\ log \in Seq(Record) /\ Len(log) \in Nat /\ DOMAIN log = 1 .. Len(log)
         /\ last \in Nat /\ last \in Id
         /\ \A k \in 1 .. Len(log) : /\ log[k].id \in Nat /\ log[k].id \in Id
                                     /\ log[k].id <= last
         /\ \A j, k \in 1 .. Len(log) : j < k => log[j].id < log[k].id
<1>1. log \in Seq(Record) /\ last \in Id /\ Id \subseteq Nat
  BY LogParameters DEF IInv, LogTypeOK
<1>2. \A k \in 1 .. Len(log) : log[k] \in Record
  BY <1>1
<1>3. \A k \in 1 .. Len(log) : log[k].id \in Id /\ log[k].id \in Nat
  BY <1>1, <1>2 DEF Record
<1> QED
  BY <1>1, <1>3 DEF IInv, IdsIncrease

LEMMA RecordRead ==
  ASSUME IInv, NEW n \in Int, ~Rejected(n)
  PROVE  GetRecord(n) \in Id \cup {Blank}
<1>1. n \in 0 .. Len(log) /\ Len(log) \in Nat
  BY LogFacts DEF Rejected
<1>2. n # Len(log) => n + 1 \in 1 .. Len(log)
  BY <1>1
<1> QED
  BY <1>1, <1>2, LogFacts DEF GetRecord

LEMMA Int8Type ==
  ASSUME NEW n \in Int
  PROVE  Int8(n) \in Int
BY ServerParameters DEF Int8

LEMMA Int8InReach ==
  ASSUME NEW n \in Nat, n < IndexLimit
  PROVE  Int8(n) = n
<1>1. IndexLimit \in Nat /\ IndexLimit > 0
  BY Sizes
<1>2. n + IndexLimit \in 0 .. 2 * IndexLimit - 1
  BY <1>1
<1>3. (n + IndexLimit) % (2 * IndexLimit) = n + IndexLimit
  BY <1>1, <1>2
<1> QED
  BY <1>1, <1>3 DEF Int8

(* The search ends at the first record it finds.                            *)
LEMMA LeastFound ==
  ASSUME IInv, NEW n \in Int, Found(n) # {}
  PROVE  LET k == CHOOSE k \in Found(n) : \A m \in Found(n) : k <= m
         IN  /\ k \in Found(n) /\ k \in 0 .. Len(log) - 1
             /\ \A m \in Found(n) : k <= m
<1>1. Found(n) \subseteq 0 .. Len(log) - 1 /\ Len(log) \in Nat
  BY LogFacts DEF Found
<1>2. Found(n) \in SUBSET Nat
  BY <1>1
<1>3. \E k \in Found(n) : \A m \in Found(n) : k <= m
  BY <1>2, LeastNat
<1> QED
  BY <1>1, <1>3

(* What a command and the pushes do to Server_recv's variables.             *)
LEMMA NextBase ==
  ASSUME TInv, [Next]_vars
  PROVE  BaseInv'
<1>0. BaseInv /\ IInv /\ IInv' /\ Len(log') <= Capacity /\ Len(log) \in Nat
      /\ Len(log) <= Capacity /\ Capacity \in Nat
  BY LogStep, LogFacts, Sizes DEF TInv, BaseInv
<1>1. CASE UNCHANGED <<perTemp, base, mixed, erased>>
  BY <1>0, <1>1 DEF BaseInv, base
<1>2. CASE \E p \in Pcb, c \in {"updrecord", "status", "wmdata"}, id \in 0 .. MaxId :
             (c # "updrecord" => id = 0) /\ Server_recv(p, c, id)
  <2>1. PICK p \in Pcb, c \in {"updrecord", "status", "wmdata"}, id \in 0 .. MaxId :
          Server_recv(p, c, id)
    BY <1>2
  <2>2. /\ pcb' = p /\ cmd' = c /\ had' = Len(log)
        /\ UNCHANGED <<perTemp, i, WMRecord, reply, mixed, erased>>
    BY <2>1 DEF Server_recv, history
  <2>3. \/ asked' = id /\ pc' = "search" /\ todo' = <<End>>
        \/ asked' = 0 /\ pc' = "test" /\ todo' = <<Text, End>>
        \/ asked' = 0 /\ pc' = "test" /\ todo' = [k \in 1 .. Marks |-> Text]
    BY <2>1 DEF Server_recv
  <2>4. /\ asked' \in 0 .. MaxId /\ todo' \in Seq({Text, End})
        /\ pc' \in {"search", "test"}
    <3>1. Marks \in Nat /\ 0 \in 0 .. MaxId
      BY ServerParameters, Sizes
    <3>2. [k \in 1 .. Marks |-> Text] \in Seq({Text, End})
      <4>1. [k \in 1 .. Marks |-> Text] \in [1 .. Marks -> {Text, End}]
        OBVIOUS
      <4>2. [1 .. Marks -> {Text, End}] \subseteq Seq({Text, End})
        BY <3>1, SeqDef
      <4> QED
        BY <4>1, <4>2
    <3>3. <<End>> \in Seq({Text, End}) /\ <<Text, End>> \in Seq({Text, End})
      OBVIOUS
    <3>4. todo' \in Seq({Text, End})
      BY <2>3, <3>2, <3>3, Zenon
    <3>5. asked' \in 0 .. MaxId /\ pc' \in {"search", "test"}
      BY <2>3, <3>1
    <3> QED
      BY <3>4, <3>5
  <2>5. had' \in 0 .. Capacity
    BY <1>0, <2>2
  <2>6. Quiet /\ i = -1
    BY <1>0, <2>1 DEF Server_recv, Quiet, BaseInv
  <2> QED
    BY <1>0, <2>2, <2>4, <2>5, <2>6 DEF BaseInv
<1>3. CASE Search
  <2>1. pc' = "test" /\ UNCHANGED <<perTemp, pcb, cmd, asked, todo, WMRecord, reply, had,
                                    mixed, erased>>
    BY <1>3 DEF Search, history
  <2>2. i' \in -1 .. Capacity
    <3>1. asked + 1 \in Int
      BY <1>0, Sizes DEF BaseInv
    <3>2. CASE last < asked + 1 \/ Found(asked + 1) = {}
      BY <1>0, <1>3, <3>2 DEF Search
    <3>3. CASE ~(last < asked + 1 \/ Found(asked + 1) = {})
      BY <1>0, <1>3, <3>1, <3>3, LeastFound DEF Search
    <3> QED
      BY <3>2, <3>3
  <2> QED
    BY <1>0, <2>1, <2>2 DEF BaseInv
<1>4. CASE Test
  <2>1. UNCHANGED <<pcb, cmd, asked, WMRecord, reply, had, mixed, erased>>
    BY <1>4 DEF Test, history
  <2>2. CASE i # -1 /\ i < Len(log)
    <3>1. pc' = "get" /\ UNCHANGED <<i, todo, perTemp>> /\ i \in 0 .. Capacity - 1
      BY <1>0, <1>4, <2>2 DEF Test, BaseInv
    <3> QED
      BY <1>0, <2>1, <3>1 DEF BaseInv
  <2>3. CASE ~(i # -1 /\ i < Len(log))
    <3>1. i' = -1 /\ -1 \in -1 .. Capacity
      BY <1>0, <1>4, <2>3 DEF Test
    <3>2. CASE todo = <<>>
      <4>1. pc' = "done" /\ UNCHANGED <<todo, perTemp>>
        BY <1>4, <2>3, <3>2 DEF Test
      <4> QED
        BY <1>0, <2>1, <3>1, <4>1 DEF BaseInv
    <3>3. CASE todo # <<>>
      <4>1. perTemp' = Head(todo) /\ todo' = Tail(todo) /\ pc' = "write"
        BY <1>4, <2>3, <3>3 DEF Test
      <4>2. perTemp' \in Packet /\ todo' \in Seq({Text, End})
        BY <1>0, <3>3, <4>1 DEF BaseInv, Packet
      <4> QED
        BY <1>0, <2>1, <3>1, <4>1, <4>2 DEF BaseInv
    <3> QED
      BY <3>2, <3>3
  <2> QED
    BY <2>2, <2>3
<1>5. CASE Get
  <2>1. /\ pc = "get" /\ pc' = "write" /\ i' = i + 1 /\ perTemp' = WMRecord'
        /\ UNCHANGED <<pcb, cmd, asked, todo, reply, had, mixed, erased>>
    BY <1>5 DEF Get, history
  <2>2. i \in 0 .. Capacity - 1 /\ i \in Int
    BY <1>0, <2>1 DEF BaseInv
  <2>3. WMRecord' \in Id \cup {Blank, Unset}
    BY <1>0, <1>5, <2>2, Int8Type, RecordRead DEF BaseInv, Get
  <2>4. perTemp' \in Packet /\ i' \in -1 .. Capacity
    BY <1>0, <2>1, <2>2, <2>3 DEF Packet
  <2> QED
    BY <1>0, <2>1, <2>3, <2>4 DEF BaseInv
<1>6. CASE SendNetPacket
  <2>1. /\ perTemp' = Unset /\ pc' = "test"
        /\ UNCHANGED <<pcb, cmd, asked, i, todo, WMRecord, had, mixed, erased>>
    BY <1>6 DEF SendNetPacket, history
  <2>2. reply' \in {Append(reply, perTemp), Append(reply, Gap), reply}
    BY <1>6 DEF SendNetPacket
  <2>3. Gap \in Packet /\ Unset \in Packet /\ perTemp \in Packet /\ reply \in Seq(Packet)
    BY <1>0 DEF BaseInv, Packet
  <2>4. reply' \in Seq(Packet) /\ perTemp' \in Packet
    BY <2>1, <2>2, <2>3
  <2> QED
    BY <1>0, <2>1, <2>4 DEF BaseInv
<1>7. CASE Return \/ PowerCycle
  <2>1. Finish
    BY <1>7 DEF Return, PowerCycle
  <2>2. << >> \in Seq({Text, End}) /\ << >> \in Seq(Packet) /\ 0 \in 0 .. MaxId
        /\ 0 \in 0 .. Capacity /\ -1 \in -1 .. Capacity
    BY Sizes
  <2> QED
    BY <1>0, <2>1, <2>2 DEF BaseInv, Finish, Packet
<1>8. CASE Report
  <2>1. UNCHANGED <<base, erased>> /\ mixed' \in BOOLEAN
        /\ (perTemp' = last' \/ perTemp' = perTemp)
    BY <1>0, <1>8 DEF Report, BaseInv
  <2>2. last' \in Packet
    BY <1>0 DEF IInv, LogTypeOK, Packet
  <2> QED
    BY <1>0, <2>1, <2>2 DEF BaseInv, base
<1>9. CASE HostErase
  <2>1. UNCHANGED <<base, perTemp, mixed>> /\ erased' \in BOOLEAN
    BY <1>9 DEF HostErase
  <2> QED
    BY <1>0, <2>1 DEF BaseInv, base
<1>10. CASE Network \/ (\E p \in Pcb : TcpErase(p)) \/ UNCHANGED vars
  BY <1>1, <1>10, NetworkLeavesBase DEF TcpErase, vars, history
<1> QED
  BY <1>2, <1>3, <1>4, <1>5, <1>6, <1>7, <1>8, <1>9, <1>10 DEF Next, Base

LEMMA NextTInv == TInv /\ [Next]_vars => TInv'
BY NextPool, NextBase, NextServing DEF TInv

LEMMA TInductive == Spec => []TInv
<1> QED
  BY InitTInv, NextTInv, PTL DEF Spec

(* The variables keep their types: above all snd_queuelen never exceeds     *)
(* TCP_SND_QUEUELEN, whatever is pushed, closed or acknowledged, and the    *)
(* index into the records stays within the area.                            *)
THEOREM TypeCorrect == Spec => []TypeOK
<1>1. TInv => TypeOK
  BY DEF TInv, PoolInv, BaseInv, IInv, TypeOK
<1> QED
  BY <1>1, TInductive, PTL

-----------------------------------------------------------------------------
(***************************************************************************)
(* Segments lost for good.  While the newest connection is gone, each push  *)
(* takes one more segment only where there is room for one: on unacked, on  *)
(* unsent, and behind a segment that an earlier lack of memory lets follow  *)
(* to unacked.  A timeout gives room for two, a push without memory for     *)
(* one; and each push takes one of the places the queue had left.           *)
(***************************************************************************)

Stale == gPcb \in Pcb /\ state[gPcb] = "gone"

One(b) == IF b THEN 1 ELSE 0

Room == One(gPcb \notin unsent) + One(gPcb \notin unacked)
        + One(gPcb \in unacked \cap memerr)

LeakInv ==
  /\ LeaksBounded
  /\ Stale => leaked + Room <= 2 * lost + starved
  /\ Stale => leaked + (QueueLen - queued[gPcb]) <= (QueueLen - 1) * lost

LEMMA CountTypes ==
  ASSUME PoolInv
  PROVE  /\ leaked \in Nat /\ lost \in Nat /\ starved \in Nat
         /\ Room \in Nat /\ Room <= 3 /\ (QueueLen - 1) * lost \in Nat
         /\ \A p \in Pcb : queued[p] \in Nat /\ queued[p] <= QueueLen
<1>1. lost \in Nat /\ QueueLen - 1 \in Nat
  BY Sizes DEF PoolInv
<1>2. (QueueLen - 1) * lost \in Nat
  BY <1>1
<1> QED
  BY <1>1, <1>2, Sizes DEF PoolInv, Room, One

LEMMA InitLeakInv == Init => LeakInv
<1> SUFFICES ASSUME Init PROVE LeakInv
  OBVIOUS
<1>1. leaked = 0 /\ lost = 0 /\ starved = 0 /\ gPcb = None
  BY DEF Init
<1>2. QueueLen - 1 \in Nat /\ None \notin Pcb
  BY Sizes
<1>3. (QueueLen - 1) * lost = 0
  BY <1>1, <1>2
<1> QED
  BY <1>1, <1>2, <1>3 DEF LeakInv, LeaksBounded, Stale

(* Nothing happens to the gone slot of the newest connection.               *)
Calm ==
  /\ UNCHANGED counts
  /\ Stale' => /\ Stale /\ gPcb' = gPcb /\ queued'[gPcb] = queued[gPcb]
               /\ \A S \in {<<unsent, unsent'>>, <<unacked, unacked'>>,
                            <<memerr, memerr'>>} : gPcb \in S[2] <=> gPcb \in S[1]

LEMMA CalmLeak ==
  ASSUME LeakInv, Calm
  PROVE  LeakInv'
<1>1. UNCHANGED <<leaked, lost, starved>>
  BY DEF Calm, counts
<1>2. ASSUME Stale' PROVE Stale /\ Room' = Room /\ queued'[gPcb'] = queued[gPcb]
  <2>1. /\ Stale /\ gPcb' = gPcb /\ queued'[gPcb] = queued[gPcb]
        /\ gPcb \in unsent' <=> gPcb \in unsent
        /\ gPcb \in unacked' <=> gPcb \in unacked
        /\ gPcb \in memerr' <=> gPcb \in memerr
    BY <1>2 DEF Calm
  <2> QED
    BY <2>1 DEF Room, One
<1> QED
  BY <1>1, <1>2 DEF LeakInv, LeaksBounded

LEMMA NetworkLeak ==
  ASSUME PoolInv, LeakInv, NEW p \in Pcb
  PROVE  /\ Syn(p) => Calm
         /\ Server_accept(p) => Calm
         /\ Ack(p) => Calm
         /\ Fin(p) => Calm
         /\ Rst(p) => Calm
         /\ Timeout(p) => LeakInv'
<1>0. queued[p] \in 0 .. QueueLen /\ queued[p] \in Nat /\ 0 \in 0 .. QueueLen
      /\ 1 \in 0 .. QueueLen /\ None \notin Pcb
  BY Sizes DEF PoolInv
<1>1. ASSUME Syn(p) PROVE Calm
  <2>1. /\ unsent' = unsent \ {p} /\ unacked' = unacked \ {p} /\ memerr' = memerr \ {p}
        /\ UNCHANGED <<gPcb, counts>>
    BY <1>1 DEF Syn, history
  <2>2. \/ SetState(p, "syn") /\ Drain(p, 1)
        \/ SetState(p, "free") /\ Drain(p, 0)
    BY <1>1 DEF Syn
  <2>3. /\ state'[p] # "gone" /\ \A q \in Pcb : q # p => state'[q] = state[q]
        /\ \A q \in Pcb : q # p => queued'[q] = queued[q]
    BY <1>0, <2>2, StateTypes, DrainTypes
  <2> QED
    BY <2>1, <2>3 DEF Calm, Stale
<1>2. ASSUME Server_accept(p) PROVE Calm
  <2>1. /\ SetState(p, "open") /\ gPcb' = p /\ UNCHANGED counts
    BY <1>2 DEF Server_accept, history
  <2>2. state'[p] = "open"
    BY <2>1, StateTypes
  <2> QED
    BY <2>1, <2>2 DEF Calm, Stale
<1>3. ASSUME Ack(p) \/ Fin(p) \/ Rst(p) PROVE Calm
  <2>1. UNCHANGED <<gone, gPcb, counts>>
    BY <1>3 DEF Ack, Fin, Rst, history
  <2>2. /\ state'[p] # "gone" /\ \A q \in Pcb : q # p => state'[q] = state[q]
        /\ \A q \in Pcb : q # p => queued'[q] = queued[q]
    <3>1. CASE Ack(p)
      <4>1. PICK n \in 0 .. queued[p] - 1 :
              /\ Drain(p, n)
              /\ IF state[p] = "last" /\ n = 0 THEN SetState(p, "free")
                                               ELSE UNCHANGED state
        BY <3>1 DEF Ack
      <4>2. n \in 0 .. QueueLen /\ state[p] \in {"open", "wait", "last"}
        BY <1>0, <3>1, Sizes DEF Ack
      <4> QED
        BY <4>1, <4>2, StateTypes, DrainTypes
    <3>2. CASE Fin(p)
      <4>1. \/ HasSpace(p) /\ SetState(p, "last") /\ tcp_enqueue(p)
            \/ SetState(p, "wait") /\ UNCHANGED queued
        BY <3>2 DEF Fin
      <4> QED
        BY <4>1, StateTypes, EnqueueTypes
    <3>3. CASE Rst(p)
      <4>1. SetState(p, "free") /\ Drain(p, 0)
        BY <3>3 DEF Rst
      <4> QED
        BY <1>0, <4>1, StateTypes, DrainTypes
    <3> QED
      BY <1>3, <3>1, <3>2, <3>3
  <2> QED
    BY <2>1, <2>2 DEF Calm, Stale, gone
<1>4. ASSUME Timeout(p) PROVE LeakInv'
  <2>1. /\ UNCHANGED <<unsent, unacked, gPcb, leaked, starved>>
        /\ lost' = IF p = gPcb THEN lost + 1 ELSE lost
        /\ state[p] \in Active /\ queued[p] > 0
    BY <1>4 DEF Timeout
  <2>2. \/ SetState(p, "free") /\ Drain(p, 0) /\ UNCHANGED memerr
        \/ SetState(p, "gone") /\ UNCHANGED queued /\ memerr' \in {memerr, memerr \cup {p}}
    BY <1>4 DEF Timeout
  <2>3. /\ state'[p] \in {"free", "gone"} /\ \A q \in Pcb : q # p => state'[q] = state[q]
        /\ state'[p] = "gone" => queued' = queued
        /\ \A q \in Pcb : q # p => queued'[q] = queued[q]
    BY <1>0, <2>2, StateTypes, DrainTypes
  <2>4. CASE p # gPcb
    <3>1. Calm
      BY <2>1, <2>2, <2>3, <2>4 DEF Calm, Stale, counts
    <3> QED
      BY <3>1, CalmLeak
  <2>5. CASE p = gPcb
    <3>1. lost' = lost + 1 /\ lost \in Nat /\ leaked \in Nat /\ starved \in Nat
          /\ QueueLen - 1 \in Nat /\ queued[p] \in Nat /\ queued[p] <= QueueLen
      BY <2>1, <2>5, Sizes, CountTypes
    <3>2. PICK u \in Nat : u = (QueueLen - 1) * lost
      BY CountTypes
    <3>3. (QueueLen - 1) * lost' = u + (QueueLen - 1)
      BY <3>1, <3>2
    <3>4. leaked <= 2 * lost + starved /\ leaked <= u
      BY <3>2 DEF LeakInv, LeaksBounded
    <3>5. gPcb' = p /\ p \notin unacked'
      BY <2>1, <2>5 DEF PoolInv, Active
    <3>6. Room' <= 2 /\ Room' \in Nat
      <4>1. ~(gPcb' \in unacked' \cap memerr')
        BY <3>5
      <4>2. Room' = One(gPcb' \notin unsent') + One(gPcb' \notin unacked') + 0
        BY <4>1 DEF Room, One
      <4> QED
        BY <4>2 DEF One
    <3>7. LeaksBounded'
      BY <2>1, <3>1, <3>3, <3>4 DEF LeaksBounded
    <3>8. leaked' + Room' <= 2 * lost' + starved'
      <4>1. leaked' = leaked /\ starved' = starved /\ lost' = lost + 1
        BY <2>1, <3>1
      <4>2. PICK r \in 0 .. 2 : r = Room'
        BY <3>6
      <4>3. leaked \in Nat /\ lost \in Nat /\ starved \in Nat /\ r \in 0 .. 2
            /\ leaked <= 2 * lost + starved
        BY <3>1, <3>4
      <4>4. leaked + r <= 2 * (lost + 1) + starved
        BY <4>3
      <4> QED
        BY <4>1, <4>2, <4>4
    <3>9. Stale' => leaked' + (QueueLen - queued'[gPcb']) <= (QueueLen - 1) * lost'
      <4>1. Stale' => queued'[gPcb'] = queued[p]
        BY <2>3, <3>5 DEF Stale
      <4> QED
        BY <2>1, <3>1, <3>3, <3>4, <4>1, Sizes
    <3> QED
      BY <3>7, <3>8, <3>9 DEF LeakInv
  <2> QED
    BY <2>4, <2>5
<1> QED
  BY <1>1, <1>2, <1>3, <1>4

LEMMA LeakKept ==
  ASSUME LeakInv, UNCHANGED <<pool, gPcb, counts>>
  PROVE  LeakInv'
<1>1. Calm
  BY DEF Calm, Stale, pool, gone
<1> QED
  BY <1>1, CalmLeak

(* A packet handed to a connection in use adds no segment that is lost.     *)
LEMMA UsedLeak ==
  ASSUME PoolInv, LeakInv, NEW p \in Pcb, Handed(p), state[p] # "gone",
         UNCHANGED <<state, gPcb, lost>>
  PROVE  LeakInv'
<1>1. UNCHANGED <<gone, counts>>
  BY DEF Handed, Refused, Starved, Queued, gone, counts
<1>2. \A q \in Pcb : q # p => queued'[q] = queued[q]
  <2>1. CASE UNCHANGED queued
    BY <2>1
  <2>2. CASE CanSend(p) /\ tcp_enqueue(p)
    BY <2>2, EnqueueTypes DEF CanSend
  <2> QED
    BY <2>1, <2>2 DEF Handed, Refused, Starved, Queued
<1>3. Calm
  BY <1>1, <1>2 DEF Calm, Stale, gone
<1> QED
  BY <1>3, CalmLeak

(* One handed to the gone slot of the newest connection takes what room     *)
(* there is.                                                                *)
LEMMA GoneLeak ==
  ASSUME PoolInv, LeakInv, Stale, Handed(gPcb), UNCHANGED <<state, gPcb, lost>>
  PROVE  LeakInv'
<1>0. /\ leaked \in Nat /\ lost \in Nat /\ starved \in Nat /\ Room \in Nat
      /\ gPcb \in Pcb /\ queued[gPcb] \in Nat /\ queued[gPcb] <= QueueLen
      /\ QueueLen \in Nat /\ state[gPcb] = "gone"
  BY CountTypes, Sizes DEF Stale
<1>1. PICK u \in Nat : u = (QueueLen - 1) * lost
  BY CountTypes
<1>2. /\ leaked + Room <= 2 * lost + starved
      /\ leaked + (QueueLen - queued[gPcb]) <= u
      /\ leaked <= 2 * lost + starved /\ leaked <= u
  BY <1>1 DEF LeakInv, LeaksBounded
<1>3. (QueueLen - 1) * lost' = u
  BY <1>1
<1>4. CASE Refused(gPcb)
  <2>1. UNCHANGED <<pool, counts>>
    BY <1>4 DEF Refused, pool, counts
  <2> QED
    BY <2>1, LeakKept
<1>5. CASE Starved(gPcb)
  <2>1. /\ starved' = starved + 1 /\ memerr' = memerr \cup {gPcb}
        /\ UNCHANGED <<queued, unsent, unacked, leaked>>
    BY <1>0, <1>5 DEF Starved
  <2>2. Room' <= Room + 1 /\ Room' \in Nat
    <3>1. gPcb' = gPcb /\ unsent' = unsent /\ unacked' = unacked
      BY <2>1
    <3>2. Room' = One(gPcb \notin unsent) + One(gPcb \notin unacked)
                  + One(gPcb \in unacked \cap memerr')
      BY <3>1 DEF Room, One
    <3> QED
      BY <3>2 DEF Room, One
  <2>3. PICK r \in Nat : r = Room'
    BY <2>2
  <2>4. leaked' <= 2 * lost + starved' /\ leaked' + r <= 2 * lost + starved'
    BY <1>0, <1>2, <2>1, <2>2, <2>3
  <2>5. leaked' <= u /\ leaked' + (QueueLen - queued'[gPcb']) <= u
    BY <1>2, <2>1
  <2> QED
    BY <1>3, <2>3, <2>4, <2>5 DEF LeakInv, LeaksBounded
<1>6. CASE Queued(gPcb)
  <2>1. HasSpace(gPcb) /\ tcp_enqueue(gPcb) /\ Strand(gPcb) /\ UNCHANGED starved
    BY <1>0, <1>6 DEF Queued, CanSend
  <2>2. queued'[gPcb] = queued[gPcb] + 1 /\ queued[gPcb] < QueueLen
    BY <1>0, <2>1, EnqueueTypes DEF HasSpace
  <2>3. leaked' \in {leaked, leaked + 1} /\ leaked' + Room' <= leaked + Room
    <3>1. leaked' = IF gPcb \in unsent THEN leaked ELSE leaked + 1
      BY <2>1 DEF Strand
    <3>2. CASE /\ unsent' = unsent \cup {gPcb} /\ UNCHANGED unacked
               /\ memerr' \in {memerr, memerr \ {gPcb}}
      BY <1>0, <3>1, <3>2 DEF Room, One
    <3>3. CASE /\ gPcb \notin unacked \/ gPcb \in memerr
               /\ unacked' = unacked \cup {gPcb} /\ unsent' = unsent \ {gPcb}
               /\ memerr' = memerr \ {gPcb}
      BY <1>0, <3>1, <3>3 DEF Room, One
    <3> QED
      BY <2>1, <3>1, <3>2, <3>3 DEF Strand
  <2>4. Room' \in Nat
    BY DEF Room, One
  <2>5. leaked' <= 2 * lost + starved /\ leaked' + Room' <= 2 * lost + starved
    BY <1>0, <1>2, <2>3, <2>4
  <2>6. leaked' <= u /\ leaked' + (QueueLen - queued'[gPcb]) <= u
    BY <1>0, <1>2, <2>2, <2>3
  <2> QED
    BY <1>3, <2>1, <2>5, <2>6 DEF LeakInv, LeaksBounded
<1> QED
  BY <1>4, <1>5, <1>6 DEF Handed

LEMMA NextLeak ==
  ASSUME TInv, LeakInv, [Next]_vars
  PROVE  LeakInv'
<1>0. PoolInv /\ Serving
  BY DEF TInv
<1>1. CASE Network
  BY <1>0, <1>1, NetworkLeak, CalmLeak DEF Network
<1>2. CASE \E p \in Pcb, c \in {"updrecord", "status", "wmdata"}, id \in 0 .. MaxId :
             (c # "updrecord" => id = 0) /\ Server_recv(p, c, id)
  <2>1. UNCHANGED <<pool, gPcb, counts>>
    BY <1>2 DEF Server_recv, history
  <2> QED
    BY <2>1, LeakKept
<1>3. CASE \E p \in Pcb : TcpErase(p)
  <2>1. UNCHANGED <<pool, gPcb, counts>>
    BY <1>3 DEF TcpErase, history
  <2> QED
    BY <2>1, LeakKept
<1>4. CASE Search \/ Test \/ Get \/ Return
  <2>1. UNCHANGED <<pool, gPcb, counts>>
    BY <1>4 DEF Search, Test, Get, Return, history
  <2> QED
    BY <2>1, LeakKept
<1>5. CASE SendNetPacket
  <2>1. /\ pcb \in Pcb /\ Handed(pcb) /\ UNCHANGED <<state, gPcb, lost>>
        /\ state[pcb] # "gone"
    BY <1>0, <1>5 DEF Serving, SendNetPacket, Handed
  <2> QED
    BY <1>0, <2>1, UsedLeak
<1>6. CASE Report
  <2>1. UNCHANGED <<state, gPcb, lost>>
    BY <1>6 DEF Report
  <2>2. CASE UNCHANGED <<queued, gone, leaked, starved>>
    BY <2>1, <2>2, LeakKept DEF pool, counts
  <2>3. CASE ~UNCHANGED <<queued, gone, leaked, starved>>
    <3>1. gPcb # None /\ Handed(gPcb)
      BY <1>6, <2>3 DEF Report, Handed
    <3>2. gPcb \in Pcb
      BY <1>0, <3>1 DEF PoolInv
    <3>3. CASE state[gPcb] = "gone"
      BY <1>0, <2>1, <3>1, <3>2, <3>3, GoneLeak DEF Stale
    <3>4. CASE state[gPcb] # "gone"
      BY <1>0, <2>1, <3>1, <3>2, <3>4, UsedLeak
    <3> QED
      BY <3>3, <3>4
  <2> QED
    BY <2>2, <2>3
<1>7. CASE HostErase
  <2>1. UNCHANGED <<pool, gPcb, counts>>
    BY <1>7 DEF HostErase
  <2> QED
    BY <2>1, LeakKept
<1>8. CASE PowerCycle
  <2>1. leaked' = 0 /\ lost' = 0 /\ starved' = 0 /\ gPcb' = None
    BY <1>8 DEF PowerCycle
  <2>2. QueueLen - 1 \in Nat /\ None \notin Pcb
    BY Sizes
  <2>3. (QueueLen - 1) * lost' = 0
    BY <2>1, <2>2
  <2> QED
    BY <2>1, <2>2, <2>3 DEF LeakInv, LeaksBounded, Stale
<1>9. CASE UNCHANGED vars
  <2>1. UNCHANGED <<pool, gPcb, counts>>
    BY <1>9 DEF vars, history
  <2> QED
    BY <2>1, LeakKept
<1> QED
  BY <1>1, <1>2, <1>3, <1>4, <1>5, <1>6, <1>7, <1>8, <1>9 DEF Next, Base

(* Segments are lost for good only by pushing to a connection that the      *)
(* timer freed: two for each such timeout and one for each push that then   *)
(* found no memory, and never more than the slot's queue still took.  No    *)
(* FIN, reset, failed close or reuse of a slot loses any (usr_dsp.c 134,    *)
(* server.c 83, tcp.c 562-735, tcp_out.c 204-428 and 567-632).              *)
THEOREM LeaksAreBounded == Spec => []LeaksBounded
<1>1. LeakInv => LeaksBounded
  BY DEF LeakInv
<1> QED
  BY <1>1, TInductive, InitLeakInv, NextLeak, PTL DEF Spec

-----------------------------------------------------------------------------
(***************************************************************************)
(* The answer to /updrecord.  Let f be the number of stored records that    *)
(* are no newer than the one asked for.  As long as the queue has space the *)
(* answer is the records f + 1 .. i behind the loop's index i, or a gap for *)
(* one without memory; once it is full it stays so, for nothing leaves it   *)
(* while Server_recv runs, and every later packet is refused, END among     *)
(* them.                                                                    *)
(***************************************************************************)

First(f) == f <= Len(log) /\ \A k \in 1 .. Len(log) : log[k].id > asked <=> k > f

(* The answer so far: the records f + 1 .. n, and END.                      *)
Upto(f, n) ==
  /\ f <= n /\ n <= Len(log)
  /\ Len(reply) = n - f
  /\ \A k \in 1 .. n - f : reply[k] \in {log[f + k].id, Gap}
WithEnd(f, n) ==
  /\ f <= n /\ n <= Len(log)
  /\ Len(reply) = n - f + 1
  /\ \A k \in 1 .. n - f : reply[k] \in {log[f + k].id, Gap}
  /\ reply[n - f + 1] \in {End, Gap}

Full       == ~HasSpace(pcb)
CutOff(f)  == Full /\ \E n \in Nat : Upto(f, n)
Sent(f, n) == Upto(f, n) \/ CutOff(f)
Ended(f)   == CutOff(f) \/ \E n \in Nat : n >= had /\ WithEnd(f, n)

Answering(f) ==
  /\ pc = "search" => reply = <<>> /\ todo = <<End>>
  /\ pc = "test" /\ i # -1 =>
       f <= i /\ f < Len(log) /\ i <= Len(log) /\ todo = <<End>> /\ Sent(f, i)
  /\ pc = "get" => f <= i /\ i < Len(log) /\ todo = <<End>> /\ Sent(f, i)
  /\ pc = "write" /\ i # -1 =>
       f < i /\ i <= Len(log) /\ todo = <<End>> /\ perTemp = log[i].id
       /\ Sent(f, i - 1)
  /\ pc = "test" /\ i = -1 /\ todo # <<>> =>
       todo = <<End>> /\ reply = <<>> /\ had <= f
  /\ pc = "write" /\ i = -1 =>
       todo = <<>> /\ perTemp = End /\ \E n \in Nat : n >= had /\ Sent(f, n)
  /\ pc = "test" /\ i = -1 /\ todo = <<>> => Ended(f)
  /\ pc = "done" => Ended(f)

Updating == cmd = "updrecord" /\ ~mixed /\ ~erased /\ Len(log) <= IndexLimit
Answered == had <= Len(log) /\ \E f \in Nat : First(f) /\ Answering(f)

AInv == /\ pc = "idle" => reply = <<>>
        /\ Updating => Answered

LEMMA BaseFacts ==
  ASSUME TInv
  PROVE  /\ IInv /\ Len(log) \in Nat /\ i \in Int /\ i >= -1 /\ had \in Nat /\ asked \in Nat
         /\ pc = "get" => i \in Nat
         /\ reply \in Seq(Packet) /\ Len(reply) \in Nat
BY LogFacts, Sizes DEF TInv, BaseInv

(* The log being in order, the newer records are its end.                   *)
LEMMA FirstExists ==
  ASSUME IInv, NEW n \in Nat
  PROVE  \E f \in Nat : f <= Len(log) /\ \A k \in 1 .. Len(log) : log[k].id > n <=> k > f
<1> DEFINE S == {k \in 1 .. Len(log) : log[k].id > n}
<1>0. Len(log) \in Nat
  BY LogFacts
<1>1. CASE S = {}
  <2>1. \A k \in 1 .. Len(log) : log[k].id > n <=> k > Len(log)
    BY <1>0, <1>1
  <2>2. PICK f \in Nat : f = Len(log)
    BY <1>0
  <2>3. f <= Len(log) /\ \A k \in 1 .. Len(log) : log[k].id > n <=> k > f
    BY <1>0, <2>1, <2>2
  <2> QED
    BY <2>2, <2>3
<1>2. CASE S # {}
  <2>1. S \in SUBSET Nat
    BY <1>0
  <2>2. PICK m \in S : \A k \in S : m <= k
    BY <1>2, <2>1, LeastNat
  <2>3. m \in 1 .. Len(log) /\ log[m].id > n
    OBVIOUS
  <2>4. ASSUME NEW k \in 1 .. Len(log) PROVE log[k].id > n <=> k > m - 1
    <3>1. CASE k < m
      <4>1. k \notin S
        BY <2>2, <2>3, <3>1
      <4> QED
        BY <2>3, <3>1, <4>1
    <3>2. CASE k = m
      BY <2>3, <3>2
    <3>3. CASE k > m
      <4>1. log[m].id < log[k].id /\ log[m].id \in Nat /\ log[k].id \in Nat
        BY <2>3, <3>3, LogFacts
      <4> QED
        BY <2>3, <3>3, <4>1
    <3> QED
      BY <2>3, <3>1, <3>2, <3>3
  <2>5. m - 1 \in Nat /\ m - 1 <= Len(log)
    BY <1>0, <2>3
  <2>6. PICK f \in Nat : f = m - 1
    BY <2>5
  <2>7. f <= Len(log) /\ \A k \in 1 .. Len(log) : log[k].id > n <=> k > f
    BY <2>4, <2>5, <2>6
  <2> QED
    BY <2>6, <2>7
<1> QED
  BY <1>1, <1>2

LEMMA InitAInv == Init => AInv
BY DEF Init, NoCommand, AInv, Updating

LEMMA RecvAnswered ==
  ASSUME TInv, AInv, NEW p \in Pcb, NEW c \in {"updrecord", "status", "wmdata"},
         NEW id \in 0 .. MaxId, Server_recv(p, c, id), c = "updrecord"
  PROVE  Answered'
<1>1. /\ pc = "idle" /\ pc' = "search" /\ todo' = <<End>> /\ asked' = id
      /\ had' = Len(log) /\ UNCHANGED <<log, reply>>
  BY DEF Server_recv, Quiet, logVars
<1>2. reply = <<>> /\ Len(log) \in Nat /\ IInv /\ id \in Nat
  BY <1>1, BaseFacts, Sizes DEF AInv
<1>3. PICK f \in Nat : f <= Len(log) /\ \A k \in 1 .. Len(log) : log[k].id > id <=> k > f
  BY <1>2, FirstExists
<1>4. First(f)'
  BY <1>1, <1>3 DEF First
<1>5. Answering(f)'
  BY <1>1, <1>2 DEF Answering
<1> QED
  BY <1>1, <1>2, <1>4, <1>5 DEF Answered

LEMMA SearchAnswered ==
  ASSUME TInv, Updating, Answered, Search
  PROVE  Answered'
<1>1. /\ pc = "search" /\ pc' = "test"
      /\ UNCHANGED <<log, reply, todo, asked, had>>
      /\ i' = IF last < asked + 1 \/ Found(asked + 1) = {} THEN -1
              ELSE CHOOSE k \in Found(asked + 1) : \A n \in Found(asked + 1) : k <= n
  BY DEF Search, logVars
<1>2. IInv /\ Len(log) \in Nat /\ asked \in Nat /\ last \in Nat /\ IndexLimit \in Nat
  BY BaseFacts, LogFacts, Sizes
<1>3. PICK f \in Nat : First(f) /\ Answering(f)
  BY DEF Answered
<1>4. reply = <<>> /\ todo = <<End>> /\ had <= Len(log) /\ First(f)'
  BY <1>1, <1>3 DEF Answering, Answered, First
<1>5. \A k \in 0 .. Len(log) - 1 :
        /\ k + 1 \in 1 .. Len(log)
        /\ k \in Found(asked + 1) <=> log[k + 1].id > asked
  <2> SUFFICES ASSUME NEW k \in 0 .. Len(log) - 1
               PROVE  /\ k + 1 \in 1 .. Len(log)
                      /\ k \in Found(asked + 1) <=> log[k + 1].id > asked
    OBVIOUS
  <2>1. k + 1 \in 1 .. Len(log) /\ log[k + 1].id \in Nat
    BY <1>2, LogFacts
  <2>2. Int8(k) = k
    BY <1>2, Int8InReach DEF Updating
  <2>3. ~Rejected(Int8(k)) /\ GetRecord(Int8(k)) = log[k + 1].id
    BY <1>2, <2>2 DEF Rejected, GetRecord
  <2> QED
    BY <1>2, <2>1, <2>3 DEF Found
<1>6. CASE last < asked + 1 \/ Found(asked + 1) = {}
  <2>1. i' = -1
    BY <1>1, <1>6
  <2>2. \A k \in 1 .. Len(log) : ~(log[k].id > asked)
    <3> SUFFICES ASSUME NEW k \in 1 .. Len(log), log[k].id > asked PROVE FALSE
      OBVIOUS
    <3>1. log[k].id <= last /\ log[k].id \in Nat
      BY <1>2, LogFacts
    <3>2. k - 1 \in 0 .. Len(log) - 1 /\ (k - 1) + 1 = k
      BY <1>2
    <3>3. k - 1 \in Found(asked + 1)
      BY <1>5, <3>2
    <3> QED
      BY <1>2, <1>6, <3>1, <3>3
  <2>3. f = Len(log)
    <3> SUFFICES ASSUME f # Len(log) PROVE FALSE
      OBVIOUS
    <3>1. f + 1 \in 1 .. Len(log) /\ f + 1 > f
      BY <1>2, <1>3 DEF First
    <3> QED
      BY <1>3, <2>2, <3>1 DEF First
  <2>4. Answering(f)'
    BY <1>1, <1>4, <2>1, <2>3 DEF Answering
  <2> QED
    BY <1>1, <1>4, <2>4 DEF Answered
<1>7. CASE ~(last < asked + 1 \/ Found(asked + 1) = {})
  <2>1. /\ i' \in Found(asked + 1) /\ i' \in 0 .. Len(log) - 1
        /\ \A m \in Found(asked + 1) : i' <= m
    BY <1>1, <1>2, <1>7, LeastFound
  <2>2. log[i' + 1].id > asked /\ i' + 1 \in 1 .. Len(log)
    BY <1>5, <2>1
  <2>3. f <= i'
    BY <1>2, <1>3, <2>1, <2>2 DEF First
  <2>4. f \in 0 .. Len(log) - 1 /\ log[f + 1].id > asked
    <3>1. f \in 0 .. Len(log) - 1 /\ f + 1 \in 1 .. Len(log) /\ f + 1 > f
      BY <1>2, <2>1, <2>3
    <3> QED
      BY <1>3, <3>1 DEF First
  <2>5. f \in Found(asked + 1)
    BY <1>5, <2>4
  <2>6. f = i'
    BY <2>1, <2>3, <2>5
  <2>7. Upto(f, i)'
    <3>1. reply' = <<>> /\ log' = log /\ i' - f = 0 /\ i' <= Len(log) /\ f <= i'
      BY <1>1, <1>2, <1>4, <2>1, <2>6
    <3>2. \A k \in 1 .. 0 : FALSE
      OBVIOUS
    <3>3. Len(reply') = 0 /\ \A k \in 1 .. 0 : reply'[k] \in {log'[f + k].id, Gap}
      BY <3>1, <3>2
    <3> QED
      BY <3>1, <3>3 DEF Upto
  <2>8. Answering(f)'
    BY <1>1, <1>2, <1>4, <2>1, <2>6, <2>7 DEF Answering, Sent
  <2> QED
    BY <1>1, <1>4, <2>8 DEF Answered
<1> QED
  BY <1>6, <1>7

(* While Server_recv runs, a full queue stays full.                         *)
LEMMA FullStays ==
  ASSUME TInv, pcb \in Pcb, UNCHANGED pcb, queued' \in [Pcb -> 0 .. QueueLen],
         queued'[pcb] >= queued[pcb], Full
  PROVE  Full'
<1>1. queued[pcb] \in Nat /\ queued'[pcb] \in Nat /\ QueueLen \in Nat
  BY Sizes DEF TInv, PoolInv
<1> QED
  BY <1>1 DEF Full, HasSpace

LEMMA TestAnswered ==
  ASSUME TInv, Answered, Test
  PROVE  Answered'
<1>1. /\ pc = "test" /\ UNCHANGED <<log, reply, asked, had, queued, pcb>>
  BY DEF Test, logVars, pool
<1>2. Len(log) \in Nat /\ i \in Int /\ i >= -1 /\ had \in Nat
  BY BaseFacts
<1>3. PICK f \in Nat : First(f) /\ Answering(f)
  BY DEF Answered
<1>4. First(f)' /\ had' <= Len(log')
  BY <1>1, <1>3 DEF First, Answered
<1>5. /\ Full' <=> Full
      /\ \A n \in Nat : Upto(f, n)' <=> Upto(f, n)
      /\ \A n \in Nat : WithEnd(f, n)' <=> WithEnd(f, n)
  BY <1>1 DEF Full, HasSpace, Upto, WithEnd
<1>6. /\ \A n \in Nat : Sent(f, n)' <=> Sent(f, n)
      /\ Ended(f)' <=> Ended(f)
  BY <1>1, <1>5 DEF Sent, Ended, CutOff
<1>7. CASE i # -1 /\ i < Len(log)
  <2>1. pc' = "get" /\ UNCHANGED <<i, todo>>
    BY <1>7 DEF Test
  <2>2. f <= i /\ todo = <<End>> /\ Sent(f, i) /\ i \in Nat
    BY <1>1, <1>2, <1>3, <1>7 DEF Answering
  <2>3. Sent(f, i)'
    BY <1>1, <1>5, <2>1, <2>2 DEF Sent, CutOff, Upto
  <2>4. Answering(f)'
    BY <1>1, <1>7, <2>1, <2>2, <2>3 DEF Answering
  <2> QED
    BY <1>4, <2>4 DEF Answered
<1>8. CASE i # -1 /\ ~(i < Len(log))
  <2>1. f < Len(log) /\ i = Len(log) /\ todo = <<End>> /\ Sent(f, Len(log))
    BY <1>1, <1>2, <1>3, <1>8 DEF Answering
  <2>2. i' = -1 /\ pc' = "write" /\ perTemp' = End /\ todo' = <<>>
    BY <1>8, <2>1 DEF Test
  <2>3. Sent(f, Len(log))' /\ Len(log) >= had' /\ Len(log') = Len(log)
    BY <1>1, <1>2, <1>4, <1>6, <2>1 DEF Answered
  <2>4. \E n \in Nat : n >= had' /\ Sent(f, n)'
    BY <1>1, <1>2, <2>1, <1>6, <2>3
  <2>5. Answering(f)'
    BY <2>2, <2>4 DEF Answering
  <2> QED
    BY <1>4, <2>5 DEF Answered
<1>9. CASE i = -1 /\ todo # <<>>
  <2>1. todo = <<End>> /\ reply = <<>> /\ had <= f
    BY <1>1, <1>3, <1>9 DEF Answering
  <2>2. i' = -1 /\ pc' = "write" /\ perTemp' = End /\ todo' = <<>>
    BY <1>9, <2>1 DEF Test
  <2>3. Upto(f, f)
    <3>1. f - f = 0 /\ f <= Len(log) /\ f <= f
      BY <1>3 DEF First
    <3>2. Len(reply) = 0 /\ \A k \in 1 .. 0 : reply[k] \in {log[f + k].id, Gap}
      BY <2>1
    <3> QED
      BY <3>1, <3>2 DEF Upto
  <2>4. \E n \in Nat : n >= had' /\ Sent(f, n)'
    BY <1>1, <1>6, <2>1, <2>3 DEF Sent
  <2>5. Answering(f)'
    BY <2>2, <2>4 DEF Answering
  <2> QED
    BY <1>4, <2>5 DEF Answered
<1>10. CASE i = -1 /\ todo = <<>>
  <2>1. i' = -1 /\ pc' = "done" /\ UNCHANGED todo
    BY <1>10 DEF Test
  <2>2. Ended(f)'
    BY <1>1, <1>3, <1>6, <1>10 DEF Answering
  <2>3. Answering(f)'
    BY <2>1, <2>2 DEF Answering
  <2> QED
    BY <1>4, <2>3 DEF Answered
<1> QED
  BY <1>7, <1>8, <1>9, <1>10

LEMMA GetAnswered ==
  ASSUME TInv, Updating, Answered, Get
  PROVE  Answered'
<1>1. /\ pc = "get" /\ pc' = "write" /\ i' = i + 1 /\ perTemp' = WMRecord'
      /\ UNCHANGED <<log, reply, todo, asked, had, queued, pcb>>
  BY DEF Get, logVars, pool
<1>2. Len(log) \in Nat /\ i \in Nat /\ IndexLimit \in Nat
  BY <1>1, BaseFacts, Sizes
<1>3. PICK f \in Nat : First(f) /\ Answering(f)
  BY DEF Answered
<1>4. First(f)' /\ had' <= Len(log')
  BY <1>1, <1>3 DEF First, Answered
<1>5. f <= i /\ i < Len(log) /\ todo = <<End>> /\ Sent(f, i)
  BY <1>1, <1>3 DEF Answering
<1>6. perTemp' = log[i + 1].id
  <2>1. Int8(i) = i
    BY <1>2, <1>5, Int8InReach DEF Updating
  <2> QED
    BY <1>1, <1>2, <1>5, <2>1 DEF Get, Rejected, GetRecord
<1>7. Sent(f, i - 1)'
  <2>1. i' - 1 = i
    BY <1>1, <1>2
  <2>2. /\ Full' <=> Full
        /\ \A n \in Nat : Upto(f, n)' <=> Upto(f, n)
    BY <1>1 DEF Full, HasSpace, Upto
  <2> QED
    BY <1>2, <1>5, <2>1, <2>2 DEF Sent, CutOff, Upto
<1>8. Answering(f)'
  BY <1>1, <1>2, <1>5, <1>6, <1>7 DEF Answering
<1> QED
  BY <1>4, <1>8 DEF Answered

(* A packet goes to the end of the answer, or a gap; or the queue is full.  *)
LEMMA SendAnswered ==
  ASSUME TInv, Answered, SendNetPacket
  PROVE  Answered'
<1>1. /\ pc = "write" /\ pc' = "test"
      /\ UNCHANGED <<log, state, pcb, asked, i, todo, had>>
  BY DEF SendNetPacket, logVars
<1>2. Len(log) \in Nat /\ i \in Int /\ i >= -1 /\ had \in Nat
      /\ reply \in Seq(Packet) /\ Len(reply) \in Nat
  BY BaseFacts
<1>3. pcb \in Pcb /\ state[pcb] = "open" /\ pcb # None /\ PoolInv /\ perTemp \in Packet
  BY <1>1, Sizes DEF TInv, Serving, BaseInv
<1>4. CanSend(pcb) <=> ~Full
  BY <1>3 DEF CanSend, Full
<1>5. PICK f \in Nat : First(f) /\ Answering(f)
  BY DEF Answered
<1>6. First(f)' /\ had' <= Len(log')
  BY <1>1, <1>5 DEF First, Answered
<1>7. CASE Full
  <2>1. reply' = reply /\ queued' = queued
    BY <1>4, <1>7 DEF SendNetPacket, Refused, Starved, Queued
  <2>2. Full' /\ \A n \in Nat : Upto(f, n)' <=> Upto(f, n)
    BY <1>1, <1>7, <2>1 DEF Full, HasSpace, Upto
  <2>3. ASSUME NEW n \in Nat, Sent(f, n) PROVE CutOff(f)'
    BY <2>2, <2>3 DEF Sent, CutOff
  <2>4. CASE i # -1
    <3>1. f < i /\ i <= Len(log) /\ todo = <<End>> /\ Sent(f, i - 1) /\ i - 1 \in Nat
      BY <1>1, <1>2, <1>5, <2>4 DEF Answering
    <3>2. CutOff(f)'
      BY <2>3, <3>1
    <3>3. Answering(f)'
      BY <1>1, <1>2, <2>4, <3>1, <3>2 DEF Answering, Sent
    <3> QED
      BY <1>6, <3>3 DEF Answered
  <2>5. CASE i = -1
    <3>1. todo = <<>> /\ \E n \in Nat : Sent(f, n)
      BY <1>1, <1>5, <2>5 DEF Answering
    <3>2. Ended(f)'
      BY <2>3, <3>1 DEF Ended
    <3>3. Answering(f)'
      BY <1>1, <2>5, <3>1, <3>2 DEF Answering
    <3> QED
      BY <1>6, <3>3 DEF Answered
  <2> QED
    BY <2>4, <2>5
<1>8. CASE ~Full
  <2>1. reply' = Append(reply, perTemp) \/ reply' = Append(reply, Gap)
    BY <1>4, <1>8 DEF SendNetPacket, Refused
  <2>2. /\ Len(reply') = Len(reply) + 1 /\ reply'[Len(reply) + 1] \in {perTemp, Gap}
        /\ \A k \in 1 .. Len(reply) : reply'[k] = reply[k]
    BY <1>2, <1>3, <2>1 DEF Packet
  <2>3. \A n \in Nat : Sent(f, n) => Upto(f, n)
    BY <1>8 DEF Sent, CutOff
  <2>4. CASE i # -1
    <3>1. f < i /\ i <= Len(log) /\ todo = <<End>> /\ perTemp = log[i].id
          /\ Sent(f, i - 1) /\ i - 1 \in Nat
      BY <1>1, <1>2, <1>5, <2>4 DEF Answering
    <3>2. Upto(f, i - 1)
      BY <2>3, <3>1
    <3>3. /\ Len(reply) = (i - 1) - f
          /\ \A k \in 1 .. (i - 1) - f : reply[k] \in {log[f + k].id, Gap}
      BY <3>2 DEF Upto
    <3>4. /\ Len(reply') = i - f
          /\ \A k \in 1 .. i - f : reply'[k] \in {log[f + k].id, Gap}
      <4>1. Len(reply') = i - f
        BY <1>2, <2>2, <3>3
      <4> SUFFICES ASSUME NEW k \in 1 .. i - f PROVE reply'[k] \in {log[f + k].id, Gap}
        BY <4>1
      <4>2. CASE k = i - f
        <5>1. k = Len(reply) + 1 /\ f + k = i
          BY <1>2, <3>3, <4>2
        <5> QED
          BY <2>2, <3>1, <5>1
      <4>3. CASE k # i - f
        <5>1. k \in 1 .. Len(reply) /\ k \in 1 .. (i - 1) - f
          BY <1>2, <3>3, <4>3
        <5> QED
          BY <2>2, <3>3, <5>1
      <4> QED
        BY <4>2, <4>3
    <3>5. Upto(f, i)'
      BY <1>1, <1>2, <3>1, <3>4 DEF Upto
    <3>6. Answering(f)'
      BY <1>1, <1>2, <2>4, <3>1, <3>5 DEF Answering, Sent
    <3> QED
      BY <1>6, <3>6 DEF Answered
  <2>5. CASE i = -1
    <3>1. todo = <<>> /\ perTemp = End
      BY <1>1, <1>5, <2>5 DEF Answering
    <3>2. PICK n \in Nat : n >= had /\ Sent(f, n)
      BY <1>1, <1>5, <2>5 DEF Answering
    <3>3. /\ f <= n /\ n <= Len(log) /\ Len(reply) = n - f
          /\ \A k \in 1 .. n - f : reply[k] \in {log[f + k].id, Gap}
      BY <2>3, <3>2 DEF Upto
    <3>4. WithEnd(f, n)'
      BY <1>1, <1>2, <2>2, <3>1, <3>3 DEF WithEnd
    <3>5. Ended(f)'
      BY <1>1, <3>2, <3>4 DEF Ended
    <3>6. Answering(f)'
      BY <1>1, <2>5, <3>1, <3>5 DEF Answering
    <3> QED
      BY <1>6, <3>6 DEF Answered
  <2> QED
    BY <2>4, <2>5
<1> QED
  BY <1>7, <1>8

(* A record written meanwhile is the newest: it changes neither what has    *)
(* been sent nor what is to be sent before it.                              *)
LEMMA WriteAnswered ==
  ASSUME TInv, Answered, pc # "idle", UNCHANGED <<base, perTemp>>,
         queued' \in [Pcb -> 0 .. QueueLen], \A q \in Pcb : queued'[q] >= queued[q],
         NEW w \in Payload, NEW v \in Payload, Write(w, v)
  PROVE  Answered'
<1>1. UNCHANGED <<pc, pcb, asked, i, todo, reply, had, perTemp>>
  BY DEF base
<1>2. Len(log) \in Nat /\ i \in Int /\ i >= -1 /\ had \in Nat /\ asked \in Nat
      /\ log \in Seq(Record) /\ last \in Nat
      /\ \A k \in 1 .. Len(log) : log[k].id \in Nat /\ log[k].id <= last
  BY BaseFacts, LogFacts
<1>3. /\ Len(log') = Len(log) + 1 /\ log'[Len(log) + 1].id = last + 1
      /\ \A k \in 1 .. Len(log) : log'[k] = log[k]
  BY <1>2 DEF Write
<1>4. PICK f \in Nat : First(f) /\ Answering(f)
  BY DEF Answered
<1>5. Full => Full'
  BY <1>1, FullStays DEF TInv, Serving
<1>6. had' <= Len(log')
  BY <1>1, <1>2, <1>3 DEF Answered
<1>7. /\ \A n \in Nat : Upto(f, n) => Upto(f, n)'
      /\ \A n \in Nat : WithEnd(f, n) => WithEnd(f, n)'
  <2>1. ASSUME NEW n \in Nat, f <= n, n <= Len(log)
        PROVE  n <= Len(log') /\ \A k \in 1 .. n - f : log'[f + k] = log[f + k]
    <3>1. n <= Len(log')
      BY <1>2, <1>3, <2>1
    <3>2. \A k \in 1 .. n - f : f + k \in 1 .. Len(log)
      BY <1>2, <2>1
    <3> QED
      BY <1>3, <3>1, <3>2
  <2> QED
    BY <1>1, <2>1 DEF Upto, WithEnd
<1>8. /\ \A n \in Nat : Sent(f, n) => Sent(f, n)'
      /\ Ended(f) => Ended(f)'
  BY <1>1, <1>5, <1>7 DEF Sent, Ended, CutOff
<1>9. CASE last + 1 > asked \/ f < Len(log)
  <2>1. First(f)'
    <3>1. last + 1 > asked
      <4> SUFFICES ASSUME f < Len(log) PROVE last + 1 > asked
        BY <1>9
      <4>1. Len(log) \in 1 .. Len(log) /\ Len(log) > f
        BY <1>2
      <4>2. log[Len(log)].id > asked
        BY <1>4, <4>1 DEF First
      <4> QED
        BY <1>2, <4>1, <4>2
    <3>2. f <= Len(log')
      BY <1>2, <1>3, <1>4 DEF First
    <3>3. ASSUME NEW k \in 1 .. Len(log') PROVE log'[k].id > asked' <=> k > f
      <4>1. CASE k \in 1 .. Len(log)
        BY <1>1, <1>3, <1>4, <4>1 DEF First
      <4>2. CASE k = Len(log) + 1
        BY <1>1, <1>2, <1>3, <1>4, <3>1, <4>2 DEF First
      <4> QED
        BY <1>2, <1>3, <4>1, <4>2
    <3> QED
      BY <3>2, <3>3 DEF First
  <2>2. Answering(f)'
    <3>1. i # -1 /\ pc = "write" => i - 1 \in Nat /\ log'[i] = log[i]
      BY <1>2, <1>3, <1>4 DEF Answering
    <3>2. i # -1 => i \in Nat
      BY <1>2
    <3>3. pc = "get" => i \in Nat
      BY BaseFacts
    <3> QED
      BY <1>1, <1>2, <1>3, <1>4, <1>8, <3>1, <3>2, <3>3 DEF Answering
  <2> QED
    BY <1>6, <2>1, <2>2 DEF Answered
<1>10. CASE ~(last + 1 > asked \/ f < Len(log))
  <2>1. f = Len(log) /\ asked >= last + 1
    BY <1>2, <1>4, <1>10 DEF First
  <2>2. PICK g \in Nat : g = f + 1
    OBVIOUS
  <2>3. First(g)'
    <3>1. ASSUME NEW k \in 1 .. Len(log') PROVE ~(log'[k].id > asked') /\ ~(k > g)
      <4>1. CASE k \in 1 .. Len(log)
        BY <1>1, <1>2, <1>3, <2>1, <2>2, <4>1
      <4>2. CASE k = Len(log) + 1
        BY <1>1, <1>2, <1>3, <2>1, <2>2, <4>2
      <4> QED
        BY <1>2, <1>3, <4>1, <4>2
    <3>2. g <= Len(log')
      BY <1>3, <2>1, <2>2
    <3> QED
      BY <3>1, <3>2 DEF First
  <2>4. ASSUME NEW n \in Nat, Upto(f, n) PROVE n = f /\ Upto(g, g)'
    <3>1. n = f /\ Len(reply) = 0
      BY <1>2, <2>1, <2>4 DEF Upto
    <3>2. g - g = 0 /\ g <= Len(log') /\ g <= g
      BY <1>3, <2>1, <2>2
    <3>3. Len(reply') = 0 /\ \A k \in 1 .. 0 : reply'[k] \in {log'[g + k].id, Gap}
      BY <1>1, <3>1
    <3> QED
      BY <3>1, <3>2, <3>3 DEF Upto
  <2>5. ASSUME NEW n \in Nat, WithEnd(f, n) PROVE n = f /\ WithEnd(g, g)'
    <3>1. n = f /\ Len(reply) = 1 /\ reply[1] \in {End, Gap}
      BY <1>2, <2>1, <2>5 DEF WithEnd
    <3>2. g - g = 0 /\ g <= Len(log') /\ g <= g
      BY <1>3, <2>1, <2>2
    <3>3. Len(reply') = 0 + 1 /\ reply'[0 + 1] \in {End, Gap}
          /\ \A k \in 1 .. 0 : reply'[k] \in {log'[g + k].id, Gap}
      BY <1>1, <3>1
    <3> QED
      BY <3>1, <3>2, <3>3 DEF WithEnd
  <2>6. CutOff(f) => CutOff(g)'
    BY <1>5, <2>4 DEF CutOff
  <2>7. ASSUME NEW n \in Nat, n >= had, Sent(f, n)
        PROVE  \E m \in Nat : m >= had /\ Sent(g, m)'
    <3>1. CASE Upto(f, n)
      <4>1. n = f /\ Upto(g, g)' /\ g >= had
        BY <1>2, <2>2, <2>4, <2>7, <3>1
      <4> QED
        BY <4>1 DEF Sent
    <3>2. CASE CutOff(f)
      BY <2>6, <2>7, <3>2 DEF Sent
    <3> QED
      BY <2>7, <3>1, <3>2 DEF Sent
  <2>8. Ended(f) => Ended(g)'
    <3>1. ASSUME NEW n \in Nat, n >= had, WithEnd(f, n)
          PROVE  g >= had /\ WithEnd(g, g)'
      BY <1>2, <2>2, <2>5, <3>1
    <3> QED
      BY <1>1, <2>6, <3>1 DEF Ended
  <2>9. had <= f => had <= g
    BY <1>2, <2>2
  <2>10. /\ ~(pc = "test" /\ i # -1) /\ pc # "get"
         /\ ~(pc = "write" /\ i # -1)
    BY <1>2, <1>4, <2>1 DEF Answering
  <2>11. Answering(g)'
    BY <1>1, <1>4, <2>7, <2>8, <2>9, <2>10 DEF Answering
  <2> QED
    BY <1>6, <2>3, <2>11 DEF Answered
<1> QED
  BY <1>9, <1>10

LEMMA ReportAnswered ==
  ASSUME TInv, Answered, Updating', pc # "idle", Report
  PROVE  Answered'
<1>1. UNCHANGED base /\ pcb \in Pcb /\ PoolInv
  BY DEF Report, TInv, Serving
<1>2. UNCHANGED perTemp
  BY DEF Report, Updating
<1>3. queued' \in [Pcb -> 0 .. QueueLen] /\ \A q \in Pcb : queued'[q] >= queued[q]
  <2>1. CASE queued' = queued
    BY <1>1, <2>1, Sizes DEF PoolInv
  <2>2. CASE queued' # queued
    <3>1. gPcb \in Pcb /\ Handed(gPcb)
      BY <1>1, <2>2 DEF Report, PoolInv, Handed
    <3> QED
      BY <1>1, <3>1, HandedTypes
  <2> QED
    BY <2>1, <2>2
<1>4. CASE UNCHANGED logVars
  <2>1. PICK f \in Nat : First(f) /\ Answering(f)
    BY DEF Answered
  <2>2. UNCHANGED <<log, pc, pcb, asked, i, todo, reply, had, perTemp>>
    BY <1>1, <1>2, <1>4 DEF base, logVars
  <2>3. Full => Full'
    BY <1>1, <1>3, <2>2, FullStays
  <2>4. /\ \A n \in Nat : Upto(f, n)' <=> Upto(f, n)
        /\ \A n \in Nat : WithEnd(f, n)' <=> WithEnd(f, n)
    BY <2>2 DEF Upto, WithEnd
  <2>5. /\ \A n \in Nat : Sent(f, n) => Sent(f, n)'
        /\ Ended(f) => Ended(f)'
    BY <2>2, <2>3, <2>4 DEF Sent, Ended, CutOff
  <2>6. First(f)' /\ had' <= Len(log')
    BY <2>1, <2>2 DEF First, Answered
  <2>7. /\ (i # -1 /\ pc \in {"test", "write"}) \/ pc = "get" => i \in Nat
        /\ pc = "write" /\ i # -1 => i - 1 \in Nat
    BY <2>1, BaseFacts DEF Answering
  <2>8. Answering(f)'
    BY <2>1, <2>2, <2>5, <2>7 DEF Answering
  <2> QED
    BY <2>6, <2>8 DEF Answered
<1>5. CASE \E w, v \in Payload : Write(w, v)
  BY <1>1, <1>2, <1>3, <1>5, WriteAnswered
<1> QED
  BY <1>4, <1>5 DEF Report

LEMMA NextAInv == TInv /\ AInv /\ [Next]_vars => AInv'
<1> SUFFICES ASSUME TInv, AInv, [Next]_vars PROVE AInv'
  OBVIOUS
<1>1. CASE UNCHANGED <<log, perTemp, base, mixed, erased>> /\ pc = "idle"
  <2>1. cmd' = "none" /\ pc' = pc /\ reply' = reply
    BY <1>1 DEF TInv, Serving, base
  <2> QED
    BY <2>1 DEF AInv, Updating
<1>2. CASE \E p \in Pcb, c \in {"updrecord", "status", "wmdata"}, id \in 0 .. MaxId :
             (c # "updrecord" => id = 0) /\ Server_recv(p, c, id)
  <2>1. PICK p \in Pcb, c \in {"updrecord", "status", "wmdata"}, id \in 0 .. MaxId :
          Server_recv(p, c, id)
    BY <1>2
  <2>2. pc' # "idle" /\ cmd' = c
    BY <2>1 DEF Server_recv
  <2>3. c = "updrecord" => Answered'
    BY <2>1, RecvAnswered
  <2> QED
    BY <2>2, <2>3 DEF AInv, Updating
<1>3. CASE Search \/ Test \/ Get \/ SendNetPacket
  <2>1. pc # "idle" /\ pc' # "idle" /\ UNCHANGED <<log, cmd, mixed, erased>>
    BY <1>3 DEF Search, Test, Get, SendNetPacket, history, logVars
  <2>2. Updating' => Answered'
    <3>1. Updating' => Updating
      BY <2>1 DEF Updating
    <3>2. Updating /\ Answered => Answered'
      BY <1>3, SearchAnswered, TestAnswered, GetAnswered, SendAnswered
    <3> QED
      BY <3>1, <3>2 DEF AInv
  <2> QED
    BY <2>1, <2>2 DEF AInv
<1>4. CASE Return \/ PowerCycle
  <2>1. cmd' = "none" /\ reply' = <<>>
    BY <1>4 DEF Return, PowerCycle, Finish
  <2> QED
    BY <2>1 DEF AInv, Updating
<1>5. CASE Report
  <2>1. UNCHANGED <<base, erased>> /\ (Updating' => Updating)
    <3>1. UNCHANGED <<base, erased>> /\ cmd' = cmd
      BY <1>5 DEF Report, base
    <3>2. mixed' = (mixed \/ pc = "write") \/ mixed' = mixed
      BY <1>5 DEF Report
    <3>3. ~mixed' => ~mixed
      BY <3>2, Zenon
    <3>4. Len(log) \in Nat /\ log \in Seq(Record) /\ IndexLimit \in Nat
      BY BaseFacts, LogFacts, Sizes
    <3>5. Len(log') >= Len(log)
      <4>1. CASE UNCHANGED log
        BY <3>4, <4>1
      <4>2. CASE \E w, v \in Payload : Write(w, v)
        <5>1. PICK w \in Payload, v \in Payload : Write(w, v)
          BY <4>2
        <5>2. log' = Append(log, [id |-> last + 1, wm |-> w, frames |-> v])
          BY <5>1 DEF Write
        <5>3. Len(log') = Len(log) + 1
          BY <3>4, <5>2
        <5> QED
          BY <3>4, <5>3
      <4> QED
        BY <1>5, <4>1, <4>2 DEF Report, logVars
    <3>6. Len(log') \in Nat
      BY LogStep, LogFacts
    <3>7. Len(log') <= IndexLimit => Len(log) <= IndexLimit
      BY <3>4, <3>5, <3>6
    <3> QED
      BY <3>1, <3>3, <3>7 DEF Updating
  <2>2. pc' = pc /\ cmd' = cmd /\ reply' = reply
    BY <2>1 DEF base
  <2>3. CASE pc = "idle"
    BY <2>2, <2>3 DEF AInv, TInv, Serving, Updating
  <2>4. CASE pc # "idle"
    BY <1>5, <2>1, <2>2, <2>4, ReportAnswered DEF AInv
  <2> QED
    BY <2>3, <2>4
<1>6. CASE HostErase
  <2>1. UNCHANGED base /\ erased' = (pc # "idle")
    BY <1>6 DEF HostErase
  <2>2. pc' = pc /\ cmd' = cmd /\ reply' = reply
    BY <2>1 DEF base
  <2>3. ~Updating'
    BY <2>1, <2>2 DEF Updating, TInv, Serving
  <2> QED
    BY <2>2, <2>3 DEF AInv
<1>7. CASE Network \/ (\E p \in Pcb : TcpErase(p))
  <2>1. pc = "idle" /\ UNCHANGED <<perTemp, base, mixed, erased>>
    BY <1>7, NetworkLeavesBase DEF TcpErase, Quiet, history
  <2>2. cmd' = "none" /\ pc' = pc /\ reply' = reply
    BY <2>1 DEF TInv, Serving, base
  <2> QED
    BY <2>1, <2>2 DEF AInv, Updating
<1>8. CASE UNCHANGED vars
  <2>1. UNCHANGED <<log, queued, perTemp, pcb, pc, cmd, asked, i, todo, reply, had,
                    mixed, erased>>
    BY <1>8 DEF vars, base, history, pool, logVars
  <2>2. Full' <=> Full
    BY <2>1 DEF Full, HasSpace
  <2>3. ASSUME NEW f, NEW n
        PROVE  (Upto(f, n)' <=> Upto(f, n)) /\ (WithEnd(f, n)' <=> WithEnd(f, n))
    BY <2>1 DEF Upto, WithEnd
  <2>4. ASSUME NEW f PROVE (First(f)' <=> First(f)) /\ (CutOff(f)' <=> CutOff(f))
    BY <2>1, <2>2, <2>3 DEF First, CutOff
  <2>5. ASSUME NEW f, NEW n PROVE Sent(f, n)' <=> Sent(f, n)
    BY <2>3, <2>4, Zenon DEF Sent
  <2>6. ASSUME NEW f PROVE Ended(f)' <=> Ended(f)
    BY <2>1, <2>3, <2>4 DEF Ended
  <2>7. ASSUME NEW f, Answering(f) PROVE Answering(f)'
    BY <2>1, <2>5, <2>6, <2>7 DEF Answering
  <2>8. Answered => Answered'
    BY <2>1, <2>4, <2>7 DEF Answered
  <2> QED
    BY <2>1, <2>8 DEF AInv, Updating
<1> QED
  BY <1>2, <1>3, <1>4, <1>5, <1>6, <1>7, <1>8 DEF Next, Base

(* What the invariant says is what the client may rely on.                  *)
LEMMA UptoIds ==
  ASSUME TInv, NEW f \in Nat, NEW n \in Nat
  PROVE  /\ Upto(f, n) => n \in f .. Len(log) /\ Accounts(Ids(f, n))
         /\ WithEnd(f, n) => n \in f .. Len(log) /\ Accounts(Append(Ids(f, n), End))
<1>1. Len(log) \in Nat /\ IInv
  BY BaseFacts
<1>2. ASSUME f <= n, n <= Len(log)
      PROVE  /\ n - f \in Nat /\ n \in f .. Len(log)
             /\ Ids(f, n) \in Seq(Packet) /\ Len(Ids(f, n)) = n - f
             /\ \A k \in 1 .. n - f : Ids(f, n)[k] = log[f + k].id
  <2>1. n - f \in Nat /\ n \in f .. Len(log)
    BY <1>1, <1>2
  <2>2. \A k \in 1 .. n - f : log[f + k].id \in Packet
    <3>1. \A k \in 1 .. n - f : f + k \in 1 .. Len(log)
      BY <1>1, <1>2
    <3> QED
      BY <1>1, <3>1, LogFacts DEF Packet
  <2>3. Ids(f, n) \in [1 .. n - f -> Packet]
    BY <2>2 DEF Ids
  <2>4. [1 .. n - f -> Packet] \subseteq Seq(Packet)
    BY <2>1, SeqDef
  <2>5. \A k \in 1 .. n - f : Ids(f, n)[k] = log[f + k].id
    BY DEF Ids
  <2> QED
    BY <2>1, <2>3, <2>4, <2>5
<1>3. ASSUME Upto(f, n) PROVE n \in f .. Len(log) /\ Accounts(Ids(f, n))
  <2>1. /\ f <= n /\ n <= Len(log) /\ Len(reply) = n - f
        /\ \A k \in 1 .. n - f : reply[k] \in {log[f + k].id, Gap}
    BY <1>3 DEF Upto
  <2>2. DOMAIN Ids(f, n) = 1 .. n - f
    BY DEF Ids
  <2> QED
    BY <1>2, <2>1, <2>2 DEF Accounts
<1>4. ASSUME WithEnd(f, n)
      PROVE  n \in f .. Len(log) /\ Accounts(Append(Ids(f, n), End))
  <2>1. /\ f <= n /\ n <= Len(log) /\ Len(reply) = n - f + 1
        /\ \A k \in 1 .. n - f : reply[k] \in {log[f + k].id, Gap}
        /\ reply[n - f + 1] \in {End, Gap}
    BY <1>4 DEF WithEnd
  <2>2. End \in Packet
    BY DEF Packet
  <2>3. PICK s \in Seq(Packet) : s = Ids(f, n) /\ Len(s) = n - f
                                 /\ \A k \in 1 .. n - f : s[k] = log[f + k].id
    BY <1>2, <2>1
  <2>4. n - f \in Nat
    BY <1>2, <2>1
  <2>5. /\ Len(Append(s, End)) = n - f + 1 /\ DOMAIN Append(s, End) = 1 .. n - f + 1
        /\ Append(s, End)[n - f + 1] = End
        /\ \A k \in 1 .. n - f : Append(s, End)[k] = s[k]
    BY <2>2, <2>3, <2>4
  <2>6. ASSUME NEW k \in 1 .. n - f + 1 PROVE reply[k] \in {Append(s, End)[k], Gap}
    <3>1. CASE k = n - f + 1
      BY <2>1, <2>5, <3>1
    <3>2. CASE k # n - f + 1
      <4>1. k \in 1 .. n - f
        BY <2>4, <3>2
      <4> QED
        BY <2>1, <2>3, <2>5, <4>1
    <3> QED
      BY <3>1, <3>2
  <2>7. Accounts(Append(s, End))
    BY <2>1, <2>5, <2>6 DEF Accounts
  <2> QED
    BY <1>2, <2>1, <2>3, <2>7
<1> QED
  BY <1>3, <1>4

LEMMA AnswerIsWhole == TInv /\ AInv => EndMeansAll
<1> SUFFICES ASSUME TInv, AInv, Updating PROVE
      \E f \in 0 .. Len(log) : NewerAfter(f) /\ \E n \in f .. Len(log) :
        \/ Accounts(Ids(f, n)) /\ (pc = "done" => ~HasSpace(pcb))
        \/ n >= had /\ Accounts(Append(Ids(f, n), End))
  BY DEF EndMeansAll, Updating
<1>1. Len(log) \in Nat /\ reply \in Seq(Packet) /\ Len(reply) \in Nat
      /\ log \in Seq(Record) /\ i \in Int /\ i >= -1
      /\ (pc = "get" => i \in Nat)
  BY BaseFacts, LogFacts
<1>2. PICK f \in Nat : First(f) /\ Answering(f)
  BY DEF AInv, Answered
<1>3. f \in 0 .. Len(log) /\ NewerAfter(f)
  BY <1>1, <1>2 DEF First, NewerAfter
<1>4. reply = <<>> => Upto(f, f)
  <2> SUFFICES ASSUME reply = <<>> PROVE Upto(f, f)
    OBVIOUS
  <2>1. f - f = 0 /\ f <= Len(log) /\ f <= f
    BY <1>2 DEF First
  <2>2. Len(reply) = 0 /\ \A k \in 1 .. 0 : reply[k] \in {log[f + k].id, Gap}
    OBVIOUS
  <2> QED
    BY <2>1, <2>2 DEF Upto
<1>5. \E n \in Nat : \/ Upto(f, n) /\ (pc = "done" => Full)
                     \/ n >= had /\ WithEnd(f, n)
  <2>1. \A n \in Nat : Sent(f, n) => \E m \in Nat : Upto(f, m)
    BY DEF Sent, CutOff
  <2>2. Ended(f) => \E n \in Nat : (Upto(f, n) /\ Full) \/ (n >= had /\ WithEnd(f, n))
    BY DEF Ended, CutOff
  <2>3. pc \in {"search", "test", "get", "write", "done"}
    BY DEF TInv, BaseInv, Serving, Updating
  <2>4. CASE pc = "search"
    BY <1>2, <1>4, <2>4 DEF Answering
  <2>5. CASE pc = "test"
    <3>1. CASE i # -1
      <4>1. Sent(f, i) /\ i \in Nat
        BY <1>1, <1>2, <2>5, <3>1 DEF Answering
      <4> QED
        BY <2>1, <2>5, <4>1
    <3>2. CASE i = -1
      BY <1>2, <1>4, <2>2, <2>5, <3>2 DEF Answering
    <3> QED
      BY <3>1, <3>2
  <2>6. CASE pc = "get"
    <3>1. Sent(f, i) /\ i \in Nat
      BY <1>1, <1>2, <2>6 DEF Answering
    <3> QED
      BY <2>1, <2>6, <3>1
  <2>7. CASE pc = "write"
    <3>1. CASE i # -1
      <4>1. Sent(f, i - 1) /\ i - 1 \in Nat
        BY <1>1, <1>2, <2>7, <3>1 DEF Answering
      <4> QED
        BY <2>1, <2>7, <4>1
    <3>2. CASE i = -1
      BY <1>2, <2>1, <2>7, <3>2 DEF Answering
    <3> QED
      BY <3>1, <3>2
  <2>8. CASE pc = "done"
    BY <1>2, <2>2, <2>8 DEF Answering
  <2> QED
    BY <2>3, <2>4, <2>5, <2>6, <2>7, <2>8
<1>6. \E n \in f .. Len(log) :
        \/ Accounts(Ids(f, n)) /\ (pc = "done" => ~HasSpace(pcb))
        \/ n >= had /\ Accounts(Append(Ids(f, n), End))
  BY <1>5, UptoIds DEF Full
<1> QED
  BY <1>3, <1>6

(* An answer to /updrecord is every record that was newer than the one      *)
(* asked for when the client asked, in order, but for packets there was no  *)
(* memory for, and then END, although records are written and pushed        *)
(* meanwhile; or it ends early because the queue was full (server.c 51 to   *)
(* 61, tcp_out.c 204-428).  The conditions are in the property: no erase    *)
(* meanwhile, no push into the shared buffer, and no more records than      *)
(* GetRecord's index reaches.                                               *)
THEOREM EndIsTheEnd == Spec => []EndMeansAll
<1> QED
  BY TInductive, InitAInv, NextAInv, AnswerIsWhole, PTL DEF Spec
=============================================================================
