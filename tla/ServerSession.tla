----------------------------- MODULE ServerSession -----------------------------
(***************************************************************************)
(* The TCP command server: Server_accept and Server_recv of lwIP's         *)
(* port/server.c, the packets of APP/server/usr_server.c, and the records  *)
(* that Handle_Water pushes to gPcb from the USART3 interrupt.             *)
(*                                                                         *)
(* lwIP's input and with it Server_recv run in the ETH interrupt; the      *)
(* serial interrupts preempt it and App_LWIP's timer runs below it.  A     *)
(* call of lwIP is one step here: what follows when one context enters     *)
(* lwIP inside a call of another is undefined (rawapi.txt 30-35) and not   *)
(* modelled.  Between the calls everything may fall, so the packet that    *)
(* SendNetPacket has put together in perTemp may be another one by the     *)
(* time tcp_write copies it.                                               *)
(*                                                                         *)
(* A packet takes one pbuf and one place in the queue of its connection,   *)
(* and leaves the queue only with the acknowledgement, none of which is    *)
(* processed while Server_recv runs.  tcp_write fails when the queue is    *)
(* full and whenever the pool of segments or the heap, which all           *)
(* connections share, has nothing left.                                    *)
(***************************************************************************)
EXTENDS RecordLog

CONSTANTS
  Pcb,          \* slots of lwIP's pool of connections
  None,         \* gPcb = NULL
  QueueLen,     \* TCP_SND_QUEUELEN
  Marks,        \* watermarks stored (WatermarkStore has their life)
  IndexLimit,   \* GetRecord's int8_t index holds -IndexLimit..IndexLimit-1
  Blank,        \* the ID in erased flash
  Unset,        \* Server_recv's record before GetRecord first fills it
  Text, End,    \* packets of type PT_TEXT that hold no record, of PT_CMDEND
  Gap,          \* in the history of an answer: a packet there was no memory for
  MaxTimeouts,  \* bound: timeouts of the newest connection
  MaxStarved    \* bound: pushes to a gone slot that find no memory

ASSUME ServerParameters ==
  /\ None \notin Pcb /\ QueueLen \in Nat \ {0} /\ Marks \in Nat
  /\ IndexLimit \in Nat \ {0} /\ MaxTimeouts \in Nat /\ MaxStarved \in Nat
  /\ Blank \in Nat /\ \A id \in Id : id < Blank
  /\ {Unset, Text, End, Gap} \cap Nat = {}

VARIABLES
  state,        \* of each slot: "free", "syn" (SYN_RCVD), "open"
                \* (ESTABLISHED), "wait" (CLOSE_WAIT), "last" (LAST_ACK), or
                \* "gone": freed by the timer, the old state still in it
  queued,       \* snd_queuelen
  unsent,       \* the gone slots whose unsent has a segment,
  unacked,      \* whose unacked has one,
  memerr,       \* whose flags have TF_NAGLEMEMERR
  gPcb,
  perTemp,      \* the packet in it, while pc = "write"
  pc,           \* where Server_recv is
  pcb,          \* its connection
  cmd,          \* its command
  asked,        \* lastRecordID
  i,            \* its index into the records, -1 outside the loop over them
  todo,         \* the packets it sends after that loop
  WMRecord,     \* the ID of its local record
  reply,        \* history: the packets it has queued for this command
  had,          \* history: records stored when the command came
  mixed,        \* history: a push overwrote perTemp before tcp_write copied it
  erased,       \* history: the record area was erased during this command
  leaked,       \* history: segments put in gone slots, which nobody will free
  lost,         \* history: timeouts of gPcb
  starved       \* history: pushes to a gone slot that found no memory

gone    == <<unsent, unacked, memerr>>
pool    == <<state, queued, gone>>
base    == <<pc, pcb, cmd, asked, i, todo, WMRecord, reply, had>>
counts  == <<leaked, lost, starved>>
history == <<mixed, erased, counts>>
vars    == <<logVars, pool, gPcb, perTemp, base, history>>

Packet == Id \cup {Blank, Unset, Text, End, Gap}

TypeOK ==
  /\ LogTypeOK
  /\ state \in [Pcb -> {"free", "syn", "open", "wait", "last", "gone"}]
  /\ queued \in [Pcb -> 0 .. QueueLen]
  /\ unsent \subseteq Pcb /\ unacked \subseteq Pcb /\ memerr \subseteq Pcb
  /\ gPcb \in Pcb \cup {None} /\ perTemp \in Packet
  /\ pc \in {"idle", "search", "test", "get", "write", "done"}
  /\ pcb \in Pcb \cup {None}
  /\ cmd \in {"none", "updrecord", "status", "wmdata"}
  /\ asked \in 0 .. MaxId /\ i \in -1 .. Capacity
  /\ todo \in Seq({Text, End}) /\ WMRecord \in Id \cup {Blank, Unset}
  /\ reply \in Seq(Packet) /\ had \in 0 .. Capacity
  /\ mixed \in BOOLEAN /\ erased \in BOOLEAN
  /\ leaked \in Nat /\ lost \in 0 .. MaxTimeouts /\ starved \in 0 .. MaxStarved

NoCommand ==
  /\ pc = "idle" /\ pcb = None /\ cmd = "none" /\ asked = 0 /\ i = -1
  /\ todo = <<>> /\ WMRecord = Unset /\ reply = <<>> /\ had = 0
  /\ perTemp = Unset /\ mixed = FALSE /\ erased = FALSE

Init ==
  /\ LogInit /\ NoCommand
  /\ state = [p \in Pcb |-> "free"] /\ queued = [p \in Pcb |-> 0]
  /\ unsent = {} /\ unacked = {} /\ memerr = {}
  /\ gPcb = None /\ leaked = 0 /\ lost = 0 /\ starved = 0

Finish ==
  /\ pc' = "idle" /\ pcb' = None /\ cmd' = "none" /\ asked' = 0 /\ i' = -1
  /\ todo' = <<>> /\ WMRecord' = Unset /\ reply' = <<>> /\ had' = 0
  /\ perTemp' = Unset /\ mixed' = FALSE /\ erased' = FALSE

PowerCycle ==
  /\ Restart /\ Finish
  /\ state' = [p \in Pcb |-> "free"] /\ queued' = [p \in Pcb |-> 0]
  /\ unsent' = {} /\ unacked' = {} /\ memerr' = {}
  /\ gPcb' = None /\ leaked' = 0 /\ lost' = 0 /\ starved' = 0

-----------------------------------------------------------------------------
(* tcp_write and tcp_close look at nothing but the fields of the slot.      *)
HasSpaceForOneMore(p) == queued[p] <= QueueLen     \* mutant
HasSpace(p) == queued[p] < QueueLen

(* A NULL gPcb makes tcp_write read the vector table at address 0, whose    *)
(* byte there is taken not to look like a state that may send.              *)
CanSend(p) ==
  /\ p # None /\ state[p] \in {"syn", "open", "wait", "gone"}
  /\ HasSpace(p)

tcp_enqueue(p) == queued' = [queued EXCEPT ![p] = @ + 1]

(* A push to a gone slot.  Its segment is chained to the one on unsent, if  *)
(* any (twelve records fit in the smallest usual segment, of 536 bytes).    *)
(* tcp_output then leaves it there for want of window, or by Nagle's rule   *)
(* behind an unacknowledged one unless an earlier packet found no memory,   *)
(* or sends it and moves it to unacked.                                     *)
Strand(p) ==
  /\ leaked' = IF p \in unsent THEN leaked ELSE leaked + 1
  /\ \/ /\ unsent' = unsent \cup {p} /\ UNCHANGED unacked
        /\ memerr' \in {memerr, memerr \ {p}}
     \/ /\ p \notin unacked \/ p \in memerr
        /\ unacked' = unacked \cup {p} /\ unsent' = unsent \ {p}
        /\ memerr' = memerr \ {p}

(* tcp_write, and the tcp_output that follows when it succeeds.  A full     *)
(* queue refuses a packet; so may the pool of segments and the heap, at any *)
(* time, and that is remembered in the slot's flags; or it is queued.       *)
Refused(p) == ~CanSend(p) /\ UNCHANGED <<queued, gone, leaked, starved>>

Starved(p) ==
  /\ CanSend(p)
  /\ IF state[p] = "gone"
     THEN /\ starved < MaxStarved /\ starved' = starved + 1
          /\ memerr' = memerr \cup {p}
     ELSE UNCHANGED <<memerr, starved>>
  /\ UNCHANGED <<queued, unsent, unacked, leaked>>

Queued(p) ==
  /\ CanSend(p) /\ tcp_enqueue(p)
  /\ IF state[p] = "gone" THEN Strand(p) ELSE UNCHANGED <<gone, leaked>>
  /\ UNCHANGED starved

SetState(p, s) == state' = [state EXCEPT ![p] = s]

-----------------------------------------------------------------------------
(* What arrives for the connections, one segment at a time, and the timer.  *)
Quiet == pc = "idle"

Drain(p, n) == queued' = [queued EXCEPT ![p] = n]

(* tcp_alloc: a free slot; with none left a connection is killed for it.    *)
(* The slot is cleared: what a gone one still held nobody can free any      *)
(* more.  Without memory for the answer the slot is given back.             *)
Syn(p) ==
  /\ Quiet
  /\ state[p] \in {"free", "gone"}
       \/ \A q \in Pcb : state[q] \notin {"free", "gone"}
  /\ \/ SetState(p, "syn") /\ Drain(p, 1)
     \/ SetState(p, "free") /\ Drain(p, 0)
  /\ unsent' = unsent \ {p} /\ unacked' = unacked \ {p} /\ memerr' = memerr \ {p}
  /\ UNCHANGED <<logVars, gPcb, perTemp, base, history>>

Server_accept(p) ==
  /\ Quiet /\ state[p] = "syn"
  /\ SetState(p, "open") /\ gPcb' = p
  /\ Drain(p, queued[p] - 1)
  /\ UNCHANGED <<logVars, gone, perTemp, base, history>>

(* An acknowledgement; that of our FIN, the last in the queue, frees.       *)
Ack(p) ==
  /\ Quiet /\ state[p] \in {"open", "wait", "last"}
  /\ \E n \in 0 .. queued[p] - 1 :
       /\ Drain(p, n)
       /\ IF state[p] = "last" /\ n = 0 THEN SetState(p, "free")
                                        ELSE UNCHANGED state
  /\ UNCHANGED <<logVars, gone, gPcb, perTemp, base, history>>

(* The client's FIN: Server_recv with p = NULL calls tcp_close, whose own   *)
(* FIN takes a place in the queue.  If there is none, or no memory for it,  *)
(* tcp_close fails and nobody calls it again.                               *)
Fin(p) ==
  /\ Quiet /\ state[p] = "open"
  /\ \/ HasSpace(p) /\ SetState(p, "last") /\ tcp_enqueue(p)
     \/ SetState(p, "wait") /\ UNCHANGED queued
  /\ UNCHANGED <<logVars, gone, gPcb, perTemp, base, history>>

Active == {"syn", "open", "wait", "last"}

(* Mutant: the state of a reset connection is left in its slot. *)
RstKeepsState(p) ==
  /\ Quiet /\ state[p] \in Active
  /\ SetState(p, "gone")
  /\ UNCHANGED <<logVars, queued, gone, gPcb, perTemp, base, history>>

(* tcp_pcb_remove marks the slot CLOSED; Server_conn_err does nothing.      *)
Rst(p) ==
  /\ Quiet /\ state[p] \in Active
  /\ SetState(p, "free") /\ Drain(p, 0)
  /\ UNCHANGED <<logVars, gone, gPcb, perTemp, base, history>>

(* tcp_slowtmr gives up: it frees the segments and the slot, but the slot's *)
(* state, flags and snd_queuelen stay what they were.                       *)
Timeout(p) ==
  /\ Quiet /\ state[p] \in Active /\ queued[p] > 0
  /\ p = gPcb => lost < MaxTimeouts
  /\ lost' = IF p = gPcb THEN lost + 1 ELSE lost
  /\ IF state[p] = "last"
     THEN SetState(p, "free") /\ Drain(p, 0) /\ UNCHANGED memerr
     ELSE /\ SetState(p, "gone") /\ UNCHANGED queued
          /\ memerr' \in {memerr, memerr \cup {p}}
  /\ UNCHANGED <<logVars, unsent, unacked, gPcb, perTemp, base, mixed, erased,
                 leaked, starved>>

Network == \E p \in Pcb :
  Syn(p) \/ Server_accept(p) \/ Ack(p) \/ Fin(p) \/ Rst(p) \/ Timeout(p)

-----------------------------------------------------------------------------
(* Server_recv with a command: what it will send besides records.  The      *)
(* commands that send and store nothing here are left out (/connect; /start *)
(* and /stop are DspLink's, /wmadd and /wmerase WatermarkStore's).          *)
Server_recv(p, c, id) ==
  /\ Quiet /\ state[p] = "open"
  /\ pcb' = p /\ cmd' = c /\ had' = Len(log)
  /\ CASE c = "updrecord" -> asked' = id /\ pc' = "search" /\ todo' = <<End>>
       [] c = "status"    -> asked' = 0 /\ pc' = "test" /\ todo' = <<Text, End>>
       [] c = "wmdata"    -> asked' = 0 /\ pc' = "test"
                             /\ todo' = [k \in 1 .. Marks |-> Text]
  /\ UNCHANGED <<logVars, pool, gPcb, perTemp, i, WMRecord, reply, history>>

TcpErase(p) ==
  /\ Quiet /\ state[p] = "open" /\ Erase
  /\ UNCHANGED <<pool, gPcb, perTemp, base, history>>

Int8(n)      == ((n + IndexLimit) % (2 * IndexLimit)) - IndexLimit
Rejected(n)  == n > Len(log) \/ n < 0
GetRecord(n) == IF n = Len(log) THEN Blank ELSE log[n + 1].id

(* GetRecordIndexById(lastRecordID + 1).  A write or an erase that falls    *)
(* into the search has the effect of one just before or just after it.      *)
Found(id) ==
  {k \in 0 .. Len(log) - 1 : ~Rejected(Int8(k)) /\ GetRecord(Int8(k)) >= id}

SearchNewer ==              \* mutant: a record newer than the next one
  /\ pc = "search"
  /\ i' = IF last < asked + 1 \/ Found(asked + 2) = {} THEN -1
          ELSE CHOOSE k \in Found(asked + 2) : \A n \in Found(asked + 2) : k <= n
  /\ pc' = "test"
  /\ UNCHANGED <<logVars, pool, gPcb, perTemp, pcb, cmd, asked, todo, WMRecord,
                 reply, had, history>>

Search ==
  /\ pc = "search"
  /\ i' = IF last < asked + 1 \/ Found(asked + 1) = {} THEN -1
          ELSE CHOOSE k \in Found(asked + 1) : \A n \in Found(asked + 1) : k <= n
  /\ pc' = "test"
  /\ UNCHANGED <<logVars, pool, gPcb, perTemp, pcb, cmd, asked, todo, WMRecord,
                 reply, had, history>>

(* The test of the loop over the records; behind it the packets to do.      *)
Test ==
  /\ pc = "test"
  /\ IF i # -1 /\ i < Len(log)
     THEN pc' = "get" /\ UNCHANGED <<i, todo, perTemp>>
     ELSE /\ i' = -1
          /\ IF todo = <<>>
             THEN pc' = "done" /\ UNCHANGED <<todo, perTemp>>
             ELSE /\ perTemp' = Head(todo) /\ todo' = Tail(todo)
                  /\ pc' = "write"
  /\ UNCHANGED <<logVars, pool, gPcb, pcb, cmd, asked, WMRecord, reply, had,
                 history>>

GetSame ==                  \* mutant: the index is not advanced
  /\ pc = "get"
  /\ WMRecord' = IF Rejected(Int8(i)) THEN WMRecord ELSE GetRecord(Int8(i))
  /\ perTemp' = WMRecord' /\ pc' = "write"
  /\ UNCHANGED <<logVars, pool, gPcb, pcb, cmd, asked, i, todo, reply, had,
                 history>>

(* GetRecord, and TCP_SendRecord up to the call of tcp_write.               *)
Get ==
  /\ pc = "get"
  /\ WMRecord' = IF Rejected(Int8(i)) THEN WMRecord ELSE GetRecord(Int8(i))
  /\ perTemp' = WMRecord' /\ i' = i + 1 /\ pc' = "write"
  /\ UNCHANGED <<logVars, pool, gPcb, pcb, cmd, asked, todo, reply, had,
                 history>>

(* Server_recv looks at no result of it.                                    *)
SendNetPacket ==
  /\ pc = "write"
  /\ \/ Refused(pcb) /\ reply' = reply
     \/ Starved(pcb) /\ reply' = Append(reply, Gap)
     \/ Queued(pcb) /\ reply' = Append(reply, perTemp)
  /\ perTemp' = Unset /\ pc' = "test"
  /\ UNCHANGED <<logVars, state, gPcb, pcb, cmd, asked, i, todo, WMRecord, had,
                 mixed, erased, lost>>

Return ==
  /\ pc = "done" /\ Finish
  /\ UNCHANGED <<logVars, pool, gPcb, counts>>

Base == Search \/ Test \/ Get \/ SendNetPacket \/ Return

-----------------------------------------------------------------------------
(* Handle_Water ends a run: WriteRecord, then TCP_SendRecord to gPcb or     *)
(* GSM_SendRecord, whichever half of the message ended it.                  *)
Report ==
  /\ IF HasRoom THEN \E w, f \in Payload : Write(w, f) ELSE UNCHANGED logVars
  /\ \/ /\ IF gPcb = None THEN UNCHANGED <<queued, gone, leaked, starved>>
           ELSE Refused(gPcb) \/ Starved(gPcb) \/ Queued(gPcb)
        /\ perTemp' = IF pc = "write" THEN last' ELSE perTemp
        /\ mixed' = (mixed \/ pc = "write")
     \/ UNCHANGED <<queued, gone, leaked, starved, perTemp, mixed>>
  /\ UNCHANGED <<state, gPcb, base, erased, lost>>

(* The host's 0xa3. *)
HostErase ==
  /\ Erase /\ erased' = (pc # "idle")
  /\ UNCHANGED <<pool, gPcb, perTemp, base, mixed, counts>>

Next ==
  \/ Network
  \/ \E p \in Pcb, c \in {"updrecord", "status", "wmdata"}, id \in 0 .. MaxId :
       (c # "updrecord" => id = 0) /\ Server_recv(p, c, id)
  \/ \E p \in Pcb : TcpErase(p)
  \/ Base
  \/ Report \/ HostErase
  \/ PowerCycle

(* The ETH interrupt goes on whenever no serial one is running, and those   *)
(* end.                                                                     *)
Spec == Init /\ [][Next]_vars /\ WF_vars(Base)

-----------------------------------------------------------------------------
(* The records newer than the one asked for begin after the first f, and    *)
(* the IDs of those up to the n-th are these.                               *)
NewerAfter(f) == \A k \in DOMAIN log : log[k].id > asked <=> k > f
Ids(f, n)     == [k \in 1 .. n - f |-> log[f + k].id]

(* The answer is this sequence, but for packets there was no memory for.    *)
Accounts(s) ==
  Len(reply) = Len(s) /\ \A k \in DOMAIN s : reply[k] \in {s[k], Gap}

(* The answer to /updrecord is the stored records newer than the one asked  *)
(* for, in order and without a gap but those of memory, then END: a client  *)
(* that gets END has been sent every record that was stored when it asked   *)
(* for which there was memory, although records are written and pushed      *)
(* meanwhile and the queue may fill; and END is tried last unless the queue *)
(* is full.  Unless the area was erased meanwhile, a push overwrote the     *)
(* shared buffer before it was copied, or there are more records than       *)
(* GetRecord's index reaches.                                               *)
EndMeansAll ==
  cmd = "updrecord" /\ ~mixed /\ ~erased /\ Len(log) <= IndexLimit =>
    \E f \in 0 .. Len(log) : NewerAfter(f) /\ \E n \in f .. Len(log) :
      \/ Accounts(Ids(f, n)) /\ (pc = "done" => ~HasSpace(pcb))
      \/ n >= had /\ Accounts(Append(Ids(f, n), End))

(* Segments are lost for good only by pushing to a connection after the     *)
(* timer freed it: for each such timeout of the newest connection two, one  *)
(* on unacked and one Nagle keeps on unsent, and one more for each push     *)
(* that found no memory meanwhile; but never more than the queue of the     *)
(* slot still took.  A FIN, a reset, a failed close or a reuse of the slot  *)
(* loses none.                                                              *)
LeaksBounded ==
  leaked <= 2 * lost + starved /\ leaked <= (QueueLen - 1) * lost

(* A command is answered however many records come meanwhile.               *)
ReplyEnds == pc # "idle" ~> pc = "idle"
=============================================================================
