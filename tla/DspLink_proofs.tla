---------------------------- MODULE DspLink_proofs ----------------------------
(* Theorems about DspLink, for messages of every length and every           *)
(* interleaving of bytes, commands, interrupts and power failures.          *)
EXTENDS DspLink, TLAPS

-----------------------------------------------------------------------------
(* Sequences of bounded length, and the two that the link keeps.            *)

LEMMA BoundedSeqs ==
  ASSUME NEW S, NEW n \in Nat, NEW s
  PROVE  s \in BoundedSeq(S, n) <=> s \in Seq(S) /\ Len(s) <= n
<1>1. ASSUME s \in BoundedSeq(S, n) PROVE s \in Seq(S) /\ Len(s) <= n
  <2>1. PICK m \in 0 .. n : s \in [1 .. m -> S]
    BY <1>1 DEF BoundedSeq, SeqOf
  <2> QED
    BY <2>1
<1>2. ASSUME s \in Seq(S), Len(s) <= n PROVE s \in BoundedSeq(S, n)
  <2>1. s \in [1 .. Len(s) -> S] /\ Len(s) \in 0 .. n
    BY <1>2
  <2> QED
    BY <2>1 DEF BoundedSeq, SeqOf
<1> QED
  BY <1>1, <1>2

LEMMA TailOfTwo ==
  ASSUME NEW S, NEW s \in Seq(S), s # <<>>
  PROVE  /\ Tail(s) \in Seq(S) /\ Len(Tail(s)) = Len(s) - 1
         /\ Len(s) = 2 => Tail(s)[1] = s[2]
OBVIOUS

Cmd == {"start", "stop"}
Out == Cmd \cup {"other"}

(* TypeOK taken apart: what has places and lengths, and the flags.          *)
Places ==
  /\ state \in {"stopping", "hands", "running"} /\ led \in {"lit", "dark"}
  /\ data \in Seq(Byte) /\ Len(data) <= MsgLen
  /\ rx \in Byte \cup {Empty}
  /\ tx \in Seq(Out) /\ Len(tx) <= 2 /\ (Len(tx) = 2 => tx[2] \in Cmd)
  /\ dsp \in Byte \cup {Off}
  /\ isr \in {"out", "dr", "handle"} /\ held \in {"no", "yes", "just"}
  /\ pc \in {"boot", "idle", "startLed", "startState",
             "stopLed", "stopState"}
  /\ last \in {"none", "start", "stop", "crossed"}

Flags ==
  /\ ready \in BOOLEAN /\ ore \in BOOLEAN
  /\ synced \in BOOLEAN /\ gap \in BOOLEAN /\ missed \in BOOLEAN

(* A message is complete only inside the interrupt; between the data        *)
(* register and the end of the interrupt the receiver is empty and no byte  *)
(* moves; a byte lost behind another is known only while that one is there. *)
Receiver ==
  /\ ready => isr = "handle" /\ Len(data) = MsgLen
  /\ isr = "dr" => rx # Empty /\ held # "yes"
  /\ isr = "handle" => rx = Empty /\ held = "no"
  /\ gap => rx # Empty \/ isr = "handle"

Types == Places /\ Flags /\ Receiver

LEMMA TypesAreTypeOK == Types => TypeOK
<1>1. Places => /\ data \in BoundedSeq(Byte, MsgLen)
                /\ tx \in BoundedSeq({"start", "stop", "other"}, 2)
  <2>1. Out = {"start", "stop", "other"}
    BY DEF Out, Cmd
  <2> QED
    BY <2>1, BoundedSeqs, LinkParameters DEF Places
<1> QED
  BY <1>1 DEF Types, Places, Flags, Receiver, TypeOK

LEMMA InitTypes == Init => Types
<1>1. Init => Places
  BY LinkParameters DEF Init, Places, Out, Cmd
<1>2. Init => Flags /\ Receiver
  BY DEF Init, Flags, Receiver
<1> QED
  BY <1>1, <1>2 DEF Types

LEMMA CountedType ==
  ASSUME Places, rx \in Byte
  PROVE  Counted \in Seq(Byte) /\ Len(Counted) \in 1 .. MsgLen
BY LinkParameters DEF Places, Counted

LEMMA SendTypes ==
  ASSUME Places, NEW cmd \in Cmd, Send(cmd)
  PROVE  /\ tx' \in Seq(Out) /\ Len(tx') <= 2 /\ (Len(tx') = 2 => tx'[2] \in Cmd)
         /\ last' \in {"none", "start", "stop", "crossed"}
BY DEF Places, Send, Out, Cmd

LEMMA NextPlaces ==
  ASSUME Types, [Next]_vars
  PROVE  Places'
<1> USE LinkParameters DEF Types
<1>1. CASE HostStart
  BY <1>1, SendTypes DEF HostStart, Places, message, usart, Cmd
<1>2. CASE HostStop
  BY <1>2, SendTypes DEF HostStop, Places, message, usart, Cmd
<1>3. CASE TcpStart \/ TcpStop
  BY <1>3, SendTypes DEF TcpStart, TcpStop, Command, Places, link, message,
     usart, Cmd
<1>4. CASE Base
  <2>1. CASE SetLed
    BY <2>1 DEF SetLed, Places, message, usart, history
  <2>2. CASE SetState
    BY <2>2 DEF SetState, Places, message, usart, history
  <2>3. CASE DSP_Init
    BY <2>3 DEF DSP_Init, Places, usart
  <2> QED
    BY <1>4, <2>1, <2>2, <2>3 DEF Base
<1>5. CASE ReadStatus
  BY <1>5 DEF ReadStatus, Places, link, message, history
<1>6. CASE DSP_ReseveMsg
  <2>1. /\ rx \in Byte /\ rx' = Empty /\ isr' = "handle" /\ held' = "no"
        /\ UNCHANGED <<led, tx, dsp, pc, last>>
    BY <1>6 DEF DSP_ReseveMsg, Places, Receiver
  <2>2. CASE Handshake
    BY <2>1, <2>2 DEF Handshake, Places
  <2>3. CASE Collect
    BY <2>1, <2>3, CountedType DEF Collect, Places
  <2> QED
    BY <1>6, <2>2, <2>3 DEF DSP_ReseveMsg
<1>7. CASE Handle_Water
  <2>1. held' \in {"no", "yes", "just"} /\ isr' = "out"
    BY <1>7 DEF Handle_Water, Places
  <2> QED
    BY <1>7, <2>1 DEF Handle_Water, Places, link, usart
<1>8. CASE HoldUp \/ Resume
  BY <1>8 DEF HoldUp, Resume, Places, link, message, usart, history
<1>13. CASE HostForward
  <2>1. tx' \in Seq(Out) /\ Len(tx') = 1
    BY <1>13 DEF HostForward, Places, Out
  <2> QED
    BY <1>13, <2>1 DEF HostForward, Places, link, message, usart, history
<1>9. CASE DspSend
  BY <1>9 DEF DspSend, Arrive, Places, link, message, Byte
<1>10. CASE DspReceive
  <2>1. tx' \in Seq(Out) /\ Len(tx') <= 1
    <3>1. tx \in Seq(Out) /\ tx # <<>> /\ tx' = Tail(tx) /\ Len(tx) <= 2
      BY <1>10 DEF DspReceive, Places
    <3>2. PICK rest \in Seq(Out) : rest = Tail(tx) /\ Len(rest) = Len(tx) - 1
      BY <3>1, TailOfTwo
    <3> QED
      BY <3>1, <3>2
  <2>2. dsp' \in Byte \cup {Off}
    <3>1. dsp' \in {0, Off, dsp} /\ 0 \in Byte /\ dsp \in Byte \cup {Off}
      BY <1>10 DEF DspReceive, Places, Byte
    <3> QED
      BY <3>1
  <2>3. Len(tx') # 2
    BY <2>1
  <2> QED
    BY <1>10, <2>1, <2>2, <2>3 DEF DspReceive, Places, link, message, usart, history
<1>11. CASE PowerCycle
  BY <1>11 DEF PowerCycle, Places
<1>12. CASE UNCHANGED vars
  BY <1>12 DEF vars, Places, link, message, usart, history
<1> QED
  BY <1>1, <1>2, <1>3, <1>4, <1>5, <1>6, <1>7, <1>8, <1>9, <1>10, <1>11, <1>12,
     <1>13 DEF Next, Usart3

LEMMA NextFlags ==
  ASSUME Types, [Next]_vars
  PROVE  Flags' /\ Receiver'
<1> USE DEF Types, Flags, Receiver
<1>1. CASE HostStart \/ HostStop \/ TcpStart \/ TcpStop
  <2>1. /\ UNCHANGED <<data, ready, rx, ore, isr, held, synced, gap>>
        /\ missed' = FALSE
    BY <1>1 DEF HostStart, HostStop, TcpStart, TcpStop, Command, Send, message, usart
  <2> QED
    BY <2>1, Zenon
<1>2. CASE Base
  <2>1. CASE SetLed \/ SetState
    <3>1. UNCHANGED <<data, ready, rx, ore, isr, held, synced, gap, missed>>
      BY <2>1 DEF SetLed, SetState, message, usart, history
    <3> QED
      BY <3>1, Zenon
  <2>2. CASE DSP_Init
    BY <2>2, Zenon DEF DSP_Init, Free, usart
  <2> QED
    BY <1>2, <2>1, <2>2 DEF Base
<1>3. CASE ReadStatus
  BY <1>3, Zenon DEF ReadStatus, link, message, history
<1>4. CASE DSP_ReseveMsg
  BY <1>4, Zenon DEF DSP_ReseveMsg, Handshake, Collect, message
<1>5. CASE Handle_Water
  BY <1>5, Zenon DEF Handle_Water, link, usart
<1>11. CASE HostForward
  BY <1>11, Zenon DEF HostForward, link, message, usart, history
<1>6. CASE HoldUp \/ Resume
  <2>1. UNCHANGED <<data, ready, rx, ore, isr, synced, gap, missed>>
    BY <1>6 DEF HoldUp, Resume, message, usart, history
  <2>2. isr \notin {"dr", "handle"}
    BY <1>6 DEF HoldUp, Resume, Free, Places
  <2> QED
    BY <2>1, <2>2, Zenon
<1>7. CASE DspSend
  <2>1. isr # "handle"
    BY <1>7 DEF DspSend, BytesMove, Free, Storm
  <2>2. dsp # Empty
    BY <1>7, LinkParameters DEF DspSend, Places, Byte
  <2>3. held = "yes" => held' = "yes"
    BY <1>7 DEF DspSend, Arrive
  <2> QED
    BY <1>7, <2>1, <2>2, <2>3, Zenon DEF DspSend, Arrive, link, message
<1>8. CASE DspReceive
  BY <1>8, Zenon DEF DspReceive, link, message, usart, history
<1>9. CASE PowerCycle
  BY <1>9, Zenon DEF PowerCycle
<1>10. CASE UNCHANGED vars
  BY <1>10, Zenon DEF vars, link, message, usart, history
<1> QED
  BY <1>1, <1>2, <1>3, <1>4, <1>5, <1>6, <1>7, <1>8, <1>9, <1>10, <1>11
  DEF Next, Usart3

LEMMA TypesInductive == Spec => []Types
<1>1. Types /\ [Next]_vars => Types'
  BY NextPlaces, NextFlags DEF Types
<1> QED
  BY <1>1, InitTypes, PTL DEF Spec

(* The variables keep their types: above all no message grows beyond MsgLen *)
(* bytes, whatever arrives (usr_dsp.c 71).                                  *)
THEOREM TypeCorrect == Spec => []TypeOK
<1> QED
  BY TypesInductive, TypesAreTypeOK, PTL

-----------------------------------------------------------------------------
(***************************************************************************)
(* WholeMessages.  While no byte was lost, what is counted, what is in the *)
(* receiver and what the DSP sends next follow each other; the byte behind *)
(* the one in the receiver follows that one, or its loss is known.         *)
(***************************************************************************)

Expected == IF Len(data) = MsgLen THEN 1 ELSE Len(data) + 1
After(b) == IF b = MsgLen THEN 1 ELSE b + 1

InOrder(d) == \A k \in 1 .. Len(d) : d[k] = k

Stream ==
  /\ synced => InOrder(data)
  /\ synced /\ rx = Empty /\ ~gap => dsp \in {Expected, 0, Off}
  /\ synced /\ rx \notin {Empty, 0} => rx = Expected
  /\ rx # Empty /\ ~gap => dsp \in {After(rx), 0, Off}

LEMMA InitStream == Init => Stream
BY DEF Init, Stream

(* Steps that move no byte. *)
LEMMA SameStream ==
  ASSUME Stream, UNCHANGED <<data, synced, gap, rx, dsp>>
  PROVE  Stream'
BY DEF Stream, Expected, After, InOrder

LEMMA DspSendStream ==
  ASSUME Types, Stream, DspSend
  PROVE  Stream'
<1>1. /\ dsp \in Byte /\ dsp' = After(dsp) /\ isr # "handle" /\ Empty \notin Byte
      /\ UNCHANGED <<data, synced>>
  <2>1. dsp \in Byte /\ Empty \notin Byte
    BY LinkParameters DEF DspSend, Types, Places, Byte
  <2>2. dsp' = After(dsp) /\ UNCHANGED <<data, synced>>
    BY DEF DspSend, After, message
  <2>3. isr # "handle"
    BY DEF DspSend, BytesMove, Free, Storm, Types, Receiver
  <2> QED
    BY <2>1, <2>2, <2>3
<1>2. CASE rx = Empty
  <2>1. ~gap /\ rx' = dsp /\ gap' = gap
    BY <1>1, <1>2 DEF DspSend, Arrive, Types, Receiver
  <2>2. synced => dsp \in {Expected, 0}
    BY <1>1, <1>2, <2>1, LinkParameters DEF Stream, Byte
  <2> QED
    BY <1>1, <2>1, <2>2 DEF Stream, Expected, After, InOrder
<1>3. CASE rx # Empty
  <2>1. gap' = TRUE /\ rx' = rx
    BY <1>3 DEF DspSend, Arrive
  <2> QED
    BY <1>1, <1>3, <2>1 DEF Stream, Expected, InOrder
<1> QED
  BY <1>2, <1>3

LEMMA ReceiveStream ==
  ASSUME Types, Stream, DSP_ReseveMsg
  PROVE  Stream'
<1>1. /\ rx \in Byte /\ rx # Empty /\ rx' = Empty /\ UNCHANGED <<dsp, gap>>
      /\ data \in Seq(Byte) /\ Len(data) \in Nat /\ Len(data) <= MsgLen
      /\ MsgLen \in Nat /\ MsgLen > 0
  BY LinkParameters DEF DSP_ReseveMsg, Types, Places, Receiver
<1>2. CASE Handshake
  <2>1. data' = <<>> /\ (synced' => rx = 0)
    BY <1>2 DEF Handshake
  <2>2. Expected' = 1
    BY <1>1, <2>1 DEF Expected
  <2>3. synced' /\ ~gap' => dsp' \in {1, 0, Off}
    BY <1>1, <2>1 DEF Stream, After
  <2> QED
    BY <1>1, <2>1, <2>2, <2>3 DEF Stream, InOrder
<1>3. CASE Collect
  <2>1. data' = Counted /\ (synced' => synced /\ rx # 0)
    BY <1>3 DEF Collect
  <2> SUFFICES ASSUME synced' PROVE InOrder(data') /\ Expected' = After(rx)
    BY <1>1, <2>1 DEF Stream
  <2>2. rx = Expected /\ InOrder(data)
    BY <1>1, <2>1 DEF Stream
  <2>3. CASE Len(data) = MsgLen
    <3>1. data' = <<1>> /\ rx = 1
      BY <2>1, <2>2, <2>3 DEF Counted, Expected
    <3> QED
      BY <1>1, <3>1 DEF InOrder, Expected, After
  <2>4. CASE Len(data) # MsgLen
    <3>1. data' = Append(data, rx) /\ rx = Len(data) + 1
      BY <2>1, <2>2, <2>4 DEF Counted, Expected
    <3>2. /\ Len(data') = Len(data) + 1 /\ data'[Len(data) + 1] = rx
          /\ \A k \in 1 .. Len(data) : data'[k] = data[k]
      BY <1>1, <3>1
    <3>3. InOrder(data')
      BY <1>1, <2>2, <3>1, <3>2 DEF InOrder
    <3> QED
      BY <1>1, <3>1, <3>2, <3>3 DEF Expected, After
  <2> QED
    BY <2>3, <2>4
<1> QED
  BY <1>2, <1>3 DEF DSP_ReseveMsg

LEMMA NextStream ==
  ASSUME Types, Stream, [Next]_vars
  PROVE  Stream'
<1>1. CASE HostStart \/ HostStop \/ TcpStart \/ TcpStop \/ SetLed \/ SetState
           \/ HostForward \/ HoldUp \/ Resume \/ ReadStatus \/ UNCHANGED vars
  <2>1. UNCHANGED <<data, synced, gap, rx, dsp>>
    BY <1>1 DEF HostStart, HostStop, TcpStart, TcpStop, Command, SetLed, SetState,
       HostForward, HoldUp, Resume, ReadStatus, vars, message, usart, history
  <2> QED
    BY <2>1, SameStream
<1>2. CASE DSP_Init
  <2>1. /\ data' = <<>> /\ (synced' => synced /\ data = <<>>) /\ rx = Empty
        /\ UNCHANGED <<rx, gap, dsp>>
    BY <1>2 DEF DSP_Init, Free, usart
  <2> QED
    BY <2>1 DEF Stream, Expected, InOrder
<1>3. CASE DSP_ReseveMsg
  BY <1>3, ReceiveStream
<1>4. CASE Handle_Water
  <2>1. /\ rx = Empty /\ (synced' => synced /\ ~gap) /\ gap' = FALSE
        /\ UNCHANGED <<data, rx, dsp>>
    BY <1>4 DEF Handle_Water, Types, Receiver, usart
  <2> QED
    BY <2>1 DEF Stream, Expected, InOrder
<1>5. CASE DspSend
  BY <1>5, DspSendStream
<1>6. CASE DspReceive
  <2>1. dsp' \in {0, Off, dsp} /\ UNCHANGED <<data, synced, gap, rx>>
    BY <1>6 DEF DspReceive, message, usart, history
  <2> QED
    BY <2>1 DEF Stream, Expected, InOrder
<1>7. CASE PowerCycle
  BY <1>7 DEF PowerCycle, Stream
<1> QED
  BY <1>1, <1>2, <1>3, <1>4, <1>5, <1>6, <1>7 DEF Next, Base, Usart3

(* Handle_Water is never given parts of two messages unless a byte was lost *)
(* or the answer misread since the last handshake (usr_dsp.c 71), whatever  *)
(* MsgLen is and however stops, starts and overruns fall.                   *)
THEOREM MessagesAreWhole == Spec => []WholeMessages
<1>1. Types /\ Stream => WholeMessages
  <2> SUFFICES ASSUME Types, Stream, ready, synced
               PROVE  data = [k \in 1 .. MsgLen |-> k]
    BY DEF WholeMessages
  <2>1. data \in Seq(Byte) /\ Len(data) = MsgLen
    BY DEF Types, Places, Receiver
  <2>2. data = [k \in 1 .. MsgLen |-> data[k]]
    BY <2>1
  <2> QED
    BY <2>1, <2>2 DEF Stream, InOrder
<1>2. Types /\ Stream /\ [Next]_vars => Stream'
  BY NextStream
<1> QED
  BY <1>1, <1>2, InitStream, TypesInductive, PTL DEF Spec

-----------------------------------------------------------------------------
(***************************************************************************)
(* CommandsAgree.  Between two assignments of base those made agree with   *)
(* the command, and the last command on its way to the DSP is the last one *)
(* sent, unless it met another halfway.                                    *)
(***************************************************************************)

Agree ==
  last \in {"start", "stop"} =>
    /\ pc # "boot"
    /\ pc = "idle" => /\ (state = "stopping") <=> (last = "stop")
                      /\ (led = "dark") <=> (last = "stop")
    /\ pc \in {"startLed", "startState"} => last = "start"
    /\ pc \in {"stopLed", "stopState"} => last = "stop"
    /\ pc = "startState" => led = "lit"
    /\ pc = "stopState" => led = "dark"
    /\ tx = <<>> \/ tx[Len(tx)] = "other" => ((dsp = Off) <=> (last = "stop"))
    /\ tx # <<>> /\ tx[Len(tx)] # "other" => tx[Len(tx)] = last

LEMMA InitAgree == Init => Agree
BY DEF Init, Agree

LEMMA SendAgree ==
  ASSUME Types, NEW cmd \in Cmd, Send(cmd)
  PROVE  tx' # <<>> /\ tx'[Len(tx')] = cmd
BY DEF Types, Places, Send, Cmd

LEMMA NotEmpty ==
  ASSUME NEW S, NEW s \in Seq(S), Len(s) = 1
  PROVE  s # <<>>
<1>1. Len(<<>>) = 0
  OBVIOUS
<1> QED
  BY <1>1

LEMMA OneOrTwo ==
  ASSUME NEW n \in Nat, n # 0, n <= 2
  PROVE  n = 1 \/ n = 2
OBVIOUS

LEMMA DspReceiveAgree ==
  ASSUME Types, Agree, DspReceive
  PROVE  Agree'
<1>1. /\ tx \in Seq(Out) /\ tx # <<>> /\ tx' = Tail(tx)
      /\ Len(tx) = 1 \/ Len(tx) = 2
      /\ Head(tx) = "start" => dsp' = 0
      /\ Head(tx) = "stop" => dsp' = Off
      /\ Head(tx) = "other" => dsp' = dsp
      /\ UNCHANGED <<state, led, pc, last>>
  <2>1. tx \in Seq(Out) /\ tx # <<>>
    BY DEF DspReceive, Types, Places
  <2>2. Len(tx) \in Nat /\ Len(tx) # 0
    BY <2>1
  <2>3. Len(tx) <= 2
    BY DEF Types, Places
  <2>4. Len(tx) = 1 \/ Len(tx) = 2
    BY <2>2, <2>3, OneOrTwo
  <2> QED
    BY <2>1, <2>4 DEF DspReceive, link, history
<1>2. CASE Len(tx) = 1
  <2>1. tx' = <<>> /\ Head(tx) = tx[Len(tx)] /\ Head(tx) \in Out
    BY <1>1, <1>2
  <2> QED
    BY <1>1, <2>1, LinkParameters DEF Agree, Out, Cmd
<1>3. CASE Len(tx) = 2
  <2>1. tx' # <<>> /\ tx'[Len(tx')] = tx[Len(tx)]
    <3>1. /\ Tail(tx) \in Seq(Out) /\ Len(Tail(tx)) = 1
          /\ Tail(tx)[1] = tx[2]
      BY <1>1, <1>3, TailOfTwo
    <3>2. tx' = Tail(tx) /\ tx[Len(tx)] = tx[2]
      BY <1>1, <1>3
    <3>3. PICK rest \in Seq(Out) : rest = Tail(tx)
      BY <3>1
    <3>4. Len(rest) = 1 /\ rest[Len(rest)] = tx[2]
      BY <3>1, <3>3
    <3>5. rest # <<>>
      BY <3>3, <3>4, NotEmpty
    <3> QED
      BY <3>2, <3>3, <3>4, <3>5
  <2>2. tx[Len(tx)] \in Cmd
    BY <1>3 DEF Types, Places
  <2>3. tx'[Len(tx')] # "other" /\ tx[Len(tx)] # "other"
    BY <2>1, <2>2 DEF Cmd
  <2> QED
    BY <1>1, <2>1, <2>3 DEF Agree
<1> QED
  BY <1>1, <1>2, <1>3

LEMMA NextAgree ==
  ASSUME Types, Agree, [Next]_vars
  PROVE  Agree'
<1>1. CASE HostStart
  BY <1>1, SendAgree DEF HostStart, Send, Agree, Cmd
<1>2. CASE HostStop
  BY <1>2, SendAgree DEF HostStop, Send, Agree, Cmd
<1>3. CASE TcpStart
  BY <1>3, SendAgree DEF TcpStart, Command, Send, Agree, Cmd
<1>4. CASE TcpStop
  BY <1>4, SendAgree DEF TcpStop, Command, Send, Agree, Cmd
<1>5. CASE SetLed \/ SetState
  BY <1>5 DEF SetLed, SetState, Agree, history
<1>6. CASE DSP_Init
  BY <1>6 DEF DSP_Init, Agree
<1>7. CASE DSP_ReseveMsg
  BY <1>7 DEF DSP_ReseveMsg, Handshake, Collect, Agree
<1>8. CASE ReadStatus \/ Handle_Water \/ HoldUp \/ Resume \/ UNCHANGED vars
  <2>1. UNCHANGED <<state, led, pc, last, tx, dsp>>
    BY <1>8 DEF ReadStatus, Handle_Water, HoldUp, Resume, vars, link, history
  <2> QED
    BY <2>1 DEF Agree
<1>9. CASE DspSend
  <2>1. dsp # Off /\ dsp' # Off /\ UNCHANGED <<state, led, pc, last, tx>>
    BY <1>9, LinkParameters DEF DspSend, Types, Places, Byte, link
  <2> QED
    BY <2>1 DEF Agree
<1>10. CASE DspReceive
  BY <1>10, DspReceiveAgree
<1>12. CASE HostForward
  <2>1. /\ tx = <<>> /\ tx' = <<"other">> /\ UNCHANGED <<state, led, pc, last, dsp>>
    BY <1>12 DEF HostForward, link, history
  <2>2. tx' # <<>> /\ tx'[Len(tx')] = "other"
    BY <2>1
  <2> QED
    BY <2>1, <2>2 DEF Agree
<1>11. CASE PowerCycle
  BY <1>11 DEF PowerCycle, Agree
<1> QED
  BY <1>1, <1>2, <1>3, <1>4, <1>5, <1>6, <1>7, <1>8, <1>9, <1>10, <1>11,
     <1>12 DEF Next, Base, Usart3

(* DSPState, the LED, the DSP and the last command agree whenever base is   *)
(* at rest, unless a command of the host met one of base or boot halfway    *)
(* (usr_dsp.c 35 to 51).                                                    *)
THEOREM LinkAgrees == Spec => []CommandsAgree
<1>1. Agree => CommandsAgree
  BY DEF Agree, CommandsAgree
<1>2. Types /\ Agree /\ [Next]_vars => Agree'
  BY NextAgree
<1> QED
  BY <1>1, <1>2, InitAgree, TypesInductive, PTL DEF Spec
=============================================================================
