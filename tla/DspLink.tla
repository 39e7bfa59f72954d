-------------------------------- MODULE DspLink --------------------------------
(***************************************************************************)
(* The serial link to the watermark DSP: DSP_Start, DSP_Stop and           *)
(* DSP_ReseveMsg of APP/dsp/usr_dsp.c, over USART3.  The DSP answers the   *)
(* start byte 0xAA with 0xBB and then sends messages of MsgLen bytes with  *)
(* nothing between them; DSP_ReseveMsg cuts the stream by counting.        *)
(*                                                                         *)
(* The USART3 interrupt receives, the USART2 interrupt (same preemption    *)
(* priority, later in the queue) brings the host's start and stop, and     *)
(* "base" is what both preempt: boot, then /start and /stop of the TCP     *)
(* command server, three assignments each.                                 *)
(*                                                                         *)
(* Time: a byte at 115200 baud lasts far longer than any code here that    *)
(* does not wait.  So bytes move while the processor has nothing to do, or *)
(* while it is held up: by a listing or a record going out to USART2 at    *)
(* 9600 baud inside an interrupt, or by a flash page being erased.  Then a *)
(* second byte overruns the receiver and is lost.                          *)
(***************************************************************************)
EXTENDS Naturals, SequencesExt

CONSTANTS
  MsgLen,    \* bytes of a message
  Off,       \* the DSP is stopped
  Empty      \* RXNE is reset

ASSUME LinkParameters == MsgLen \in Nat \ {0} /\ Off \notin Nat /\ Empty \notin Nat

(* A byte is known by its place in the message, 0 for the answer to start.  *)
Byte == 0 .. MsgLen

VARIABLES
  state,     \* DSPState
  led,       \* the LED on PA5 (lit while the pin is low)
  data,      \* MessageData.Data, the rDataLen bytes counted so far
  ready,     \* MessageData: TRANS_OK and HANDLE_READY
  rx, ore,   \* USART3: the received byte, the overrun flag
  tx,        \* USART3: bytes on their way out, commands or others
  dsp,       \* place of the byte the DSP sends next, or Off
  isr,       \* where the USART3 interrupt is
  pc,        \* where base is
  held,      \* "yes" while the processor is held up, "just" right after
  synced,    \* history: no byte of the stream was lost or misread since the
             \* answer the last handshake took
  gap,       \* history: the byte behind the one in rx was lost
  missed,    \* history: the answer to the last start was lost, counted as
             \* data or taken before DSP_Start set DSPState
  last       \* history: the last command sent since power-on, or "crossed"
             \* when it met another half-way

link    == <<state, led>>
message == <<data, ready>>
usart   == <<rx, ore>>
history == <<synced, gap, missed, last>>
vars    == <<link, message, usart, tx, dsp, isr, pc, held, history>>

Waiting == pc \in {"idle", "boot"}

TypeOK ==
  /\ state \in {"stopping", "hands", "running"} /\ led \in {"lit", "dark"}
  /\ data \in BoundedSeq(Byte, MsgLen)
  /\ ready => isr = "handle" /\ Len(data) = MsgLen
  /\ rx \in Byte \cup {Empty} /\ ore \in BOOLEAN
  /\ tx \in BoundedSeq({"start", "stop", "other"}, 2) /\ dsp \in Byte \cup {Off}
  /\ isr \in {"out", "dr", "handle"} /\ held \in {"no", "yes", "just"}
  /\ pc \in {"boot", "idle", "startLed", "startState",
             "stopLed", "stopState"}
  /\ synced \in BOOLEAN /\ gap \in BOOLEAN /\ missed \in BOOLEAN
  /\ last \in {"none", "start", "stop", "crossed"}

(* The variables of usr_dsp.c as the startup code leaves them (HANDLE_OK is  *)
(* 0), and PA5 an output that is low.                                       *)
Init ==
  /\ state = "stopping" /\ led = "lit"
  /\ data = <<>> /\ ready = FALSE
  /\ rx = Empty /\ ore = FALSE /\ tx = <<>> /\ dsp = Off
  /\ isr = "out" /\ pc = "boot" /\ held = "no"
  /\ synced = FALSE /\ gap = FALSE /\ missed = FALSE
  /\ last = "none"

(* The DSP has its own supply, and may be streaming when the board starts.  *)
PowerCycle ==
  /\ state' = "stopping" /\ led' = "lit"
  /\ data' = <<>> /\ ready' = FALSE
  /\ rx' = Empty /\ ore' = FALSE /\ tx' = <<>>
  /\ isr' = "out" /\ pc' = "boot" /\ held' = "no"
  /\ synced' = FALSE /\ gap' = FALSE /\ missed' = FALSE
  /\ last' = "none"
  /\ UNCHANGED dsp

-----------------------------------------------------------------------------
(* The processor runs neither interrupt, nor is one of USART3 pending.      *)
Free == isr = "out" /\ held # "yes" /\ rx = Empty /\ ~ore

(* An overrun found with RXNE reset: DSP_ReseveMsg returns before it reads  *)
(* the data register, so the flag stays and the interrupt comes again, and  *)
(* nothing of its priority or below runs until another byte arrives.        *)
Storm == isr = "out" /\ held # "yes" /\ rx = Empty /\ ore

(* A byte may arrive: nothing to do, held up, or just back from that, when  *)
(* the next byte falls anywhere, between two reads of the interrupt too.    *)
BytesMove ==
  \/ Free /\ Waiting
  \/ Storm
  \/ held = "yes"
  \/ held = "just" /\ isr = "dr"

Arrive(b) ==
  IF rx = Empty
  THEN /\ rx' = b
       /\ held' = IF held = "just" THEN "no" ELSE held
       /\ UNCHANGED <<ore, gap, missed>>
  ELSE /\ ore' = TRUE /\ gap' = TRUE
       /\ missed' = (missed \/ b = 0)
       /\ UNCHANGED <<rx, held>>

(* The DSP, as far as the code relies on it: only its two commands start    *)
(* and stop it.                                                             *)
DspSend ==
  /\ dsp # Off /\ BytesMove
  /\ Arrive(dsp)
  /\ dsp' = IF dsp = MsgLen THEN 1 ELSE dsp + 1
  /\ UNCHANGED <<link, message, tx, isr, pc, synced, last>>

DspReceive ==
  /\ tx # <<>> /\ BytesMove
  /\ dsp' = CASE Head(tx) = "start" -> 0
              [] Head(tx) = "stop"  -> Off
              [] OTHER              -> dsp
  /\ tx' = Tail(tx)
  /\ UNCHANGED <<link, message, usart, isr, pc, held, history>>

(* A listing 0xa1 or 0xa2, or a page erase by base.                         *)
HoldUp ==
  /\ Free /\ held' = "yes"
  /\ UNCHANGED <<link, message, usart, tx, dsp, isr, pc, history>>

Resume ==
  /\ held = "yes"
  /\ held' = IF rx = Empty /\ ~ore THEN "no" ELSE "just"
  /\ UNCHANGED <<link, message, usart, tx, dsp, isr, pc, history>>

-----------------------------------------------------------------------------
(* USART_SendData: no wait for TXE, but two bytes fit, one of them shifting *)
(* out, and no three bytes are sent within the time of one.                 *)
Send(cmd) ==
  /\ Len(tx) < 2 /\ tx' = Append(tx, cmd)
  /\ last' = IF pc = "idle" THEN cmd ELSE "crossed"
  /\ missed' = FALSE

(* The host's 0xaa and 0x55.  They may come during boot and in the middle   *)
(* of a command of base.                                                    *)
HostStartKeepsLed ==            \* mutant: the LED is left to DSP_Stop
  /\ Free /\ Send("start")
  /\ state' = "hands"
  /\ UNCHANGED <<led, message, usart, dsp, isr, pc, held, synced, gap>>

HostStart ==
  /\ Free /\ Send("start")
  /\ led' = "lit" /\ state' = "hands"
  /\ UNCHANGED <<message, usart, dsp, isr, pc, held, synced, gap>>

HostStop ==
  /\ Free /\ Send("stop")
  /\ led' = "dark" /\ state' = "stopping"
  /\ UNCHANGED <<message, usart, dsp, isr, pc, held, synced, gap>>

(* Any byte of the host that is no command is handed on to the DSP.  Only   *)
(* commands are modelled behind it: after a command such a byte changes     *)
(* nothing but the room left.                                               *)
HostForward ==
  /\ Free /\ tx = <<>> /\ tx' = <<"other">>
  /\ UNCHANGED <<link, message, usart, dsp, isr, pc, held, history>>

(* DSP_Start and DSP_Stop called by Server_recv, one assignment at a time.  *)
Command(cmd, at) ==
  /\ Free /\ pc = "idle" /\ Send(cmd)
  /\ pc' = at
  /\ UNCHANGED <<link, message, usart, dsp, isr, held, synced, gap>>

TcpStart == Command("start", "startLed")
TcpStop  == Command("stop", "stopLed")

SetLed ==
  /\ Free
  /\ \/ pc = "startLed" /\ led' = "lit" /\ pc' = "startState"
     \/ pc = "stopLed" /\ led' = "dark" /\ pc' = "stopState"
  /\ UNCHANGED <<state, message, usart, tx, dsp, isr, held, history>>

SetState ==
  /\ Free
  /\ \/ pc = "startState" /\ state' = "hands"
     \/ pc = "stopState" /\ state' = "stopping"
  /\ pc' = "idle"
  /\ UNCHANGED <<led, message, usart, tx, dsp, isr, held, history>>

(* main: the serial interrupts have been enabled since System_Setup.        *)
DSP_Init ==
  /\ Free /\ pc = "boot"
  /\ data' = <<>> /\ ready' = FALSE /\ led' = "dark"
  /\ pc' = "idle"
  /\ synced' = (synced /\ data = <<>>)
  /\ UNCHANGED <<state, usart, tx, dsp, isr, held, gap, missed, last>>

Base == SetLed \/ SetState \/ DSP_Init

-----------------------------------------------------------------------------
(* DSP_ReseveMsg in the USART3 interrupt: the status register, the data     *)
(* register (both reads together clear ORE, if the first saw it), then the  *)
(* byte.  With RXNE reset it returns and nothing changes.                   *)
ReadStatusNotFirst ==           \* mutant: data register only, no flag tested
  /\ isr = "out" /\ held # "yes" /\ rx # Empty
  /\ isr' = "dr"
  /\ UNCHANGED <<link, message, usart, tx, dsp, pc, held, history>>

ReadStatus ==
  /\ isr = "out" /\ held # "yes" /\ rx # Empty
  /\ isr' = "dr" /\ ore' = FALSE
  /\ UNCHANGED <<link, message, rx, tx, dsp, pc, held, history>>

(* The answer, or a byte of a watermark that happens to have its value.     *)
HandshakeKeepsCount ==          \* mutant: rDataLen goes on from where it was
  /\ state = "hands"
  /\ state' = "running"
  /\ synced' = (rx = 0)
  /\ missed' = (missed \/ pc = "startLed" \/ pc = "startState")
  /\ UNCHANGED message

HandshakeWaitsOn ==             \* mutant: DSPState is left as it is
  /\ state = "hands"
  /\ data' = <<>> /\ ready' = FALSE
  /\ synced' = (rx = 0)
  /\ UNCHANGED <<state, missed>>

Handshake ==
  /\ state = "hands"
  /\ state' = "running" /\ data' = <<>> /\ ready' = FALSE
  /\ synced' = (rx = 0)
  /\ missed' = (missed \/ pc = "startLed" \/ pc = "startState")

CountedOn == Append(data, rx)   \* mutant: no test for more than 24

Counted == IF Len(data) = MsgLen THEN <<rx>> ELSE Append(data, rx)

Collect ==
  /\ state # "hands" \/ rx # 0
  /\ data' = Counted /\ ready' = (Len(Counted) = MsgLen)
  /\ synced' = (synced /\ rx # 0)
  /\ missed' = (missed \/ rx = 0)
  /\ UNCHANGED state

DSP_ReseveMsg ==
  /\ isr = "dr" /\ (Handshake \/ Collect)
  /\ rx' = Empty /\ isr' = "handle" /\ held' = "no"
  /\ UNCHANGED <<led, ore, tx, dsp, pc, gap, last>>

(* Handle_Water takes a complete message; a record that it ends goes out to *)
(* the host before the interrupt returns.                                   *)
Handle_Water ==
  /\ isr = "handle" /\ isr' = "out"
  /\ ready' = FALSE
  /\ held' \in IF ready THEN {"no", "yes"} ELSE {held}
  /\ synced' = (synced /\ ~gap) /\ gap' = FALSE
  /\ UNCHANGED <<link, data, usart, tx, dsp, pc, missed, last>>

Usart3 == ReadStatus \/ DSP_ReseveMsg \/ Handle_Water

Next ==
  \/ HostStart \/ HostStop \/ HostForward \/ TcpStart \/ TcpStop
  \/ Base \/ Usart3
  \/ HoldUp \/ Resume
  \/ DspSend \/ DspReceive
  \/ PowerCycle

(* Interrupts run at once; base runs again and again between them, for the  *)
(* bytes at 115200 baud leave it time and a host does not ask for listings  *)
(* without pause; what holds the processor up ends; the UARTs shift bytes   *)
(* whatever the processor does, and a DSP that was started goes on sending. *)
Spec ==
  /\ Init /\ [][Next]_vars
  /\ WF_vars(Usart3) /\ SF_vars(Base) /\ WF_vars(Resume)
  /\ SF_vars(DspSend) /\ SF_vars(DspReceive)
-----------------------------------------------------------------------------
(* The message Handle_Water is given is one message of the DSP, first byte  *)
(* to last, as long as since the last handshake no byte was overrun and the *)
(* byte taken for the answer was the answer: whatever part of a message was *)
(* counted before, and wherever stops, starts and further handshakes fell.  *)
WholeMessages == ready /\ synced => data = [k \in 1 .. MsgLen |-> k]

(* When base is at rest, DSPState, the LED and the last command sent agree, *)
(* and so does the DSP once it has that command, unless a command of the    *)
(* host fell into one of base or into boot.                                 *)
CommandsAgree ==
  pc = "idle" /\ last \in {"start", "stop"} =>
    /\ (state = "stopping") <=> (last = "stop")
    /\ (led = "dark") <=> (last = "stop")
    /\ tx = <<>> => ((dsp = Off) <=> (last = "stop"))

(* The wait for the answer ends: the handshake is made, or a stop was sent  *)
(* meanwhile, or the answer was overrun, or it came before DSP_Start had    *)
(* set DSPState, or the start met another command half-way.                 *)
StartAnswered ==
  state = "hands" ~> state # "hands" \/ missed \/ last \in {"stop", "crossed"}

(* An overrun storm lets the board go on, until it is held up again, once   *)
(* the DSP sends another byte; only a DSP that was stopped meanwhile leaves *)
(* the board in it.                                                         *)
StormEnds == Storm ~> Free \/ held = "yes" \/ dsp = Off

(* A command of base, or boot, gets through all that interrupts it, once    *)
(* nothing holds the processor up any more, unless it is caught in a storm  *)
(* with the DSP stopped.                                                    *)
BaseFinishes ==
  <>[](held # "yes") => (pc # "idle" ~> pc = "idle" \/ (Storm /\ dsp = Off))
=============================================================================
