------------------------------ MODULE Console ------------------------------
(***************************************************************************)
(* The console: printf ends in altera_avalon_jtag_uart_write, the fast     *)
(* driver of the JTAG UART.  Three actors share its state: the program in  *)
(* write, the interrupt routines (the UART's and the system timer's, which *)
(* do not nest), and the host on the other side of the two hardware FIFOs. *)
(*                                                                         *)
(* The program opens the console for writing and blocking and never reads: *)
(* what is typed at the host is counted, not told apart, and rx_out stays  *)
(* 0.  The UART, its host and the interrupt lines are external.            *)
(***************************************************************************)
EXTENDS Alarm, SequencesExt

CONSTANTS
  BUF_LEN,         \* 2048, of tx_buf and of rx_buf
  WriteDepth,      \* 64, the hardware FIFO for output
  WriteThreshold,  \* 8: it interrupts when it holds no more than this
  ReadDepth,       \* 64, the hardware FIFO for input
  Timeout,         \* 10, silent seconds after which there is no host
  Counts,          \* lengths of the writes
  Numbers,         \* characters are numbered modulo this number
  StartTick        \* the tick at which the driver is initialised

ASSUME ConsoleAssumption ==
  /\ BUF_LEN \in Nat /\ BUF_LEN > 1
  /\ WriteThreshold \in Nat /\ WriteDepth \in Nat /\ WriteThreshold < WriteDepth
  /\ ReadDepth \in Nat \ {0} /\ Timeout \in Nat \ {0}
  /\ Counts \subseteq Nat \ {0} /\ Numbers \in Nat \ {0}
  /\ StartTick \in 0..TickMod - 1

VARIABLES
  tx_buf, tx_in, tx_out, rx_in,  \* of altera_avalon_jtag_uart_state
  RE, WE,                        \* irq_enable, and the control register
  host_inactive,
  pc,        \* where write is
  out, n,    \* its local variables
  count,     \* characters it has still to copy
  next,      \* the number of the character at ptr
  isr,       \* where the interrupt routine is, "off" when it does not run
  control,   \* its copy of the control register
  ravail,    \* RAVAIL of the last data it read
  txFifo, rxFifo, ac,  \* the UART: its FIFOs (rxFifo by length), CONTROL.AC
  up,                  \* the host is connected
  shown                \* the last character it has shown

ring == <<tx_buf, tx_in, tx_out>>
irqs == <<RE, WE>>
writer == <<pc, out, n, count, next>>
service == <<isr, control, ravail>>
hostVars == <<up, shown>>
consoleVars == <<ring, rx_in, irqs, host_inactive, writer, service,
                 txFifo, rxFifo, ac, hostVars, alarmVars>>

Wrap(i) == i % BUF_LEN

-----------------------------------------------------------------------------
(* write *)

\* Mutant: all the room there is, also beyond the end of the buffer.
RoomInAll(in, o) == IF in < o THEN o - 1 - in ELSE BUF_LEN - 1 - in + o
\* Mutant: the last place is used, so that a full ring looks empty.
RoomToEnd(in, o) == IF in < o THEN o - 1 - in ELSE BUF_LEN - in
\* Room in one piece after tx_in = in, when tx_out = o.
Room(in, o) ==
  IF in < o THEN o - 1 - in
  ELSE IF o > 0 THEN BUF_LEN - in ELSE BUF_LEN - 1 - in

\* printf has characters for the console.
Call ==
  /\ pc = "idle"
  /\ count' \in Counts
  /\ pc' = "copy"
  /\ UNCHANGED <<out, n, next>>

\* One pass of the copy loop up to memcpy; the interrupt routine may still
\* send from the ring before Advance, with the room computed from an old tx_out.
Copy ==
  /\ pc = "copy"
  /\ out' = tx_out
  /\ LET room == Room(tx_in, tx_out)
         k == IF room > count THEN count ELSE room
     IN  /\ n' = k
         /\ tx_buf' = [i \in DOMAIN tx_buf \cup tx_in..tx_in + k - 1 |->
              IF i < tx_in \/ i >= tx_in + k THEN tx_buf[i] ELSE (next + i - tx_in) % Numbers]
         /\ count' = count - k
         /\ pc' = IF k = 0 THEN "kick" ELSE "advance"
  /\ UNCHANGED <<tx_in, tx_out, next>>

Advance ==
  /\ pc = "advance"
  /\ tx_in' = Wrap(tx_in + n)
  /\ next' = (next + n) % Numbers
  /\ pc' = IF count > 0 THEN "copy" ELSE "kick"
  /\ out' = IF count > 0 THEN out ELSE 0  \* not used any more
  /\ n' = 0
  /\ UNCHANGED <<tx_buf, tx_out, count>>

\* Mutant: interrupts are enabled only when there is no space left.
KickWhenFull == WE \/ count > 0
\* The interrupt routine is made to run.
Kicked == TRUE

Kick ==
  /\ pc = "kick"
  /\ WE' = Kicked
  /\ pc' = IF count > 0 THEN "wait" ELSE "idle"
  /\ UNCHANGED <<RE, out, n, count, next>>

\* The loop that waits for the interrupt routine to make room.
Spins == out = tx_out /\ host_inactive < Timeout

\* After the loop: a host that was silent for a second ends the call with
\* what has been accepted, or with EIO if that is nothing.
Wait ==
  /\ pc = "wait" /\ ~Spins
  /\ out' = 0
  /\ IF host_inactive > 0
     THEN pc' = "idle" /\ count' = 0
     ELSE pc' = "copy" /\ UNCHANGED count
  /\ UNCHANGED <<n, next>>

\* The program runs between interrupts.
WriteStep ==
  /\ isr = "off"
  /\ \/ (Call \/ Wait) /\ UNCHANGED <<ring, irqs>>
     \/ (Copy \/ Advance) /\ UNCHANGED irqs
     \/ Kick /\ UNCHANGED ring
  /\ UNCHANGED <<rx_in, host_inactive, service, txFifo, rxFifo, ac, hostVars, alarmVars>>

-----------------------------------------------------------------------------
(* altera_avalon_jtag_uart_irq *)

RI == RE /\ rxFifo > 0
WI == WE /\ Len(txFifo) <= WriteThreshold

NoControl == [wi |-> FALSE, space |-> 0]

\* The interrupt starts the routine, or its loop starts again.
ReadControl ==
  /\ isr \in {"off", "control"} /\ (RI \/ WI)
  /\ control' = [wi |-> WI, space |-> WriteDepth - Len(txFifo)]
  /\ isr' = IF RI THEN "receive" ELSE "transmit"
  /\ ravail' = RI   \* assumed

NothingToDo ==
  /\ isr = "control" /\ ~RI /\ ~WI
  /\ isr' = "off"
  /\ UNCHANGED <<control, ravail>>

RxFull == Wrap(rx_in + 1) = 0

Receive ==
  /\ isr = "receive" /\ ~RxFull /\ rxFifo > 0
  /\ rx_in' = Wrap(rx_in + 1)
  /\ rxFifo' = rxFifo - 1
  /\ ravail' = (rxFifo' > 0)
  /\ UNCHANGED <<isr, control, irqs>>

\* Mutant: input interrupts stay enabled when there is no room.
StillListens == RE
\* Input interrupts stay enabled unless characters wait and there is no room.
Listens == RE /\ ~(ravail /\ RxFull)

\* There is no room, or the FIFO gives no more.
ReceiveEnds ==
  /\ isr = "receive" /\ (RxFull \/ rxFifo = 0)
  /\ RE' = Listens
  /\ ravail' = FALSE   \* not used any more
  /\ IF control.wi
     THEN isr' = "transmit" /\ UNCHANGED control
     ELSE isr' = "control" /\ control' = NoControl
  /\ UNCHANGED <<rx_in, rxFifo, WE>>

Pending == Wrap(tx_in - tx_out)
Ring(k) == [i \in 1..k |-> tx_buf[Wrap(tx_out + i - 1)]]

\* Mutant: output interrupts are disabled when the ring has been emptied or
\* the FIFO filled.
WantsMoreIfRoom(sent) == FALSE
\* Output interrupts stay enabled until there was room for more than the ring held.
WantsMore(sent) == WE /\ sent >= control.space

Transmit ==
  /\ isr = "transmit"
  /\ LET sent == IF Pending < control.space THEN Pending ELSE control.space
     IN  /\ txFifo' = txFifo \o Ring(sent)
         /\ tx_out' = Wrap(tx_out + sent)
         /\ WE' = WantsMore(sent)
  /\ isr' = "control"
  /\ control' = NoControl   \* not used any more
  /\ UNCHANGED <<tx_buf, tx_in, RE, ravail>>

Irq ==
  /\ \/ (ReadControl \/ NothingToDo) /\ UNCHANGED <<ring, rx_in, irqs, txFifo, rxFifo>>
     \/ (Receive \/ ReceiveEnds) /\ UNCHANGED <<ring, txFifo>>
     \/ Transmit /\ UNCHANGED <<rx_in, rxFifo>>
  /\ UNCHANGED <<host_inactive, writer, ac, hostVars, alarmVars>>

\* altera_avalon_jtag_uart_timeout.  host_inactive counts on to INT_MAX - 2;
\* nothing tells values from Timeout on apart.
HostCheck ==
  IF ac
  THEN ac' = FALSE /\ host_inactive' = 0
  ELSE /\ host_inactive' = IF host_inactive < Timeout THEN host_inactive + 1 ELSE Timeout
       /\ UNCHANGED ac

\* alt_avalon_timer_sc_irq
TimerIrq ==
  /\ isr = "off"
  /\ Tick
  /\ IF Fires THEN HostCheck ELSE UNCHANGED <<ac, host_inactive>>
  /\ UNCHANGED <<ring, rx_in, irqs, writer, service, txFifo, rxFifo, hostVars>>

-----------------------------------------------------------------------------
(* The host *)

HostTakes ==
  /\ up /\ txFifo # <<>>
  /\ shown' = Head(txFifo) /\ txFifo' = Tail(txFifo)
  /\ ac' = TRUE
  /\ UNCHANGED <<rxFifo, up>>

HostTypes ==
  /\ up /\ rxFifo < ReadDepth
  /\ rxFifo' = rxFifo + 1
  /\ ac' = TRUE
  /\ UNCHANGED <<txFifo, hostVars>>

HostComesOrGoes == up' = ~up /\ UNCHANGED <<txFifo, rxFifo, ac, shown>>

HostStep ==
  /\ HostTakes \/ HostTypes \/ HostComesOrGoes
  /\ UNCHANGED <<ring, rx_in, irqs, host_inactive, writer, service, alarmVars>>

-----------------------------------------------------------------------------
\* altera_avalon_jtag_uart_init, with or without a host.
ConsoleInit ==
  /\ tx_buf = [i \in 0..BUF_LEN - 1 |-> 0] /\ tx_in = 0 /\ tx_out = 0 /\ rx_in = 0
  /\ RE = TRUE /\ WE = FALSE /\ host_inactive = 0
  /\ pc = "idle" /\ out = 0 /\ n = 0 /\ count = 0 /\ next = 0
  /\ isr = "off" /\ control = NoControl /\ ravail = FALSE
  /\ txFifo = <<>> /\ rxFifo = 0 /\ ac \in BOOLEAN
  /\ up \in BOOLEAN /\ shown = Numbers
  /\ AlarmStart(StartTick)

ConsoleNext == WriteStep \/ Irq \/ TimerIrq \/ HostStep

ConsoleSpec == ConsoleInit /\ [][ConsoleNext]_consoleVars

\* The processor runs, interrupts are served, time passes, and a host that
\* is connected reads.  Nobody has to print, to type or to connect.
ConsoleFairSpec ==
  /\ ConsoleSpec
  /\ WF_consoleVars(WriteStep /\ pc # "idle")
  /\ WF_consoleVars(Irq) /\ WF_consoleVars(TimerIrq)
  /\ WF_consoleVars(HostTakes /\ HostStep)

-----------------------------------------------------------------------------
ConsoleTypeOK ==
  /\ AlarmTypeOK
  /\ tx_buf \in [0..BUF_LEN - 1 -> 0..Numbers - 1]
  /\ {tx_in, tx_out, rx_in, out} \subseteq 0..BUF_LEN - 1
  /\ n \in 0..BUF_LEN - 1 /\ count \in Nat /\ next \in 0..Numbers - 1
  /\ {RE, WE, ac, up, ravail} \subseteq BOOLEAN
  /\ host_inactive \in 0..Timeout
  /\ pc \in {"idle", "copy", "advance", "kick", "wait"}
  /\ isr \in {"off", "control", "receive", "transmit"}
  /\ control \in [wi : BOOLEAN, space : 0..WriteDepth]
  /\ Len(txFifo) <= WriteDepth /\ Range(txFifo) \subseteq 0..Numbers - 1
  /\ rxFifo \in 0..ReadDepth /\ shown \in 0..Numbers

\* No wake-up is lost between the routine that switches its interrupt off
\* because the ring is empty and the write that fills it: characters in the
\* ring always have an interrupt to come or a write that is going to enable
\* it (write.c:129-139, init.c:186-194).
NoLostWakeup == Pending > 0 => WE \/ pc \notin {"idle", "wait"}

\* The console is a pipe: what is in the ring and in the FIFO of the UART.
Pipe == INSTANCE CharPipe WITH pipe <- txFifo \o Ring(Pending)
ConsoleIsPipe == Pipe!PipeSpec

\* printf always comes back: with a host or without one, because the alarm
\* of the system clock counts the silent seconds, and whatever is typed,
\* although nobody reads it (write.c:183-188, init.c:132-167, 203-225).
WriteReturns == pc # "idle" ~> pc = "idle"

\* What has been accepted is shown in the end, if the host stays.
ShownInTheEnd ==
  <>[]up => \A c \in 0..Numbers - 1 : (c \in Range(Ring(Pending)) ~> shown = c)
=============================================================================
