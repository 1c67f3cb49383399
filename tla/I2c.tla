-------------------------------- MODULE I2c --------------------------------
(***************************************************************************)
(* Start-up of the codec: initialize_sgtl5000 (sgtl5000_test.c) writes and *)
(* reads the registers of the SGTL5000 (sgtl5000.c) through the polled     *)
(* functions of the I2C driver (altera_avalon_i2c.c).                      *)
(*                                                                         *)
(* Two actors: the driver, which pushes commands, polls flags and levels   *)
(* and retries; and the I2C core with the codec behind it, which executes  *)
(* the commands at its own pace, so that an error of a command shows when  *)
(* the driver is several commands further.  The core and the codec are     *)
(* external: an error ends the transaction and empties the command FIFO,   *)
(* and disabling the core empties both FIFOs.                              *)
(*                                                                         *)
(* The polling loops are steps that may be taken at any time; their        *)
(* counters are far longer than a transaction, so they run out only when   *)
(* the core cannot go on.  Registers and values are the numbers of         *)
(* sgtl5000.h; addr_mode is 7 bits, so an address is one command.  The     *)
(* controller is found: alt_sys_init has registered it.                    *)
(***************************************************************************)
EXTENDS Integers, Sequences

CONSTANTS
  FIFO_DEPTH,   \* commands the core holds
  RETRIES,      \* 10000, the attempts of a call
  Junk,         \* what RX_DATA may give when its FIFO is empty
  BusFaults,    \* what may go wrong: see Fault
  MaxBusFaults  \* bound: how often

Byte == 0..255
Word == {n \in Nat : n < 65536}
Fault == {"nack", "arblost", "stuck"}

ASSUME I2cAssumption ==
  /\ FIFO_DEPTH \in Nat \ {0} /\ RETRIES \in Nat \ {0}
  /\ Junk \subseteq Byte /\ Junk # {}
  /\ BusFaults \subseteq Fault /\ MaxBusFaults \in Nat

VARIABLES
  at,        \* the call of Setup that runs or comes next
  i2c_pc,    \* where the driver is
  buffer,    \* of SGTL5000_Reg_Wr and SGTL5000_Reg_Rd
  todo,      \* commands the running transmit or receive has still to push
  filled,    \* bytes_read of the running receive
  receiving, \* master_receive runs, not master_transmit
  status, retry,
  en, cmds, rx,         \* the core: CTRL.EN and the two FIFOs
  nack_det, arblost_det,\* the flags of ISR
  stuck,                \* a slave holds the clock for good
  latch,     \* the codec: the bytes of the transaction since its start
  codec,     \* the codec: its registers
  mishaps,   \* faults so far
  astray     \* history: the running attempt asks for another register

client == <<at, buffer>>
core == <<en, cmds, rx, nack_det, arblost_det, stuck, latch, codec, mishaps>>
flow == <<i2c_pc, todo, filled, receiving, status, retry, astray>>
i2cVars == <<client, core, flow>>

Hi(w) == w \div 256
Lo(w) == w % 256

Rd(r) == [op |-> "rd", reg |-> r, data |-> 0]
Wr(r, d) == [op |-> "wr", reg |-> r, data |-> d]

\* The calls of initialize_sgtl5000, in order; each write is read back.
Setup ==
  <<Rd(0),                               \* CHIP_ID
    Wr(50, 29595), Rd(50),               \* CHIP_PLL_CTRL
    Wr(48, 17918), Rd(48),               \* CHIP_ANA_POWER
    Wr(40, 78), Rd(40), Wr(2, 99), Rd(2),     \* CHIP_REF_CTRL, CHIP_DIG_POWER
    Wr(4, 7), Rd(4), Wr(6, 128), Rd(6),       \* CHIP_CLK_CTRL, CHIP_I2S_CTRL
    Wr(36, 4), Rd(36), Wr(10, 16), Rd(10),    \* CHIP_ANA_CTRL, CHIP_SSS_CTRL
    Rd(36), Wr(14, 0), Rd(14), Rd(20)>>       \* CHIP_ADCDAC_CTRL, CHIP_PAD_STRENGTH

Regs == {Setup[k].reg : k \in 1..Len(Setup)}
Written == {Setup[k].reg : k \in {j \in 1..Len(Setup) : Setup[j].op = "wr"}}
Unset == 65535     \* what a register holds before start-up: no value of Setup

\* A command: "aw" and "ar" are addresses with the direction bit, "rx" asks
\* for a byte.
Cmd(kind, d, sto) == [kind |-> kind, d |-> d, sto |-> sto]
Commands == [kind : {"aw", "ar", "tx", "rx"}, d : Byte, sto : BOOLEAN]

I2cInit ==
  /\ at = 1 /\ i2c_pc = "call" /\ buffer = <<>>
  /\ todo = <<>> /\ filled = 0 /\ receiving = FALSE
  /\ status = "SUCCESS" /\ retry = 0 /\ astray = FALSE
  /\ en = FALSE /\ cmds = <<>> /\ rx = <<>>
  /\ nack_det = FALSE /\ arblost_det = FALSE /\ stuck = FALSE
  /\ latch = <<>> /\ codec = [r \in Regs |-> Unset]
  /\ mishaps = [f \in Fault |-> 0]

-----------------------------------------------------------------------------
(***************************************************************************)
(* SGTL5000_Reg_Wr and SGTL5000_Reg_Rd.                                    *)
(***************************************************************************)
NextCall == Setup[at]
Address == <<Hi(NextCall.reg), Lo(NextCall.reg)>>

BeginCall ==
  /\ i2c_pc = "call" /\ at <= Len(Setup)
  /\ buffer' = IF NextCall.op = "rd" THEN Address
               ELSE Address \o <<Hi(NextCall.data), Lo(NextCall.data)>>
  /\ retry' = RETRIES
  /\ i2c_pc' = "attempt"
  /\ astray' = FALSE
  /\ UNCHANGED <<at, core, todo, filled, receiving, status>>

\* Any status but success is an endless loop.
EndCall ==
  /\ i2c_pc = "return"
  /\ IF status = "SUCCESS"
       THEN at' = at + 1 /\ i2c_pc' = "call"
       ELSE UNCHANGED at /\ i2c_pc' = "hang"
  /\ UNCHANGED <<buffer, core, todo, filled, receiving, status, retry, astray>>

\* initialize_sgtl5000 has returned.
CodecReady == i2c_pc = "call" /\ at > Len(Setup)

-----------------------------------------------------------------------------
(***************************************************************************)
(* alt_avalon_i2c_master_tx and alt_avalon_i2c_master_tx_rx.               *)
(***************************************************************************)

\* Mutant: a refused byte ends the call.
RetryableNoNack == {"ARB_LOST_ERR", "BUSY"}

Retryable == {"ARB_LOST_ERR", "NACK_ERR", "BUSY"}

\* The commands of master_transmit; only a write ends with a stop.
Transmits ==
  <<Cmd("aw", 0, FALSE)>> \o
  [k \in 1..Len(buffer) |->
     Cmd("tx", buffer[k], NextCall.op = "wr" /\ k = Len(buffer))]

Receives == <<Cmd("ar", 0, FALSE), Cmd("rx", 0, FALSE), Cmd("rx", 0, TRUE)>>

\* The next attempt.  alt_avalon_i2c_enable refuses if the core is enabled.
Attempt ==
  /\ i2c_pc = "attempt"
  /\ IF retry = 0
       THEN /\ i2c_pc' = "return"
            /\ UNCHANGED <<todo, receiving, status, retry, astray, en, nack_det, arblost_det>>
       ELSE /\ retry' = retry - 1
            /\ receiving' = FALSE
            /\ astray' = (SubSeq(buffer, 1, 2) # Address)
            /\ IF en
                 THEN /\ status' = "BUSY"
                      /\ UNCHANGED <<i2c_pc, todo, en, nack_det, arblost_det>>
                 ELSE /\ status' = "SUCCESS"
                      /\ en' = TRUE
                      /\ nack_det' = FALSE /\ arblost_det' = FALSE
                      /\ todo' = Transmits
                      /\ i2c_pc' = "push"
  /\ UNCHANGED <<client, filled, cmds, rx, stuck, latch, codec, mishaps>>

\* What follows a transmit or a receive that ended with s: another attempt,
\* the receive of a read (also after a timeout), or the end of the call.
Continue(s) ==
  IF s \in Retryable
    THEN i2c_pc' = "attempt" /\ UNCHANGED <<todo, filled, receiving>>
  ELSE IF NextCall.op = "rd" /\ ~receiving
    THEN /\ i2c_pc' = "push" /\ todo' = Receives /\ filled' = 0 /\ receiving' = TRUE
    ELSE i2c_pc' = "return" /\ UNCHANGED <<todo, filled, receiving>>

-----------------------------------------------------------------------------
(***************************************************************************)
(* alt_avalon_i2c_master_transmit and alt_avalon_i2c_master_receive: both  *)
(* push their commands through alt_avalon_i2c_cmd_write.                   *)
(***************************************************************************)
Busy == en /\ (cmds # <<>> \/ latch # <<>>)

\* Mutant: a polling loop has no counter.
StalledOnly == cmds = <<>>

\* The core cannot go on, so a polling loop runs out.
Stalled == stuck \/ ~en \/ cmds = <<>>

\* The flags as alt_avalon_i2c_check_nack and _check_arblost see them.
Checked(s) ==
  IF arblost_det THEN "ARB_LOST_ERR" ELSE IF nack_det THEN "NACK_ERR" ELSE s

Push ==
  /\ i2c_pc = "push"
  /\ Len(cmds) < FIFO_DEPTH
  /\ cmds' = Append(cmds, Head(todo))
  /\ todo' = Tail(todo)
  /\ i2c_pc' = "check"
  /\ UNCHANGED <<client, filled, receiving, status, retry, astray,
                 en, rx, nack_det, arblost_det, stuck, latch, codec, mishaps>>

\* TX_READY never comes.
PushTimeout ==
  /\ i2c_pc = "push"
  /\ Len(cmds) >= FIFO_DEPTH /\ Stalled
  /\ status' = "TIMEOUT"
  /\ i2c_pc' = "wait"
  /\ UNCHANGED <<client, core, todo, filled, receiving, retry, astray>>

\* Mutant: the place in the buffer is not advanced.
FillFirst(bs) ==
  /\ buffer' = [k \in 1..Len(buffer) |-> IF k \in 1..Len(bs) THEN bs[k] ELSE buffer[k]]
  /\ filled' = filled + Len(bs)

\* The bytes of the receive FIFO go into the buffer.
Fill(bs) ==
  /\ buffer' = [k \in 1..Len(buffer) |->
                  IF k - filled \in 1..Len(bs) THEN bs[k - filled] ELSE buffer[k]]
  /\ filled' = filled + Len(bs)

\* After a command.  The loop of master_receive empties the receive FIFO
\* behind each command that asks for a byte, the last one excepted.
Check ==
  /\ i2c_pc = "check"
  /\ status' = Checked("SUCCESS")
  /\ IF status' # "SUCCESS"
       THEN i2c_pc' = "wait" /\ UNCHANGED <<buffer, todo, filled, receiving, rx>>
     ELSE IF todo = <<>> /\ ~receiving /\ NextCall.op = "rd"
       THEN Continue("SUCCESS") /\ UNCHANGED <<buffer, rx>>
     ELSE IF todo = <<>>
       THEN /\ i2c_pc' = IF receiving THEN "read" ELSE "wait"
            /\ UNCHANGED <<buffer, todo, filled, receiving, rx>>
     ELSE /\ i2c_pc' = "push"
          /\ UNCHANGED <<todo, receiving>>
          /\ IF receiving /\ Len(todo) = 1
               THEN Fill(rx) /\ rx' = <<>>
               ELSE UNCHANGED <<buffer, filled, rx>>
  /\ UNCHANGED <<at, retry, astray, en, cmds, nack_det, arblost_det,
                 stuck, latch, codec, mishaps>>

\* alt_avalon_i2c_rx_read until the buffer is full.
Read ==
  /\ i2c_pc = "read" /\ filled < Len(buffer) /\ rx # <<>>
  /\ Fill(<<Head(rx)>>)
  /\ rx' = Tail(rx)
  /\ UNCHANGED <<at, i2c_pc, todo, receiving, status, retry, astray,
                 en, cmds, nack_det, arblost_det, stuck, latch, codec, mishaps>>

\* No byte came: what RX_DATA gives is stored all the same.
ReadTimeout ==
  /\ i2c_pc = "read" /\ filled < Len(buffer) /\ rx = <<>> /\ Stalled
  /\ \E b \in Junk : Fill(<<b>>)
  /\ status' = "TIMEOUT"
  /\ i2c_pc' = "wait"
  /\ UNCHANGED <<at, core, todo, receiving, retry, astray>>

ReadDone ==
  /\ i2c_pc = "read" /\ filled = Len(buffer)
  /\ i2c_pc' = "wait"
  /\ UNCHANGED <<client, core, todo, filled, receiving, status, retry, astray>>

\* alt_avalon_i2c_disable: the ip is disabled and enabled for each transaction.
Disable == en' = FALSE /\ cmds' = <<>> /\ rx' = <<>> /\ latch' = <<>>

\* Mutant: the last look at the flags is left out.
NotLooked(s) == s

\* The last look at the flags: NACK_DET only, and it replaces a timeout.
LateNack(s) == IF nack_det THEN "NACK_ERR" ELSE s

\* The end of a transaction: the core is idle, or the wait for it ran out.
Finish ==
  /\ i2c_pc = "wait"
  /\ ~Busy \/ Stalled
  /\ LET s == LateNack(IF Busy THEN "TIMEOUT" ELSE status) IN
     /\ status' = s
     /\ Disable
     /\ Continue(s)
  /\ UNCHANGED <<client, retry, astray, nack_det, arblost_det, stuck, codec, mishaps>>

Driver ==
  \/ BeginCall \/ EndCall \/ Attempt \/ Push \/ PushTimeout \/ Check
  \/ Read \/ ReadTimeout \/ ReadDone \/ Finish

-----------------------------------------------------------------------------
(***************************************************************************)
(* The I2C core and the codec: external.  latch holds the address and the  *)
(* bytes since the start condition; a register is set by the second byte   *)
(* after its number, and a read gives the bytes of the register that the   *)
(* last two bytes written name.                                            *)
(***************************************************************************)
ADDR == 20       \* the codec's address and the direction bit

RegOf(l) == 256 * l[2] + l[3]
Contents(r) == IF r \in Regs THEN codec[r] ELSE 0

\* The command at the head of the FIFO succeeds.
CoreStep ==
  /\ en /\ ~stuck /\ cmds # <<>>
  /\ LET c == Head(cmds)
         l == CASE c.kind = "aw" -> <<ADDR>>
                [] c.kind = "ar" -> IF latch = <<>> THEN <<ADDR>> ELSE latch
                [] c.kind = "tx" /\ latch # <<>> -> Append(latch, c.d)
                [] c.kind = "rx" /\ Len(latch) \in {3, 4} ->
                     Append(latch, IF Len(latch) = 3 THEN Hi(Contents(RegOf(latch)))
                                                     ELSE Lo(Contents(RegOf(latch))))
                [] OTHER -> latch
     IN
     /\ cmds' = Tail(cmds)
     /\ latch' = IF c.sto THEN <<>> ELSE l
     /\ rx' = IF c.kind = "rx" /\ l # latch THEN Append(rx, l[Len(l)]) ELSE rx
     /\ codec' = IF c.kind = "tx" /\ Len(l) = 5 /\ RegOf(l) \in Regs
                   THEN [codec EXCEPT ![RegOf(l)] = 256 * l[4] + l[5]]
                   ELSE codec
  /\ UNCHANGED <<client, flow, en, nack_det, arblost_det, stuck, mishaps>>

\* It does not.  Only an address or a byte of the driver can be refused.
CoreFault(f) ==
  /\ en /\ ~stuck /\ cmds # <<>>
  /\ f \in BusFaults
  /\ mishaps["nack"] + mishaps["arblost"] + mishaps["stuck"] < MaxBusFaults
  /\ f = "nack" => Head(cmds).kind # "rx"
  /\ mishaps' = [mishaps EXCEPT ![f] = @ + 1]
  /\ IF f = "stuck"
       THEN stuck' = TRUE /\ UNCHANGED <<cmds, latch, nack_det, arblost_det>>
       ELSE /\ cmds' = <<>> /\ latch' = <<>>
            /\ nack_det' = (nack_det \/ f = "nack")
            /\ arblost_det' = (arblost_det \/ f = "arblost")
            /\ UNCHANGED stuck
  /\ UNCHANGED <<client, flow, en, rx, codec>>

I2cNext == Driver \/ CoreStep \/ \E f \in Fault : CoreFault(f)

-----------------------------------------------------------------------------
I2cTypeOK ==
  /\ at \in 1..(Len(Setup) + 1)
  /\ i2c_pc \in {"call", "attempt", "push", "check", "read", "wait", "return", "hang"}
  /\ buffer \in Seq(Byte)
  /\ todo \in Seq(Commands) /\ filled \in 0..2 /\ receiving \in BOOLEAN
  /\ status \in {"SUCCESS", "TIMEOUT", "NACK_ERR", "ARB_LOST_ERR", "BUSY"}
  /\ retry \in 0..RETRIES /\ astray \in BOOLEAN
  /\ {en, nack_det, arblost_det, stuck} \subseteq BOOLEAN
  /\ cmds \in Seq(Commands) /\ Len(cmds) <= FIFO_DEPTH
  /\ rx \in Seq(Byte) /\ Len(rx) <= 2 /\ latch \in Seq(Byte)
  /\ codec \in [Regs -> Word]
  /\ mishaps \in [Fault -> 0..MaxBusFaults]

\* The calls before the running one have taken effect: when
\* initialize_sgtl5000 returns, and at each call on the way, every register
\* written so far holds its value and no other was touched, although the
\* driver learns of a refused byte only commands later and repeats calls
\* that were half done (altera_avalon_i2c.c:511-535, 615-689).  Arbitration
\* losses are excepted: nothing looks for one behind the last command.
CodecFollows ==
  mishaps["arblost"] = 0 =>
    \A k \in {j \in 1..Len(Setup) : Setup[j].op = "wr"} :
      /\ k < at => codec[Setup[k].reg] = Setup[k].data
      /\ k > at => codec[Setup[k].reg] = Unset

\* A read that reports success gives the codec's register, unless an earlier
\* attempt overwrote the register's number, which is kept in the same buffer
\* as the answer (sgtl5000.c:15, altera_avalon_i2c.c:572-611).
ReadsRegister ==
  i2c_pc = "return" /\ status = "SUCCESS" /\ NextCall.op = "rd" /\ ~astray =>
    256 * buffer[1] + buffer[2] = codec[NextCall.reg]

\* Start-up hangs (sgtl5000.c:17-23, 37-43) only on a bus that is blocked, an
\* arbitration loss in the middle of a read, or as many refusals as there are
\* attempts: an attempt that failed leaves the controller off and empty for
\* the next one (altera_avalon_i2c.c:210-240, 666-686).
HangsIfHopeless ==
  i2c_pc = "hang" =>
    stuck \/ mishaps["arblost"] > 0 \/ mishaps["nack"] >= RETRIES
=============================================================================
