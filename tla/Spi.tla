-------------------------------- MODULE Spi --------------------------------
(***************************************************************************)
(* Start-up of the USB host controller: MAX3421e::Init (usbhost.cpp) sets  *)
(* up the MAX3421E by register accesses, each one command of the SPI       *)
(* driver (altera_avalon_spi.c).                                           *)
(*                                                                         *)
(* Two actors: the driver, which polls the status of the SPI core, sends a *)
(* byte when it has a credit and takes a byte when one has come in; and    *)
(* the core, which shifts bytes to and from the chip at its own pace.  The *)
(* core and the chip are external.  Registers and values are the numbers   *)
(* of max3421e.h.  No caller passes flags, so a command ends by releasing  *)
(* the chip.                                                               *)
(***************************************************************************)
EXTENDS Integers, Sequences

CONSTANTS
  MaxPolls,   \* 65535, looks at the oscillator
  Levels,     \* the two data lines of the bus when it is probed: HRSL
  Stale       \* what RXDATA may hold, and what the chip answers to a command byte

ASSUME SpiAssumption ==
  /\ MaxPolls \in Nat \ {0}
  /\ Levels \subseteq {0, 64, 128, 192} /\ Levels # {}
  /\ Stale \subseteq 0..255 /\ Stale # {}

VARIABLES
  step,       \* the register access of MAX3421e::Init that runs or comes next
  polls,      \* i of MAX3421e::reset
  hrsl,       \* bus_sample of busprobe
  mode,       \* what busprobe writes to MODE
  spi_pc, credits, got,    \* of the command; got is read_data
  tosend,                  \* its bytes still to be sent, the zeros included
  ignore,                  \* read_ignore
  txdata, shift, rxdata, rrdy,  \* the core: TXDATA, its shift register, RXDATA
  chip,       \* the chip: its registers
  osc, level, \* the chip: OSCOKIRQ; the data lines
  sampled,    \* the chip: the sample of the bus has been taken
  heard, told \* the chip: bytes received and answered since it was selected

access == <<step, polls, hrsl, mode>>
command == <<spi_pc, credits, got, tosend, ignore>>
spiCore == <<txdata, shift, rxdata, rrdy>>
spiChip == <<chip, osc, level, sampled, heard, told>>
spiVars == <<access, command, spiCore, spiChip>>

rUSBIRQ == 104
rUSBCTL == 120
rCPUCTL == 128
rPINCTL == 136
rHIRQ == 200
rHIEN == 208
rMODE == 216
rHCTL == 232
rHRSL == 248

\* The registers that are written.
ChipReg == {rUSBCTL, rCPUCTL, rPINCTL, rHIRQ, rHIEN, rMODE, rHCTL}

-----------------------------------------------------------------------------
(***************************************************************************)
(* MAX3421e::Init, reset and busprobe: the sequence of accesses.           *)
(***************************************************************************)
Access ==
  CASE step = "pinctl"  -> [reg |-> rPINCTL, val |-> <<24>>]
    [] step = "chipres" -> [reg |-> rUSBCTL, val |-> <<32>>]
    [] step = "run"     -> [reg |-> rUSBCTL, val |-> <<0>>]
    [] step = "osc"     -> [reg |-> rUSBIRQ, val |-> <<>>]
    [] step = "host"    -> [reg |-> rMODE,   val |-> <<193>>]
    [] step = "hien"    -> [reg |-> rHIEN,   val |-> <<96>>]
    [] step = "sample"  -> [reg |-> rHCTL,   val |-> <<4>>]
    [] step = "sampled" -> [reg |-> rHCTL,   val |-> <<>>]
    [] step = "probe"   -> [reg |-> rHRSL,   val |-> <<>>]
    [] step = "speed"   -> [reg |-> rMODE,   val |-> <<>>]
    [] step = "mode"    -> [reg |-> rMODE,   val |-> <<mode>>]
    [] step = "clear"   -> [reg |-> rHIRQ,   val |-> <<32>>]
    [] step = "enable"  -> [reg |-> rCPUCTL, val |-> <<1>>]

Straight == [pinctl |-> "chipres", chipres |-> "run", run |-> "osc", host |-> "hien",
             hien |-> "sample", sample |-> "sampled", mode |-> "clear",
             clear |-> "enable", enable |-> "ready"]

Has(byte, bit) == (byte \div bit) % 2 = 1

\* The access has ended; a read gave got.
AccessEnds ==
  /\ spi_pc = "return"
  /\ spi_pc' = "call"
  /\ \/ /\ step \in DOMAIN Straight
        /\ step' = Straight[step]
        /\ UNCHANGED <<polls, hrsl, mode>>
     \/ /\ step = "osc" /\ Has(got[1], 1)
        /\ step' = "host" /\ polls' = 0
        /\ UNCHANGED <<hrsl, mode>>
     \/ /\ step = "osc" /\ ~Has(got[1], 1)
        /\ polls' = polls + 1
        /\ step' = IF polls' = MaxPolls THEN "failed" ELSE "osc"
        /\ UNCHANGED <<hrsl, mode>>
     \/ /\ step = "sampled"
        /\ step' = IF Has(got[1], 4) THEN "probe" ELSE "sampled"
        /\ UNCHANGED <<polls, hrsl, mode>>
     \/ /\ step = "probe"
        /\ hrsl' = got[1]
        /\ step' = CASE got[1] = 0 -> "mode" [] got[1] = 192 -> "clear" [] OTHER -> "speed"
        /\ mode' = IF got[1] = 0 THEN 209 ELSE mode
        /\ UNCHANGED polls
     \/ /\ step = "speed"
        /\ mode' = IF (hrsl = 128) = ~Has(got[1], 2) THEN 201 ELSE 203
        /\ step' = "mode"
        /\ UNCHANGED <<polls, hrsl>>
  /\ got' = <<>> /\ ignore' = 0
  /\ UNCHANGED <<credits, tosend, spiCore, spiChip>>

-----------------------------------------------------------------------------
(***************************************************************************)
(* alt_avalon_spi_command, called by regRd and regWr.                      *)
(***************************************************************************)
Reads == Access.val = <<>>
CommandBytes == IF Reads THEN <<Access.reg>> ELSE <<Access.reg + 2>> \o Access.val

\* The chip is selected.
Begin ==
  /\ spi_pc = "call" /\ step \notin {"ready", "failed"}
  /\ tosend' = CommandBytes \o IF Reads THEN <<0>> ELSE <<>>
  /\ ignore' = Len(CommandBytes)
  /\ credits' = 1
  /\ spi_pc' = "discard"
  /\ heard' = <<>> /\ told' = <<>>
  /\ UNCHANGED <<access, got, spiCore, chip, osc, level, sampled>>

\* Mutant: stale data is not discarded.
Kept == rrdy
\* RRDY after RXDATA has been read.
Discarded == FALSE

Discard ==
  /\ spi_pc = "discard"
  /\ rrdy' = Discarded
  /\ spi_pc' = "poll"
  /\ UNCHANGED <<access, credits, got, tosend, ignore,
                 txdata, shift, rxdata, spiChip>>

\* The status shows room to send, with a credit, or a byte that came in.
Send ==
  /\ spi_pc = "poll"
  /\ txdata = <<>> /\ credits > 0
  /\ IF tosend # <<>>
     THEN /\ txdata' = <<Head(tosend)>> /\ tosend' = Tail(tosend)
          /\ credits' = credits - 1
     ELSE credits' = -1024 /\ UNCHANGED <<txdata, tosend>>
  /\ spi_pc' = IF rrdy THEN "receive" ELSE "poll"
  /\ UNCHANGED <<access, got, ignore, shift, rxdata, rrdy, spiChip>>

OnlyReceive ==
  /\ spi_pc = "poll"
  /\ ~(txdata = <<>> /\ credits > 0) /\ rrdy
  /\ spi_pc' = "receive"
  /\ UNCHANGED <<access, credits, got, tosend, ignore, spiCore, spiChip>>

Receive ==
  /\ spi_pc = "receive"
  /\ rrdy' = FALSE
  /\ credits' = credits + 1
  /\ IF ignore > 0 THEN ignore' = ignore - 1 /\ UNCHANGED got
                   ELSE got' = Append(got, rxdata) /\ UNCHANGED ignore
  /\ spi_pc' = IF ignore' = 0 /\ Len(got') = (IF Reads THEN 1 ELSE 0)
               THEN "drain" ELSE "poll"
  /\ UNCHANGED <<access, tosend, txdata, shift, rxdata, spiChip>>

\* TMT: the chip is released.
Drain ==
  /\ spi_pc = "drain" /\ txdata = <<>> /\ shift = <<>>
  /\ spi_pc' = "return"
  /\ credits' = 0 /\ tosend' = <<>>
  /\ UNCHANGED <<access, got, ignore, spiCore, spiChip>>

SpiDriver == Begin \/ Discard \/ Send \/ OnlyReceive \/ Receive \/ Drain \/ AccessEnds

-----------------------------------------------------------------------------
(***************************************************************************)
(* The core and the chip: external.                                        *)
(***************************************************************************)
Load ==
  /\ txdata # <<>> /\ shift = <<>>
  /\ shift' = txdata /\ txdata' = <<>>
  /\ UNCHANGED <<access, command, rxdata, rrdy, spiChip>>

\* A read of register r, its lowest three bits taken off.
Value(r) ==
  CASE r = rUSBIRQ -> (IF osc THEN 1 ELSE 0)
    [] r = rHRSL -> level
    [] r = rHCTL -> (IF sampled THEN 4 ELSE 0)
    [] OTHER -> chip[r]

\* A byte goes out while another comes in, over one nobody has taken.
ShiftByte ==
  /\ shift # <<>>
  /\ LET b == shift[1]
         first == IF heard = <<>> THEN 0 ELSE heard[1]
         writes == heard # <<>> /\ Has(first, 2)
     IN  /\ \E a \in IF heard = <<>> THEN Stale ELSE {IF writes THEN 0 ELSE Value(first)} :
              rxdata' = a /\ told' = Append(told, a)
         /\ heard' = Append(heard, b)
         /\ chip' = IF writes THEN [chip EXCEPT ![first - 2] = b] ELSE chip
  /\ shift' = <<>> /\ rrdy' = TRUE
  /\ UNCHANGED <<access, command, txdata, osc, level, sampled>>

\* The oscillator is stable.
OscillatorStarts ==
  /\ ~osc /\ step = "osc" /\ osc' = TRUE
  /\ UNCHANGED <<access, command, spiCore, chip, level, sampled, heard, told>>

\* The sample of the bus is there.
BusSampled ==
  /\ ~sampled /\ step = "sampled" /\ sampled' = TRUE
  /\ UNCHANGED <<access, command, spiCore, chip, osc, level, heard, told>>

SpiCoreStep == Load \/ ShiftByte

-----------------------------------------------------------------------------
\* After reset, perhaps in the middle of an earlier command.
SpiInit ==
  /\ step = "pinctl" /\ polls = 0 /\ hrsl = 0 /\ mode = 0
  /\ spi_pc = "call" /\ credits = 0 /\ got = <<>> /\ tosend = <<>>
  /\ ignore = 0
  /\ txdata = <<>> /\ shift = <<>> /\ rxdata \in Stale /\ rrdy \in BOOLEAN
  /\ chip = [r \in ChipReg |-> 0]
  /\ osc = FALSE /\ level \in Levels /\ sampled = FALSE
  /\ heard = <<>> /\ told = <<>>

SpiNext == SpiDriver \/ SpiCoreStep \/ OscillatorStarts \/ BusSampled

\* MAX3421e::Init has returned 0, with the state of the bus it has found.
ChipReady == step = "ready"
Probed == CASE hrsl = 0 -> "SE0" [] hrsl = 192 -> "SE1" [] OTHER -> "HOST"

-----------------------------------------------------------------------------
SpiTypeOK ==
  /\ step \in DOMAIN Straight \cup {"osc", "sampled", "probe", "speed", "ready", "failed"}
  /\ polls \in 0..MaxPolls /\ hrsl \in Levels \cup {0} /\ mode \in {0, 201, 203, 209}
  /\ spi_pc \in {"call", "discard", "poll", "receive", "drain", "return"}
  /\ credits \in -1024..1 /\ ignore \in 0..2
  /\ {got, tosend, txdata, shift, heard, told} \subseteq Seq(0..255)
  /\ {rrdy, osc, sampled} \subseteq BOOLEAN
  /\ rxdata \in 0..255 /\ chip \in [ChipReg -> 0..255]

\* A command exchanges exactly its bytes: when the chip is released it has
\* heard every byte once, and the caller has what the chip answered last and
\* not a byte from before, although the driver counts what comes in to know
\* what has gone out (altera_avalon_spi.c:71-118).
CommandExact ==
  spi_pc = "return" =>
    /\ heard = CommandBytes \o (IF Reads THEN <<0>> ELSE <<>>)
    /\ Reads => got = <<told[2]>>
=============================================================================
