------------------------------ MODULE Startup ------------------------------
(***************************************************************************)
(* The program from reset to its endless loop (main.cpp:41-51, 80-82): the *)
(* codec is set up first (I2c), then the USB host controller (Spi), and    *)
(* from then on the host task runs (UsbTask).                              *)
(*                                                                         *)
(* The stages share nothing but their order and the state of the bus that  *)
(* MAX3421e::Init has found, so in each stage the variables of the others  *)
(* are at rest: what a driver and its chip hold is forgotten when main     *)
(* goes on, as nothing looks at it again.                                  *)
(***************************************************************************)
EXTENDS UsbTask, I2c, Spi

VARIABLE stage     \* "codec", "chip", "usb" or "halted"

startVars == <<vars, i2cVars, spiVars, stage>>

\* Before the host task runs: any values would do.
UsbOff ==
  /\ port = CHOOSE p \in Ports : TRUE
  /\ bus = "SE0" /\ vbusState = "SE0" /\ condet = FALSE
  /\ dev = [addr |-> 0, conf |-> 0, desc |-> CHOOSE d \in Devices : TRUE]
  /\ usb_task_state = "INITIALIZE"
  /\ pc = "irq" /\ retries = 0 /\ faults = 0
  /\ bAddress = 0 /\ bPollEnable = FALSE
  /\ epIn = 0 /\ epOut = 0 /\ search = NoSearch
  /\ thePool = [e \in Entry |-> FreeEntry]

\* The SPI core and the bus as MAX3421e::Init will find them are not looked
\* at before.
SpiOff == SpiInit /\ ~rrdy /\ rxdata = (CHOOSE b \in Stale : TRUE) /\ level = 0

StartInit == I2cInit /\ SpiOff /\ UsbOff /\ stage = "codec"

InCodec == stage = "codec" /\ UNCHANGED <<vars, spiVars, stage>>
SetUpCodec == InCodec /\ I2cNext

\* The variables of I2c when their stage is over: its initial values.
ForgetI2c ==
  /\ at' = 1 /\ i2c_pc' = "call" /\ buffer' = <<>>
  /\ todo' = <<>> /\ filled' = 0 /\ receiving' = FALSE
  /\ status' = "SUCCESS" /\ retry' = 0 /\ astray' = FALSE
  /\ codec' = [r \in Regs |-> Unset]
  /\ mishaps' = [f \in Fault |-> 0]
  /\ nack_det' = FALSE /\ arblost_det' = FALSE
  /\ UNCHANGED <<en, cmds, rx, stuck, latch>>

\* main goes on, whatever initialize_sgtl5000 returned, to Usb.Init().
StartChip ==
  /\ stage = "codec" /\ CodecReady
  /\ stage' = "chip"
  /\ ForgetI2c
  /\ rxdata' \in Stale /\ rrdy' \in BOOLEAN /\ level' \in Levels
  /\ UNCHANGED <<vars, access, command, txdata, shift, chip, osc, sampled, heard, told>>

InChip == stage = "chip" /\ UNCHANGED <<vars, i2cVars, stage>>
SetUpChip == InChip /\ SpiNext

\* The variables of Spi when their stage is over: values of SpiOff.
ForgetSpi ==
  /\ step' = "pinctl" /\ polls' = 0 /\ hrsl' = 0 /\ mode' = 0
  /\ rxdata' = (CHOOSE b \in Stale : TRUE) /\ rrdy' = FALSE /\ level' = 0
  /\ chip' = [r \in ChipReg |-> 0]
  /\ osc' = FALSE /\ sampled' = FALSE /\ heard' = <<>> /\ told' = <<>>
  /\ UNCHANGED <<command, txdata, shift>>

\* MAX3421e::Init has probed the bus and cleared the interrupt behind it, so
\* a fast plug may have moved in between.
StartUsb ==
  /\ stage = "chip" /\ ChipReady
  /\ stage' = "usb"
  /\ port' \in Ports /\ (Probed = "SE1" => port'.illegal)
  /\ vbusState' = Probed
  /\ bus' \in IF port'.slow THEN {Probed} ELSE {"SE0", "HOST", Probed}
  /\ dev' \in [addr : {0}, conf : {0}, desc : Devices]
  /\ UNCHANGED <<condet, usb_task_state, pc, retries, driver, faults>>
  /\ ForgetSpi
  /\ UNCHANGED i2cVars

\* The oscillator of the chip does not become stable: "Halted...".
Halt ==
  /\ stage = "chip" /\ step = "failed"
  /\ stage' = "halted"
  /\ ForgetSpi
  /\ UNCHANGED <<vars, i2cVars>>

InUsb == stage = "usb" /\ UNCHANGED <<i2cVars, spiVars, stage>>
RunUsb == InUsb /\ Next

StartNext == SetUpCodec \/ StartChip \/ SetUpChip \/ StartUsb \/ Halt \/ RunUsb

StartSpec == StartInit /\ [][StartNext]_startVars

\* The processor, whose program is in one stage at a time.
Processor ==
  \/ InCodec /\ Driver
  \/ InChip /\ SpiDriver
  \/ InUsb /\ Host
  \/ StartChip \/ StartUsb \/ Halt

\* The I2C and SPI cores.
Cores == (InCodec /\ CoreStep) \/ (InChip /\ SpiCoreStep)

\* The processor runs, the cores do what they are given, the chip takes the
\* sample of the bus, and the fairness of UsbTask: delays and resets end, and
\* frames come.  The oscillator need not start.
StartFairSpec ==
  /\ StartSpec
  /\ WF_startVars(Processor) /\ WF_startVars(Cores) /\ WF_startVars(InChip /\ BusSampled)
  /\ SF_startVars(InUsb /\ TaskReset) /\ SF_startVars(InUsb /\ TaskFrames)
  /\ SF_startVars(InUsb /\ TaskConfigure)

-----------------------------------------------------------------------------
StartTypeOK ==
  TypeOK /\ I2cTypeOK /\ SpiTypeOK /\ stage \in {"codec", "chip", "usb", "halted"}

\* main comes to its loop, to "Halted..." or to an error loop of the codec's
\* registers (main.cpp:43-51, sgtl5000.c:17-23, 37-43): no loop of the two
\* drivers is left polling for a bit that does not come any more, whatever
\* the buses do (altera_avalon_i2c.c:325-455, altera_avalon_spi.c:77-125).
HostStarts == <>(stage \in {"usb", "halted"} \/ i2c_pc = "hang")

\* The program works in the end: whatever the bus of the codec made the
\* driver repeat before, and whatever happened on the port, failed
\* enumerations included, a MIDI device that stays is configured and served,
\* if no transfer to it fails; unless the program has come to one of its
\* endless error loops (main.cpp:45, sgtl5000.c:19, 39, Usb.cpp:469-559).
\* (A change between the illegal state and a device raises no interrupt.)
SynthesizerWorks ==
  \/ <>(i2c_pc = "hang" \/ stage = "halted")
  \/ <>[](port.slow /\ ~port.illegal /\ bus = "HOST" /\ Usable(dev.desc) # {} /\ faults = 0)
       => <>[](bPollEnable /\ Served)
=============================================================================
