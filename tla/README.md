# A verification of the FPGA MIDI synthesizer

The synthesizer is a Nios II soft processor on an FPGA. Its firmware talks to a
USB MIDI keyboard through a MAX3421E host controller, assigns notes to four
voice registers, and lets them decay; the FPGA logic turns the registers into
samples, mixes them and sends them to an SGTL5000 codec.

```
 keyboard --USB--> MAX3421E --SPI--> USB host stack --> RecvData --> main loop --registers--> generators --> mixer --> I2S --> codec
            (external)               UsbTask, UsbTransfer  MidiRecv    Synth                        SoundPath
                                                                     SynthKeys
 at the start:  initialize_sgtl5000 --I2C--> codec          MAX3421e::Init --SPI--> MAX3421E
                      I2c                                         Spi                            (in order: Startup)
 throughout:    printf --> ring --interrupt--> JTAG UART --> host      timer interrupt --> alarm
                      Console                                               Alarm
```

The firmware starts the codec and the host controller and is then one endless
loop with no operating system. What runs concurrently with it is the player
(keys and plug), the USB device, the I2C and SPI cores with the chips behind
them, the interrupts of the system timer and the JTAG UART, the host that reads
the console, and the FPGA logic with its two clocks.

## The parts of the system

### Main loop and voice allocator (`software/synthesizer/main.cpp`)

*State.* Four packed registers (note * 256 + volume), `note_used`,
`note_clocks`, the settings (`muted`, `sustain_level`, `ms_to_dec`,
`first_note`) and the effect registers.
*Operations.* One round: `Usb.Task()`, then `RecvData` until it returns 0, a
`switch` over the status byte for each packet (Note On, Note Off, pitch wheel,
controllers and buttons), then one pass over the voices in which a voice whose
time has come loses one step of volume or is released.
*Interactions.* It writes the registers that the generators read at any moment;
it reads `clock()`, which the timer interrupt advances.
*Hard.* Mute, full voices and decay interleave with presses and releases; the
clock difference wraps; `note_used` and the register are two copies of one
fact; Note Off searches registers, Note On searches flags.
*Correct means.* A released key is silent, no key has two voices, no voice is
stolen or changes pitch, a free voice makes no sound, mute is complete, decay
has the speed of the knob and comes to an end.

### MIDI receive buffer (`USBH_MIDI::RecvData` in `include/usbh_midi.cpp`)

*State.* `recvBuf` (16 events of 4 bytes), `readPtr`, `bPollEnable`. The number
of bytes received is not kept: two zero bytes mark the end of a short transfer.
*Operations.* Hand out the next buffered event; or poll, mark the end, hand out
the first event. `Release` resets the place but not the buffer.
*Hard.* Stale bytes behind the marker, the marker's bound, polls that fail with
a full buffer, unplugging.
*Correct means.* Every event of the device is handed out once and in order.

### USB host task and enumeration (`include/usbhost.cpp`, `Usb.cpp`, `address.h`, `usbh_midi.cpp`)

*State.* `vbusState` (the bus as last sampled), `usb_task_state`, the address
pool, the driver's address and enable flag; outside it the bus, the device's own
address and configuration, and the controller's `CONDETIRQ` flag.
*Operations.* `IntHandler` samples the bus and clears the flag; `USB::Task` goes
from settling over the reset to `Configuring`; the driver's `Init` makes its
transfers, each of which may fail, in two searches over the configurations (MIDI
interfaces first, then any); `MidiDescParser` finds the endpoints in descriptors
that come in pieces; `Release`.
*Hard.* The plug moves between any two steps; a transfer that failed for the
host may have succeeded for the device; retries start from the beginning;
endpoint numbers are written while the descriptor comes in and never taken back;
a piece may end within a descriptor, or within its header.
*Correct means.* The pool holds what the driver owns; a device that has gone is
released; a device that stays is served, and polled at an endpoint of its own;
the task returns to the main loop.

### USB transfers (`dispatchPkt`, `InTransfer`, `OutTransfer`, `ctrlReq` in `include/Usb.cpp`)

*State.* Saved toggles per endpoint, the one toggle of the chip, retry and NAK
counters, what is left of the request.
*Hard.* Lost packets and acknowledgements, NAKs, retries, time limits,
toggles across calls, the last piece of a descriptor.
*Correct means.* Each byte is delivered once and in order; a result of 0 means
that all of it was; calls return.

### FPGA sound path (`waveform_generator.sv`, the generators, `mixer.sv`, `I2S_Interface.sv`, `synthesizer.sv`)

*State.* Per voice a counter and a sample; the shift registers of the serializer.
*Hard.* Three unrelated actors (the processor, the 50 MHz clock, the codec's
SCLK); registers change at any moment of a half period or of a frame.
*Correct means.* A frame carries one sample, not a mixture; the line becomes
silent when the voices do; a voice comes to the pitch of its register.

### Codec start-up (`sgtl5000_test.c`, `sgtl5000/sgtl5000.c`, the driver `altera_avalon_i2c.c`)

*State.* The call of `initialize_sgtl5000` that runs, its buffer and the attempts
left; the core's two FIFOs, its enable bit and error flags; the codec's registers.
*Operations.* Register write and read, each one transaction or a transmit and a
receive, repeated up to 10000 times; any error that is left is an endless loop.
*Hard.* The core executes commands behind the driver's back, so an error belongs
to an earlier command; every wait is a counted poll; one buffer holds the
register number and the answer.
*Correct means.* A write that is reported done is in the codec; start-up ends;
it hangs for no lesser reason than a hopeless bus.

### Host controller start-up (`MAX3421e::Init` in `include/usbhost.cpp`, the driver `altera_avalon_spi.c`)

*State.* The register access that comes next; the bytes of the SPI command still
to be sent and to be ignored; the core's transmit, shift and receive registers.
*Hard.* The driver counts received bytes to know what has been sent, and RXDATA
may hold a byte from before.
*Correct means.* A command exchanges exactly its bytes; the state of the bus
that the host task starts from is the one that was sampled.

### Console and system clock (JTAG UART driver and HAL alarm of the board support package)

*State.* The ring `tx_buf` with `tx_in` and `tx_out`, the receive ring's
`rx_in`, `irq_enable`, `host_inactive`, the alarm's time and roll-over flag.
*Operations.* `write` copies into the ring, enables the interrupt, and waits if
the ring is full; the interrupt routine moves characters between the rings and
the hardware FIFOs; `alt_tick` calls the timeout routine once a second, which
sees whether a host is there.
*Hard.* All three run between the steps of the others without a lock; the ring
is full with one place free; the tick counter wraps.
*Correct means.* Every character accepted is shown once and in order; `printf`
comes back with and without a host, so the notes go on.

### Not modelled

| part | reason |
|---|---|
| `SendData`, `SendSysEx` and `extractSysExData` (`usbh_midi.cpp`) | main never sends; who would call them, with what, and from where, is not in the repository |
| `read`, `close` and `ioctl` of the JTAG UART, lists of several alarms, file descriptors of the HAL | never reached: main neither reads nor returns, and one alarm is registered |
| the interrupt driven and the slave functions of the I2C driver | never called: `use_interrupts` is 0 |
| HID, Xbox, hub and debug code of the USB library | never reached: main registers the MIDI driver only |
| Qsys systems and generated IP | generated by the FPGA tools |
| period table and vibrato arithmetic | combinational: the period a note selects is an input of SoundPath |
| `lab62.sv` and its displays | an earlier top level, not the synthesizer |

Most of the repository's lines are headers of register masks and key codes,
unused parts of the USB library and of the board support package, and generated
interconnect: that is why the models cover a small share of all lines although
they cover nearly all that runs.

## The modules

| module | what it models |
|---|---|
| `Synth` | main.cpp: the loop, every case of the switch, the decay pass, the timer |
| `SynthKeys` | Synth played from a keyboard over a FIFO wire |
| `Polyphony` | abstract: what a player may expect of a polyphonic instrument |
| `SynthClock` | Synth with a history variable that measures true time, and the fairness under which voices settle |
| `MidiRecv` | RecvData, its buffer, and the device that fills it |
| `MidiStream` | abstract: a stream of events taken once and in order |
| `I2c` | codec start-up: register accesses, the polled I2C driver, its core and the codec |
| `Spi` | host controller start-up: `MAX3421e::Init`, the SPI driver, its core and the chip |
| `UsbTask` | interrupt handler, task, enumeration, address pool, plug and device |
| `MidiDescParser` | pure: the parser of configuration descriptors, piece by piece |
| `Startup` | the program from reset into its loop: I2c, then Spi, then UsbTask |
| `UsbTransfer` | control, bulk IN and bulk OUT transfers over a lossy bus |
| `SoundPath` | generators, mixer, serializer |
| `Alarm` | the tick counter and the alarm of the HAL |
| `Console` | `write`, interrupt and timeout routines of the JTAG UART, its FIFOs and its host; extends Alarm |
| `CharPipe` | abstract: characters accepted in runs and shown one by one, in order |
| `Synth_proofs` | theorems about the allocator, alone and played from a keyboard |
| `MidiRecv_proofs`, `UsbTransfer_proofs`, `Console_proofs` | theorems about these components |
| `UsbTask_proofs` | theorems about the host task and about the parser of descriptors |
| `Startup_proofs` | theorems about the program from reset, from those of UsbTask and invariants of I2c and Spi |
| `SoundPath_proofs` | theorems about generators, mixer and serializer |
| `Recursion` | lemmas: induction and recursion over numbers and finite sets, for the proofs about folds |

The modules ending in `MC` only give constants values. Operators whose comment
begins with *Mutant* are deliberately wrong variants of the definition that
follows; no specification uses them. They record which mistake in the code each
property is able to see.

### How the models correspond to the code

*Synth.* `pc` says where the loop is: in `Usb.Task`, before a `RecvData`, or in
the decay pass at voice `idx`. A handler is atomic: nothing else writes the
allocator's state, the timer only advances the clock, and each handler reads the
clock once. `age[i]` is `clock() - note_clocks[i]` modulo `WordMod` (2^32):
`clock()` occurs in the code in that difference only. The elapsed time keeps the
code's unsigned arithmetic, with its wrap. `ms_to_dec` has no initial value in
the code, so it starts from any value of `Garbage`. `RecvNothing` may be taken
whether or not a packet waits: a poll may be NAKed.

*SynthKeys.* A key sends one Note On and one Note Off in turn; `down` is the set
of keys whose last *delivered* packet was a Note On. The wire is a FIFO, which
is what MidiRecv is shown to implement.

*MidiRecv.* One slot stands for one 4-byte event; no code path uses a position
that is not a multiple of 4. The buffer is uninitialised at start-up. `Marked`
zeroes the two bytes of the marker only, as the code does. A transfer is events
followed by padding, and `EventsOf` are its events. `left` (the rest of the last
transfer), `queue` (the events sent and not handed out) and `taken` are history
variables.

*UsbTask.* A transfer is one step that succeeds or fails; each failing step also
chooses whether the device took the request. The plug (`BusChange`) moves between
any two steps, in particular between the sampling of the bus (`ReadIrq`) and the
clearing of the flag (`ClearIrq`). Full and low speed are one bus state. The
delays have no numbers: the waiting state may be left at any later call. `port`
is a constant of each behaviour: a `slow` port has no plug change between an
interrupt and its service, an `illegal` one may show both lines high (SE1).
What is plugged in is any of `Devices`, a new one after each disconnect. Its
descriptors are bytes (`ConfBytes`), and `InitConf` runs the parser over the
pieces that came before the transfer ended or failed; `Parsed` is a table of the
parser's results, computed once. Which endpoints the driver may use is defined
apart from the parser (`Usable`), and `RightAbout` says that the parser finds them. `epIn` and `epOut` are 0 before anything was
written to them, as in the constructor.

*MidiDescParser.* The parser is a record, and each method an operator from
record and bytes to record and remaining bytes; the loop of `Parse` is a fold
over the bytes of the piece. `varBuffer`, the count of bytes
still expected, the skipper and the two header fields are kept between pieces;
the length arithmetic keeps its 8 and 16 bits. Bytes are not abstracted here:
what the parser finds depends on their alignment.

*I2c.* The driver pushes a command, looks at the flags, and goes on, while
`CoreStep` executes commands or `CoreFault` makes one fail at any later time. A
counted polling loop is a step that is enabled when its condition holds, or when
the core cannot go on (`Stalled`) and the counter runs out; that the counters
(10000 and 100000 polls with sleeps at the end) are longer than a transaction is
assumed. The codec's protocol (two bytes of register number, two of data) is
modelled from what sgtl5000.c sends and expects. `Setup` lists the 21 register
accesses in their order.

*Spi.* One step of the driver is one pass of its polling loop in which something
happens, and the core shifts a byte at any time. `Access` is the register access
of each step of `MAX3421e::Init`. A read of a register the chip changes by itself
(oscillator, bus sample, data lines) gives its current value.

*Startup.* `stage` says whether main is in `initialize_sgtl5000`, in `Usb.Init`,
in the loop, or in `while(1)` after "Halted...". Stages do not overlap, and what
passes from one to the next is only the state of the bus (`Probed`), so the
variables of a finished stage go back to fixed values; otherwise every state of
the loop would be multiplied by every way to get there.

*Console and Alarm.* `write` is cut where the interrupt routine can come in
between reads and writes that matter: copy (with the room computed from an old
`tx_out`), advancing `tx_in`, enabling the interrupt (atomic in the code), the
wait. The interrupt routine is cut where the UART changes under it: reading the
control register, each character received, and the sending, for which it uses
the space it read before. Interrupts do not nest. Characters are numbered modulo
`Numbers`; what is typed is counted. `host_inactive` stops at `Timeout`, where the
code goes on to `INT_MAX - 2`: no code tells these values apart.

*UsbTransfer.* One step is one packet on the bus and the code that handles its
result. Bytes are numbers, so lost, repeated and swapped bytes are visible.
Whether the chip acknowledges a packet with the wrong toggle is open. Every
packet completes: the wait for the completion interrupt is not modelled.
`left` of `ctrlReq` keeps its 16 bits, the packet size its 8.
`late` says that the time limit has passed; `troubled` and `doubt` are history
variables: whether the call met trouble on the bus, and whether the last OUT
packet is without an answer.

*SoundPath.* `ClockEdge` is an edge of the 50 MHz clock, `SclkEdge` one of the
codec's, and the processor writes at any time. Samples and shift registers keep
their width `W` (24), so the sums, ramps and shifts wrap as they do in the logic.
The reverb buffer, which nothing reads, is left out, and so is the sine
generator, which nothing instantiates.

## What is checked

All bounds are constants in the `.cfg` files or in the `MC` modules.

| run | instance | shows |
|---|---|---|
| `synth_clock` | 2 voices, packets for every case of the switch, clock of 8 values, `ms_to_dec` from {0, 7} | `TypeOK`; a free voice is silent; muted is silent; a voice keeps its note and volume falls no lower than the sustain level; decay is not faster than the knob; voices settle once the knob has been turned, although the clock wraps |
| `synth_keys` | 2 voices, 3 keys, 2 packets in flight, mute and sustain | no stuck and no doubled note; SynthKeys implements Polyphony; a released key falls silent |
| `synth_low` | the same with key 0 | **refuted**: Note Off of note 0 leaves it sounding |
| `midi_recv` | 3 slots, transfers of 1 and 3 events with padding, garbage in the buffer, 2 transfers in flight | MidiRecv implements MidiStream; every event is taken in the end; the buffer holds exactly the rest of the transfer |
| `midi_recv_almost_full` | transfers of 2 and 3 events in 3 slots | **refuted**: a transfer one event short of the buffer is followed by an old event |
| `startup` | I2C: 2 attempts, 4 commands in the FIFO, 2 faults of three kinds; SPI: every state of the bus, 2 looks at the oscillator, a stale byte; USB: 2 pool entries, slow and fast ports with and without SE1, 4 kinds of device, pieces of 10 and 64 bytes, 4 failing transfers | the codec follows the calls; a read gives the register asked for; start-up hangs only on a hopeless bus and otherwise ends; a command exchanges its bytes; the pool matches the driver; a stale driver is noticed; the driver speaks to endpoints of the device that is there; the parser reads the descriptors of each device right, cut anywhere; unplugged is released; the task returns; the synthesizer works in the end |
| `usb_task_fast` | the fast port, no failing transfer | **refuted**: unplugging between the sampling and the clearing of the interrupt is never noticed |
| `usb_transfer` | packets of 2 bytes, pieces of 6, reads of 7 and 8 bytes, writes of 3, 1 lost acknowledgement, time limit at any point | bytes and polls in order; a read succeeds exactly if it is well sized; calls return |
| `usb_out_late` | a write of two packets, three NAKs allowed, time limit at any point | **refuted**: `OutTransfer` returns 0 although a packet was never accepted |
| `sound_path` | samples of 3 bits, 1 voice, half frames of 4 bits, 2 pitches, all waves | the right channel carries one sample; silence reaches the line; the counter follows the pitch |
| `sound_path_left` | the same | **refuted**: the left channel does not carry the sample |
| `console` | ring of 3, hardware FIFOs of 1, writes of 1 and 2 characters, 3 character numbers, ticks modulo 4, alarm every 2 ticks, 2 silent periods | the alarm keeps its period; no wake-up is lost; Console implements CharPipe; `printf` comes back; what was accepted is shown if a host stays |

### Why the bounds are enough

* *Voices.* The searches distinguish "before", "at" and "after" the slot found,
  and "all taken"; two voices with three keys have all of these. The proofs cover
  every number of voices.
* *History.* `since` stops at 4 ticks: the difference of a clock of 8 values asks
  for at most 7 half ticks (`ClockAssumption`).
* *Clock.* The wrap of the elapsed time happens within every 8 ticks, so each
  voice meets the wrapped value many times. At most one tick falls in a pass of
  the loop: with two, a clock of 8 values could step over the span in which a
  voice is due, which the real one, with 2^32, does not.
* *Buffer.* Three slots have a first, a middle and a last one, and lengths one
  short of full (the broken case), full, and shorter.
* *Pool.* One driver owns one entry; the second shows a leak before it is fatal.
  Four failures are one more than `AttemptConfig` retries.
* *Devices.* A device has at most 255 configurations, as `bNumConfigurations` is a
  byte. A keyboard with an audio interface before its MIDI interface; a
  composite device with the MIDI interface in the second configuration between
  two others with bulk endpoints; a Novation device with interrupt endpoints and
  no MIDI interface; a mouse. They take the parser and the searches through each
  of their branches, and each may follow any other. Pieces of 64 bytes are the
  code's; pieces of 10 cut the descriptors within headers and bodies.
* *Codec.* Two attempts have a last one and one before it. Four commands in the
  FIFO let the driver be several commands ahead and also wait for room. Two
  faults can spoil two attempts of one call or of two. All 21 calls are made.
* *Chip.* A stale byte may wait before the first command; the oscillator may miss
  each look or the first; each of the four states of the data lines is probed.
* *Console.* A ring of 3 holds 2 and is filled in two pieces; a FIFO of 1 is full
  or empty; the number of characters is no multiple of the lengths written or of
  the ring, so positions and numbers meet in every way. Ticks modulo 4 with a
  period of 2, started at 1, make the alarm's time wrap at the start and again
  later, before the counter does.
* *Transfers.* Seven bytes in pieces of six end in a short packet in the second
  piece; eight end in a full packet short of the piece, the case in which the
  loop waits for a packet that never comes. A control request gives up at the
  2nd NAK in place of the 32767th: the counter only has to reach its limit, and
  to be reset.
* *Samples.* Three bits have a first, a middle and a last bit; a half frame of
  four has a padding bit. One voice is enough because a voice's generator reads
  its own register only, and the serializer sees their sum as one number. The
  volume range is 0..2, with 0 the only special value in the code.

### What the refuted properties say

Each quotes what the repository says of itself.

1. `NoteOffSilences` (main.cpp:116, "note turned off"). The Note Off search
   compares registers without `note_used`. A free register is 0, which is note 0
   at volume 0, so a free voice ahead of the sounding one is "found".
   `synth_keys` has keys above 0 for this reason.
2. `NoStaleEvent` (usbh_midi.cpp:340, "no unprocessed message left in the
   buffer"). The marker is written for fewer than 60 bytes only (line 322); a
   transfer of exactly 60 leaves the last event of an older one in place.
   `midi_recv` leaves that length out.
3. `CleansUp` (Usb.cpp:454, "Performs enumeration/cleanup"). The interrupt flag
   is cleared after the bus was sampled (usbhost.cpp:288-292). A device pulled in
   between stays "enabled" until something else is plugged.
4. `OutReported` (Usb.cpp:302, "rcode 0 if no errors"). The time limit ends the
   retries of a packet but not the transfer (lines 348, 387), and the result of
   the next packet replaces the error.
5. `LeftCarriesMix` (I2S_Interface.sv:7, "copied to both L and R channels"). Line
   24 loads `left` with one bit of the sample.

Smaller observations, met while modelling; the repository states nothing that
they contradict:

* a zero-length packet (`Lengths` with 0 in MidiRecv) lets `RecvData` hand out
  what stands behind the marker;
* a fast plug together with SE1 lets an address leak;
* `AttemptConfig`'s retry after the address has been assigned asks a device at
  address 0 that is no longer there;
* a MIDI interface with two endpoints of one direction, or one without endpoints
  behind one that has a single endpoint, misleads the count of `MidiDescParser`
  (usbh_midi.cpp:634-645, see `RegularDevices` below);
* voices may never decay before the decay knob has been touched, as `ms_to_dec`
  is uninitialised;
* `SGTL5000_Reg_Rd` passes one buffer for the register number and the answer
  (sgtl5000.c:15), so an attempt that is repeated after a byte has come asks for
  another register;
* the I2C driver looks for a lost arbitration after each command it pushes, not
  when the transaction has ended, so one in the last commands of a write goes
  unnoticed (altera_avalon_i2c.c:680); and a lost transmit in the middle of a
  read lets the receive run into a time-out and main into its error loop;
* the JTAG UART's `write` ends with a short count, or with -EIO and the comment
  "Host not connected", when the host was silent for a second although room has
  been made by then (altera_avalon_jtag_uart_write.c:187-214);
* main ignores what `initialize_sgtl5000` returns, so without an I2C device the
  synthesizer plays to a codec that was not set up;
* `SendSysEx` reports success for a message longer than 256 bytes of which it
  sends nothing (usbh_midi.cpp:465-520).

## Fairness, and why the code justifies it

* *Synth, SynthKeys.* The processor runs the loop and the timer interrupts
  (weak fairness of the loop's steps and of `Tick`). The receive loop ends only
  when `RecvData` returns 0; a device has a finite bandwidth, so that happens
  (`RecvNothing`). In SynthKeys a waiting packet is delivered in the end (strong
  fairness, as the loop leaves and re-enters the receive state), which is
  `EventsAreTaken` of MidiRecv; and the keyboard is plugged in again and
  again (`TaskReady`).
* *MidiRecv.* main calls `RecvData` for ever; a device with data answers one of
  infinitely many polls.
* *Startup, UsbTask.* The processor runs (weak fairness of the program's steps),
  the I2C and SPI cores execute what they were given, the chip takes the sample
  of the bus; delays, resets and the first frame come to an end (strong fairness,
  because the state they wait in is left and re-entered between calls). No
  fairness on faults, the oscillator, the plug or transfers: `SynthesizerWorks`
  speaks of a device whose transfers succeed from some time on.
* *UsbTransfer.* The code goes on with a call it has begun. No fairness on the bus.
* *SoundPath.* Both clocks run. No fairness on the processor or on reset.
* *Console.* The processor goes on with a `write` it has begun, pending interrupts
  are served, ticks come, and a host that is connected reads. Nobody has to
  print, to type or to connect.

## What is proved

The theorems hold for every value of the constants that the named assumptions of
the modules allow (`SynthAssumption`, `ClockAssumption`, `KeysAssumption`,
`RecvAssumption`, `SoundAssumption`, `TransferAssumption`, `AlarmAssumption`,
`ConsoleAssumption`, `TaskAssumption`, `I2cAssumption`, `SpiAssumption`): any
number of voices, keys, slots, pool entries, places in rings and FIFOs, attempts, faults, failing transfers, ports and
devices, any width of samples and frames. The theorems of SynthKeys, of MidiRecv,
and two about devices have a hypothesis more, named with its reason below. Every
safety property that a passing run checks is proved; only liveness is not.

### The allocator (`Synth_proofs`)

| theorem | says |
|---|---|
| `TypeCorrect` | the packed register never leaves 16 bits and a volume never leaves its byte, although the decay subtracts from the packed value |
| `FreeVoicesAreSilent`, `MutedVoicesAreSilent` | a free voice has register 0; while mute is on no voice is taken |
| `VoicesAreStable` | from Note On to its release a voice keeps its note, and its volume falls one at a time, not below the sustain level |
| `DecayIsNotTooFast` | from Note On, or the last decrement, to the next decrement of a voice at least half of `ms_to_dec` ticks pass |
| `OneVoiceForAKey` | no stuck and no doubled note |
| `AllocatorIsPolyphonic` | SynthKeys implements Polyphony |
| `OffSilences` | a Note Off silences its note |

*Synth.* The inductive invariant `IInv` is the conjunction of `TypeOK`,
`FreeIsSilent` and `MutedIsSilent`. `MutedIsSilent` is preserved because Note On
takes a voice only when `Audible`, and the decay pass never takes one;
`FreeIsSilent` because each handler that resets a flag clears the register in the
same step. For `TypeOK` the decay's `reg - 1` is the only hard case: it happens
above a sustain level that is at least 0, so the subtraction stays within the low
byte (`LowerRegister`, from the uniqueness of quotient and remainder, `DivMod`).

*SynthClock.* `NotTooFast` is about the true time, `since`, and the code knows the
difference of two readings of a clock that wraps. `Aged` relates them: that
difference is at most `since` for every taken voice, or `since` has reached the
bound of the history variable, which `ClockAssumption` makes at least what any
difference of a 32-bit clock can ask for. The wrap of the difference can only
make a voice look younger (`ElapsedBound`), and a slot that is taken again begins
at 0 because Note On sets its clock (`ClockRestarts`).

*SynthKeys.* `OneVoicePerKey` is not inductive: it speaks of the keys the
firmware was told of (`down`), and a second Note On of such a key would give it a
second voice. `KInv` adds to it and `IInv` that the wire leads from `down` to the
keys the player holds (`WireInv`): there are sets `told[0..Len(wire)]`, the keys
that will be down after so many more packets, from `down` to `held`, and each
packet is *in turn* in its set. So a Note On at the head of the wire finds its
key up, and a Note Off finds it down. `SoundsCount` (with one voice per key, the
number of sounding keys is that of taken voices) takes the search for a free flag
to the abstract "fewer than NumNotes keys sound", and `MatchIsUsed` takes the
search by register to the voice of the key.

The three theorems of SynthKeys assume `0 \notin Keys`, and only `MatchIsUsed`
needs it: a free register looks like note 0. `OffSilences` states the property
that `synth_low` refutes, so note 0 is all that is wrong there.

### The receive buffer (`MidiRecv_proofs`)

| theorem | says |
|---|---|
| `ReceiverIsTyped` | `readPtr` stays within the buffer, the size returned is that of a message |
| `RestIsInBuffer` | the buffer holds exactly the rest of the transfer, from `readPtr` to the marker or its end |
| `NothingStale` | once the events of a transfer have been handed out, the buffer offers none |
| `ReceiverImplementsStream` | MidiRecv implements MidiStream: each event once and in order, and only unplugging loses any |

The inductive invariant `MInv` is the types, `BufferHoldsRest`, and `Ahead`: the
queue of the abstract stream is what is left of the last transfer, followed by
the events of the transfers on their way. `TestIsRight` is the heart of it: the
code's test of two bytes says whether `left` is empty, although the code does not
keep the number of bytes received.

The hypothesis of all four is `MarkedLengths`: no transfer is empty or one event
short of the buffer. Both exceptions are real: the second is the finding of
`midi_recv_almost_full`, the first the zero-length packet among the observations
above.

### USB transfers (`UsbTransfer_proofs`)

| theorem | says |
|---|---|
| `TransferIsTyped` | retry and NAK counters stay below their limits, the 16-bit `left` does not wrap |
| `DescriptorsInOrder` | the parser sees the bytes of a request once and in order, and all of them if it returns 0 |
| `FitsOrFails` | without trouble on the bus, a request succeeds exactly if its length is well sized |
| `OutArrivesInOrder` | an OUT transfer within its time limit delivers its bytes once and in order, and all of them if it returns 0 |
| `PollsInOrder` | each packet that leaves the IN endpoint is the one its poll returns |

`TInv` adds to the types what holds at each stage of a call. For a control read
(`InSync`), chip and device agree on the toggle, and the next byte of the device
is `(total - left) + got + 1`, because `left` counts down in whole pieces and
`got` counts within one. Or the last acknowledgement was lost and the packet comes
again (`Repeats`). For the OUT endpoint (`OutSync`, `OutInv`), the toggles
differ only while the last packet is without an answer, and they tell how much
the device has accepted. The arithmetic of packets and pieces (`PieceArith`,
`NextMultiple`) has no bound on the sizes but their widths.

### Console and clock (`Console_proofs`)

| theorem | says |
|---|---|
| `ConsoleIsTyped` | ring indices, FIFO lengths and the remembered space stay in range |
| `NoWakeupIsLost` | characters never wait in the ring with the write interrupt off |
| `AlarmIsOnTime` | the alarm runs every `Period` ticks although the counter and the alarm's time wrap at different ticks |
| `ConsoleImplementsPipe` | Console implements CharPipe |

`CInv` has five parts. `AlarmInv`: the alarm's time, plus a whole turn of the
counter if `rollover` is set, is where the next callback is due. `Types`.
`SpaceIsThere`: the space the interrupt routine remembers is still in the
FIFO when it sends, since the hardware only takes characters out. `Copied`: the
`n` characters `write` has copied behind `tx_in` fit into the ring and are the
next ones, although the room was computed from an older `tx_out`; the interrupt
routine only makes more room (`RoomIsFree`). And `NoLostWakeup` itself. The
refinement maps the pipe's content to what is in the FIFO and in the ring up to
`tx_in`.

### The sound path (`SoundPath_proofs`)

| theorem | says |
|---|---|
| `RightIsTheMix` | what the codec reads in a right half frame is one sample, the mix at the last edge of the left half |
| `SoundTypesHold` | counters, samples and the sum of the voices stay within the width of a sample |

`SoundInv` says what the shift register and the bits already read are at each
edge: after `n` shifts of sample `x` the register is `x * 2^n` modulo `2^W`, the line
carries bit `n` and the codec has read the bits before it (`Sending`). Shifting
takes `Rest(x, n)` to `Rest(x, n + 1)` (`RestShift`), and the top bit is the next
one of `x` (`RestHead`), for every width (`Power` is a recursive function, so
that it exists is a lemma too). The mix is a fold over the voices; `SumType` needs
only that it is a sum of samples.

### The parser of descriptors (`UsbTask_proofs`, with the lemmas of `Recursion`)

| theorem | says |
|---|---|
| `PieceByPiece` | parsing a descriptor in pieces of any size gives what parsing it whole gives |
| `DescriptorsAreAlwaysRead` | the parser finds the configuration and the endpoints that the descriptor offers |

MidiDescParser is a fold over pieces of a fold over rounds of `ParseDescriptor`,
each of which takes a length, a type, a body that is kept or one that is skipped.
`Recursion` has what is needed to reason about folds: induction over numbers and
over finite sets, stated with a set in place of a predicate, and that functions
defined by recursion exist.

*Pieces.* `GoesOn` is the heart of `PieceByPiece`: a round that runs out of bytes
in `a` and is resumed with `b` ends where the round over `a \o b` does, wherever the
cut is: before the header, within the length, within the body kept in `varBuffer`
or within the part skipped with the 16-bit `toSkip`.

*Descriptors.* `RegularIsRight` says that a whole descriptor leaves the parser with
the endpoints it should find, from an induction over the descriptors in it: each
updates a view of the parser (`View`: is the interface good, how many endpoints were
taken, which) in the way `Update` says, an interface resets the count
(`InterfaceRead`), and an endpoint that fits is taken unless two have been
(`EndpointsRead`). The hypothesis is `RegularDevices`: within an interface the
search looks at, no two endpoints that fit have the same direction, and one such
interface has both directions, or the last of them has an endpoint if any has.
It is about the code: the count begins again with every good interface and stops
at two (usbh_midi.cpp:634-655), so two IN endpoints take both places, and a last
interface without endpoints leaves the count at 0 and the search goes on. TLC evaluates `RegularDevices` for the
devices of the runs (`RegularAssumption`).

### The program from reset (`UsbTask_proofs`, `Startup_proofs`)

| theorem | says |
|---|---|
| `ProgramTypesHold` | every variable of the program has its type, from reset on |
| `ProgramKeepsThePool` | the pool holds the address of the driver and nothing else |
| `ProgramNoticesStale` | on a slow port, a driver whose device has gone is released or about to be |
| `ProgramReadsDescriptors` | the parser finds what the descriptors offer |
| `ProgramSpeaksToItsDevice` | an enabled driver polls endpoints of the device that is there, in the configuration it selected |
| `CommandsAreExact` | an SPI command exchanges exactly its bytes |
| `CodecIsSetUp` | the registers of the codec hold the values of the calls made so far, arbitration losses excepted |
| `ReadsAreOfTheRegister` | a read that reports success gives the register asked for, if no earlier attempt overwrote its number |
| `HangsForAReason` | start-up comes to the codec's error loop only on a blocked bus, after a lost arbitration, or after as many refusals as there are attempts |

`TaskTypesHold`, `PoolIsTheDrivers`, `StaleDeviceIsNoticed`,
`DescriptorsAreAlwaysRead` and `DriverSpeaksToItsDevice` state the first five of
the host task alone; Startup adds that its variables rest until it runs and that
`MAX3421e::Init` hands over a bus that it knows (`BeginsUsb`).

*Host task.* `PoolInv` says where the enumeration is and what the driver owns
there, and what the task knows of the bus (`BusKnown`): with slow hands every
change from or to "nothing plugged" is either sampled or has its interrupt
pending, and between the sampling and the clearing it has both. Without that, an
enumeration could begin with the driver of the last device still enabled. The
pool's part holds on ports with slow plugs or without SE1 (`Sound`), as
`PoolMatchesDriver` says. `SearchInv` says how far the two searches over the
configurations have come and that the endpoint numbers written so far are those
of an endpoint that may be used, and `Noticed` that a driver which is no longer
served by its device has an interrupt or a new sample coming. `StaleIsNoticed`
needs nothing of the devices; `SpeaksToItsDevice` needs the parser to be right
about them, and so, as above, `RegularDevices`.

*Types.* Most ranges of `StartTypeOK` follow from the invariants below; some need
one of their own. `FewReceived`: the bytes received are no more than the commands
gone that ask for one, so neither FIFO nor buffer overflows. `ProbeAnswers`: what
busprobe has read is the level of the lines. `TaskTypes`: retries and searches
stay within their bounds, and the endpoint numbers are those a parser that starts
from anything can write.

*SPI.* `SpiInv`: in the polling loop the driver's credit is 1 and no byte is on
its way, or it is 0 and exactly one is: in TXDATA, in the shift register, or in
RXDATA. How many bytes have come back fixes what is still to be sent, what is
still to be ignored and what the chip has heard, and the byte that was in RXDATA
before the command is thrown away first.

*I2C.* `I2cInv` describes an attempt as a script of five or six commands. What
the driver still has to push (`todo`) and what waits in the FIFO (`cmds`) are
consecutive parts of the script; how many commands are gone, and whether one has
failed, fixes how many bytes the codec has latched (`Latched`) and how many
answers are in the receive FIFO and the buffer (`Received`). From it follow
`CodecIs` (a write that passed its last command is in the codec, no register
differs from the calls made) and `Hopes` (each attempt lost without a lost
arbitration and on a moving bus has cost a refusal). `astray` marks an attempt
whose register number an earlier one overwrote; of its answers nothing is
claimed.

### Only model-checked

Liveness and what rests on fairness: `VoicesSettle`, `ReleasedKeySilent`,
`EventsAreTaken`, `CleansUp`, `UnpluggedIsReleased`, `HostStarts`,
`SynthesizerWorks`, `TaskReturns`, `CallsReturn`, `FallsSilent`, `PitchFollows`,
`WriteReturns`, `ShownInTheEnd`. The prover has no means for them. The properties
that a run refutes have no theorem either, of course; `OffSilences` and
`NothingStale` say that what the finding names is all that is wrong there.

## What the properties do not say

* `VoicesSettle` holds after the decay knob has been turned; nothing is claimed
  of the uninitialised value.
* `ParsedInOrder` and `PollInOrder` assume that no acknowledgement of the host is
  lost: the code repeats a read with a flipped toggle, and what happens then
  depends on the chip.
* `CallsReturn` leaves polls out: a toggle error repeats the packet without limit.
* `StaleIsNoticed`, `UnpluggedIsReleased` and `SynthesizerWorks` are about slow
  ports; on a fast one a device can be exchanged without an interrupt (see
  `usb_task_fast`).
* `CodecFollows` excepts arbitration losses and `ReadsRegister` reads whose
  register number an earlier attempt overwrote: in both the code does otherwise
  (see the observations above).
* `ShownInTheEnd` speaks of characters that `write` accepted; what it gives back
  to `printf` as not accepted is lost.
* The chip is assumed to complete every packet it was told to send.
* SoundPath says nothing of the shape of a wave, and takes the sampling of
  the mix by the other clock as clean.

## Plan

Done: Synth, SynthClock, SynthKeys with Polyphony, MidiRecv with MidiStream,
I2c, Spi and UsbTask with MidiDescParser composed in Startup, UsbTransfer,
SoundPath, Console with Alarm and CharPipe; every safety property of theirs is
proved. What is left is liveness, which needs provers that know ENABLED and
fairness, and the send path of the MIDI driver, if main comes to use it.

Larger instances worth the time when the code changes: three voices in
`synth_keys`, two lost acknowledgements in `usb_transfer`, a ring of 4 in
`console`.
