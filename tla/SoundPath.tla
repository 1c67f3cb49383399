----------------------------- MODULE SoundPath -----------------------------
(***************************************************************************)
(* The sound path of the FPGA: a wave generator per voice register         *)
(* (waveform_generator.sv and the generators it selects from), the mixer   *)
(* (mixer.sv) and the serializer to the codec (I2S_Interface.sv), wired as *)
(* in synthesizer.sv.                                                      *)
(*                                                                         *)
(* Three actors: the processor writes registers at any time; the 50 MHz    *)
(* clock advances the generators; the codec drives SCLK and LRCLK and      *)
(* reads SDATA.  A register is [period, vol], with the period that the     *)
(* note and the vibrato level select.  Samples have W bits (24).  The      *)
(* switches that select the wave do not move, so each voice keeps the      *)
(* state of the selected generator only.  The sampling of a changing mix   *)
(* by SCLK is taken to be clean.                                           *)
(***************************************************************************)
EXTENDS Integers, Sequences, FiniteSetsExt

CONSTANTS
  W,             \* bits of a sample
  Voice,         \* the voices
  Registers,     \* what the processor writes to a voice register
  MasterVols,    \* what it writes to the master volume
  MaxVol,        \* 127
  Shift,         \* the mixer shifts by 11 bits
  Half           \* SCLK cycles in half a frame

Power[n \in Nat] == IF n = 0 THEN 1 ELSE 2 * Power[n - 1]   \* 2^n

Sample == 0..(Power[W] - 1)
Wave == {"square", "saw", "triangle"}
Bit(x, i) == (x \div Power[i]) % 2

ASSUME SoundAssumption ==
  /\ IsFiniteSet(Voice)
  /\ W \in Nat \ {0} /\ Shift \in Nat /\ MaxVol \in Nat \ {0}
  /\ Registers \subseteq [period : Nat, vol : 0..MaxVol]
  /\ \A r \in Registers : r.period > 1
  /\ MasterVols \subseteq Nat
  /\ Half \in Nat /\ Half > W

VARIABLES
  wave,        \* SW[1:0]
  reg,         \* note_vol_0 .. note_vol_3
  master_vol,
  gen,         \* counter, local_val and updown of each voice's generator
  LRCLK, SDATA,
  left, right, \* the shift registers
  slot,        \* SCLK cycles since LRCLK changed
  bits,        \* bits the codec has read of the running half frame
  taken        \* history: data_in at the last SCLK edge of each half

registers == <<reg, master_vol>>
serial == <<LRCLK, SDATA, left, right, slot, bits, taken>>
vars == <<wave, registers, gen, serial>>

-----------------------------------------------------------------------------
(***************************************************************************)
(* The generators.                                                         *)
(***************************************************************************)
middle == Power[W - 1]
top == Power[W + 1] - 1      \* 33554431

init(v) == reg[v].period \div 2

increment(v) ==
  IF wave = "saw" THEN top \div (2 * reg[v].period) ELSE top \div init(v)

\* Mutant: the counter reloads one clock too many.
ReloadLate(v) == init(v) + 1

\* What the counter restarts from, with the period of that moment.
Reload(v) == init(v)

\* One clock of the selected generator.
Advance(v) ==
  LET g == gen[v] IN
  CASE wave = "saw" ->
         [g EXCEPT !.local_val = (@ + increment(v)) % Power[W]]
    [] wave = "square" /\ g.counter = 0 ->
         [g EXCEPT !.counter = Reload(v), !.local_val = Power[W] - 1 - @]
    [] wave = "triangle" /\ g.counter = 0 ->
         [g EXCEPT !.counter = Reload(v), !.updown = ~@]
    [] wave = "square" ->
         [g EXCEPT !.counter = @ - 1]
    [] OTHER ->
         [g EXCEPT !.counter = @ - 1,
                   !.local_val = (IF g.updown THEN @ + increment(v)
                                  ELSE @ - increment(v)) % Power[W]]

ClockEdge ==
  /\ gen' = [v \in Voice |-> Advance(v)]
  /\ UNCHANGED <<wave, registers, serial>>

\* KEY0
Reset ==
  /\ gen' = [v \in Voice |-> [counter |-> IF wave = "saw" THEN 0 ELSE init(v),
                              local_val |-> middle, updown |-> TRUE]]
  /\ UNCHANGED <<wave, registers, serial>>

-----------------------------------------------------------------------------
(***************************************************************************)
(* The mixer: combinational, in W bits.                                    *)
(***************************************************************************)

\* Mutant: a volume of 0 is not silence.
SampleNeverOff(v) == (gen[v].local_val * (reg[v].vol + 1)) \div MaxVol

SampleOf(v) == (gen[v].local_val * reg[v].vol) \div MaxVol

mixed_sample ==
  ((MapThenSumSet(SampleOf, Voice) * master_vol) % Power[W]) \div Power[Shift]

-----------------------------------------------------------------------------
(***************************************************************************)
(* The serializer.  The codec is master: it changes LRCLK between the      *)
(* edges of SCLK and reads SDATA, as it was before, at each edge.  The     *)
(* first bit it reads after LRCLK has changed is not part of the half.     *)
(***************************************************************************)

\* Mutant: the channel's register is not shifted while it is sent.
KeepsWord(x) == x

ShiftLeft(x) == (2 * x) % Power[W]

SclkEdge ==
  /\ IF LRCLK
       THEN /\ left' = Bit(mixed_sample, W - 1)
            /\ SDATA' = Bit(right, W - 1)
            /\ right' = ShiftLeft(right)
       ELSE /\ right' = mixed_sample
            /\ SDATA' = Bit(left, W - 1)
            /\ left' = ShiftLeft(left)
  /\ bits' = IF slot = 0 THEN <<>> ELSE Append(bits, SDATA)
  /\ slot' = (slot + 1) % Half
  /\ LRCLK' = IF slot + 1 = Half THEN ~LRCLK ELSE LRCLK
  /\ taken' = IF slot + 1 = Half THEN [taken EXCEPT ![LRCLK] = mixed_sample] ELSE taken
  /\ UNCHANGED <<wave, registers, gen>>

-----------------------------------------------------------------------------
\* The processor.
WriteVoice ==
  /\ \E v \in Voice : \E r \in Registers : reg' = [reg EXCEPT ![v] = r]
  /\ UNCHANGED <<wave, master_vol, gen, serial>>

WriteMaster ==
  /\ master_vol' \in MasterVols
  /\ UNCHANGED <<wave, reg, gen, serial>>

\* Power-up: the generators hold anything until KEY0 is pressed.
Init ==
  /\ wave \in Wave
  /\ reg \in [Voice -> Registers]
  /\ master_vol \in MasterVols
  /\ gen \in [Voice -> [counter : {0}, local_val : {0, middle}, updown : {FALSE}]]
  /\ LRCLK = TRUE /\ SDATA = 0
  /\ left = 0 /\ right = 0
  /\ slot = 0 /\ bits = <<>>
  /\ taken = [half \in BOOLEAN |-> 0]

Next == ClockEdge \/ Reset \/ SclkEdge \/ WriteVoice \/ WriteMaster

Spec == Init /\ [][Next]_vars

\* Both clocks run.
FairSpec == Spec /\ WF_vars(SclkEdge) /\ WF_vars(ClockEdge)

-----------------------------------------------------------------------------
\* The half frame that bits were read in: TRUE is the right channel.
HalfRead == IF slot = 0 THEN ~LRCLK ELSE LRCLK

\* The bits read so far are the first of sample x, the most significant first,
\* and zeros after its last.
Carries(x) ==
  \A k \in 1..Len(bits) : bits[k] = IF k <= W THEN Bit(x, W - k) ELSE 0

\* The right channel carries one sample, the mix as it was at the last edge of
\* the left half, whatever the generators and the processor do while it is
\* sent (I2S_Interface.sv:23-33).
RightCarriesMix == HalfRead => Carries(taken[FALSE])

\* "The data_in is copied to both L and R channels" (I2S_Interface.sv:7): the
\* left channel carries the mix of the last edge of the right half.
LeftCarriesMix == ~HalfRead => Carries(taken[TRUE])

\* Once every voice register has volume 0 for good, the line to the codec falls
\* silent: no generator, shift register or pending frame keeps sounding
\* (square_wave_generator.sv:6, mixer.sv:5, I2S_Interface.sv:23-33).
FallsSilent ==
  <>[](\A v \in Voice : reg[v].vol = 0) => <>[](SDATA = 0)

\* A change of pitch does not restart the counter; but once the registers stay
\* as they are, every counter comes to run within the half period of its
\* register, whatever it was counting when the register was written
\* (square_wave_generator.sv:15-21, triangle_wave_generator.sv:24-31).
PitchFollows ==
  <>[][FALSE]_reg =>
    <>[](\A v \in Voice : gen[v].counter <= init(v))
=============================================================================
