------------------------------- MODULE Synth -------------------------------
(***************************************************************************)
(* The main loop of the firmware (software/synthesizer/main.cpp): it polls *)
(* the USB stack, takes MIDI packets one at a time, assigns notes to the   *)
(* voice registers of the FPGA, and then makes a pass over the voices that *)
(* lets their volume decay.                                                *)
(*                                                                         *)
(* A voice register holds note * 256 + volume, as in the code.  A packet   *)
(* is a record [st, d1, d2]: the high nibble of the status byte and the    *)
(* two data bytes.  clock() never appears by itself in the code, only in   *)
(* the unsigned difference clock() - note_clocks[i]; age[i] is that        *)
(* difference, a number of timer ticks modulo WordMod (2^32 in the code).  *)
(*                                                                         *)
(* The printf calls are left out.  release_time is kept although nothing   *)
(* reads it (main.cpp:197 is a TODO).                                      *)
(***************************************************************************)
EXTENDS Integers

CONSTANTS
  NumNotes,     \* NUM_NOTES, the number of voices
  Packets,      \* the MIDI packets the device may send
  Garbage,      \* what the uninitialised ms_to_dec may hold at start-up
  TicksPerSec,  \* CLOCKS_PER_SEC
  WordMod,      \* 2^32: unsigned arithmetic is modulo WordMod
  MaxLag        \* bound: ticks between the starts of two decay passes

Byte == {b \in Nat : b <= 255}
Word == 0..(WordMod - 1)

ASSUME SynthAssumption ==
  /\ NumNotes \in Nat \ {0}
  /\ Packets \subseteq [st : 0..15, d1 : Byte, d2 : Byte]
  /\ WordMod \in Nat \ {0}
  /\ Garbage \subseteq Word
  /\ TicksPerSec \in Nat \ {0}
  /\ MaxLag \in Nat \ {0}

Voice == 0..(NumNotes - 1)

VARIABLES
  pc,            \* "task", "recv" or "decay": where the loop is
  idx,           \* the loop variable of the decay pass
  reg,           \* *(note_vol_array[i])
  used,          \* note_used[i]
  age,           \* clock() - note_clocks[i]
  first_note, muted, sustain_level, ms_to_dec,
  fx,            \* the effect registers and release_time
  lag            \* ticks since the last decay pass began (bounds Tick)

voices == <<reg, used>>
settings == <<muted, sustain_level, ms_to_dec, fx>>
vars == <<pc, idx, reg, used, age, first_note, muted, sustain_level,
          ms_to_dec, fx, lag>>

Effect == {"master_vol", "vibrato", "reverb", "release_time"}

Register == {r \in Nat : r <= 65535}

Pack(note, vol) == note * 256 + vol
NoteOf(r) == r \div 256
VolOf(r)  == r % 256

(***************************************************************************)
(* Start-up: everything main() sets before its loop.  ms_to_dec is         *)
(* declared without a value and first read before anything wrote it.  The  *)
(* note clocks are uninitialised too, but no voice reads its clock before  *)
(* Note On has set it; the model starts them at 0.                         *)
(***************************************************************************)
Init ==
  /\ pc = "task"
  /\ idx = 0
  /\ reg = [i \in Voice |-> 0]
  /\ used = [i \in Voice |-> FALSE]
  /\ age = [i \in Voice |-> 0]
  /\ first_note = TRUE
  /\ muted = FALSE
  /\ sustain_level = 127
  /\ ms_to_dec \in Garbage
  /\ fx = [master_vol |-> 64, vibrato |-> 64, reverb |-> 0, release_time |-> 0]
  /\ lag = 0

-----------------------------------------------------------------------------
(***************************************************************************)
(* The MIDI handlers, one per case of the switch.  Every handler leaves    *)
(* the loop at RecvData.                                                   *)
(***************************************************************************)

\* Mutant: the search for a free slot stops one short.
FirstFreeShort(i) ==
  /\ i < NumNotes - 1
  /\ ~used[i]
  /\ \A j \in Voice : j < i => used[j]

\* The slot the search of Note On stops at.
FirstFree(i) ==
  /\ ~used[i]
  /\ \A j \in Voice : j < i => used[j]

\* Mutant: the search for the note stops one short.
FirstMatchShort(i, note) ==
  /\ i < NumNotes - 1
  /\ NoteOf(reg[i]) = note
  /\ \A j \in Voice : j < i => NoteOf(reg[j]) # note

\* The slot the search of Note Off stops at: it compares registers only.
FirstMatch(i, note) ==
  /\ NoteOf(reg[i]) = note
  /\ \A j \in Voice : j < i => NoteOf(reg[j]) # note

\* Mutant: the flag is reset and the register keeps its note.
ReleaseFlagOnly(i) == used' = [used EXCEPT ![i] = FALSE] /\ UNCHANGED reg

ReleaseVoice(i) ==
  /\ reg' = [reg EXCEPT ![i] = 0]
  /\ used' = [used EXCEPT ![i] = FALSE]

\* Mutant: muting frees the voices and does not silence them.
ClearFlagsOnly == used' = [i \in Voice |-> FALSE] /\ UNCHANGED reg

ClearVoices ==
  /\ reg' = [i \in Voice |-> 0]
  /\ used' = [i \in Voice |-> FALSE]

\* Mutant: the note clock is never set.
NoStamp(i) == UNCHANGED age

\* note_clocks[i] = clock()
StampClock(i) == age' = [age EXCEPT ![i] = 0]

\* Mutant: the muted flag is not checked.
AudibleMuted == ~first_note

Audible == ~first_note /\ ~muted

\* The first Note On since start-up is discarded.
DropFirstNote(p) ==
  /\ p.st = 9
  /\ first_note
  /\ first_note' = FALSE
  /\ UNCHANGED <<voices, age, settings>>

StartNote(p) ==
  /\ p.st = 9
  /\ Audible
  /\ \E i \in Voice :
       /\ FirstFree(i)
       /\ used' = [used EXCEPT ![i] = TRUE]
       /\ reg' = [reg EXCEPT ![i] = Pack(p.d1, p.d2)]
       /\ StampClock(i)
  /\ UNCHANGED <<first_note, settings>>

\* Muted, or every voice is taken: the note is lost.
IgnoreNote(p) ==
  /\ p.st = 9
  /\ ~first_note
  /\ muted \/ ~\E i \in Voice : FirstFree(i)
  /\ UNCHANGED <<voices, age, first_note, settings>>

NoteOn(p) == DropFirstNote(p) \/ StartNote(p) \/ IgnoreNote(p)

NoteOff(p) ==
  /\ p.st = 8
  /\ \/ \E i \in Voice :
          /\ FirstMatch(i, p.d1)
          /\ ReleaseVoice(i)
     \/ /\ ~\E i \in Voice : FirstMatch(i, p.d1)
        /\ UNCHANGED voices
  /\ UNCHANGED <<age, first_note, settings>>

PitchWheel(p) ==
  /\ p.st = 14
  /\ fx' = [fx EXCEPT !.vibrato = p.d2]
  /\ UNCHANGED <<voices, age, first_note, muted, sustain_level, ms_to_dec>>

\* Volume wheel and knobs.  (d2 + 1 is computed in a 32-bit unsigned.)
Knob(p) ==
  /\ p.st = 11
  /\ p.d1 \in {1, 20, 21, 22, 23}
  /\ fx' = CASE p.d1 = 1  -> [fx EXCEPT !.master_vol = p.d2]
             [] p.d1 = 20 -> [fx EXCEPT !.reverb = p.d2]
             [] p.d1 = 21 -> [fx EXCEPT !.release_time = p.d2]
             [] OTHER     -> fx
  /\ ms_to_dec' = IF p.d1 = 22 THEN (p.d2 + 1) % WordMod ELSE ms_to_dec
  /\ sustain_level' = IF p.d1 = 23 THEN p.d2 ELSE sustain_level
  /\ UNCHANGED <<voices, age, first_note, muted>>

\* Button 1: pressed, it mutes and clears every voice; released, it unmutes.
MuteButton(p) ==
  /\ p.st = 11
  /\ p.d1 = 48
  /\ \/ /\ p.d2 = 127
        /\ muted' = TRUE
        /\ ClearVoices
     \/ /\ p.d2 # 127
        /\ muted' = FALSE
        /\ UNCHANGED voices
  /\ UNCHANGED <<age, first_note, sustain_level, ms_to_dec, fx>>

\* Any other packet (buttons 2 to 4 included) falls out of the switch.
OtherPacket(p) ==
  /\ \/ p.st \notin {8, 9, 11, 14}
     \/ p.st = 11 /\ p.d1 \notin {1, 20, 21, 22, 23, 48}
  /\ UNCHANGED <<voices, age, first_note, settings>>

Handle(p) ==
  /\ pc = "recv"
  /\ \/ NoteOn(p) \/ NoteOff(p) \/ PitchWheel(p)
     \/ Knob(p) \/ MuteButton(p) \/ OtherPacket(p)
  /\ UNCHANGED <<pc, idx, lag>>

-----------------------------------------------------------------------------
(***************************************************************************)
(* The loop around the handlers.                                           *)
(***************************************************************************)
BeginDecay ==
  /\ pc' = "decay"
  /\ idx' = 0
  /\ lag' = 0
  /\ UNCHANGED <<voices, age, first_note, settings>>

\* Usb.Task(), then the test of Midi (bPollEnable).
TaskReady ==
  /\ pc = "task"
  /\ pc' = "recv"
  /\ UNCHANGED <<idx, voices, age, first_note, settings, lag>>

TaskNoMidi == pc = "task" /\ BeginDecay

\* RecvData returned 0.
RecvNothing == pc = "recv" /\ BeginDecay

\* 2000 * (clock() - note_clocks[i]) / CLOCKS_PER_SEC, in unsigned
\* arithmetic.
Elapsed(i) == ((2 * TicksPerSec * age[i]) % WordMod) \div TicksPerSec

\* Mutant: equality in place of >=, which an odd setting never meets.
DecayDueExactly(i) == Elapsed(i) = ms_to_dec

DecayDue(i) == Elapsed(i) >= ms_to_dec

\* Mutant: >= in place of >.
AtOrAboveSustain(i) == VolOf(reg[i]) >= sustain_level

AboveSustain(i) == VolOf(reg[i]) > sustain_level

\* Mutant: <= in place of < in the loop's condition.
NextVoiceLate ==
  IF idx + 1 <= NumNotes
    THEN idx' = idx + 1 /\ pc' = pc
    ELSE idx' = 0 /\ pc' = "task"

\* i++ of the pass, and the end of the pass.
NextVoice ==
  IF idx + 1 < NumNotes
    THEN idx' = idx + 1 /\ pc' = pc
    ELSE idx' = 0 /\ pc' = "task"

\* One iteration of the decay pass.  The clock is read twice, but a tick
\* between the reads gives what a tick before the first would.
DecayVoice ==
  /\ pc = "decay"
  /\ \/ /\ ~used[idx] \/ ~DecayDue(idx)
        /\ UNCHANGED <<voices, age>>
     \/ /\ used[idx] /\ DecayDue(idx)
        /\ StampClock(idx)
        /\ \/ /\ AboveSustain(idx)
              /\ reg' = [reg EXCEPT ![idx] = @ - 1]
              /\ UNCHANGED used
           \/ /\ ~AboveSustain(idx) /\ VolOf(reg[idx]) = 0
              /\ ReleaseVoice(idx)
           \/ /\ ~AboveSustain(idx) /\ VolOf(reg[idx]) > 0
              /\ UNCHANGED voices
  /\ NextVoice
  /\ UNCHANGED <<first_note, settings, lag>>

\* The system timer, at any point of the loop.
Tick ==
  /\ lag < MaxLag
  /\ lag' = lag + 1
  /\ age' = [i \in Voice |-> (age[i] + 1) % WordMod]
  /\ UNCHANGED <<pc, idx, voices, first_note, settings>>

Loop == TaskReady \/ TaskNoMidi \/ RecvNothing \/ DecayVoice

Next == Loop \/ Tick \/ \E p \in Packets : Handle(p)

Spec == Init /\ [][Next]_vars

(***************************************************************************)
(* The processor runs the loop, the timer keeps interrupting, and a device *)
(* cannot fill the wire faster than the loop drains it for ever: in the    *)
(* end RecvData finds nothing.                                             *)
(***************************************************************************)
FairSpec ==
  /\ Spec
  /\ WF_vars(TaskReady \/ TaskNoMidi)
  /\ WF_vars(RecvNothing)
  /\ WF_vars(DecayVoice)
  /\ WF_vars(Tick)

-----------------------------------------------------------------------------
TypeOK ==
  /\ pc \in {"task", "recv", "decay"}
  /\ idx \in Voice
  /\ reg \in [Voice -> Register]
  /\ used \in [Voice -> BOOLEAN]
  /\ age \in [Voice -> Word]
  /\ first_note \in BOOLEAN
  /\ muted \in BOOLEAN
  /\ sustain_level \in Byte
  /\ ms_to_dec \in Word
  /\ fx \in [Effect -> Byte]
  /\ lag \in 0..MaxLag

\* A voice the allocator believes to be free makes no sound: its register is
\* 0.  note_used and the register are written separately by Note On, Note
\* Off, the mute button and the decay pass (main.cpp:102-118, 161-164, 190-193).
FreeIsSilent == \A i \in Voice : ~used[i] => reg[i] = 0

\* While mute is on no voice is taken, whatever notes arrive and wherever
\* the decay pass was when the button came (main.cpp:96, 160-164).
MutedIsSilent == muted => \A i \in Voice : ~used[i] /\ reg[i] = 0

\* A step that leaves voice i taken keeps its note, may only lower its
\* volume, and not below the sustain level.
KeepsNote(i) ==
  used[i] /\ used'[i] =>
    /\ NoteOf(reg'[i]) = NoteOf(reg[i])
    /\ VolOf(reg'[i]) <= VolOf(reg[i])
    /\ VolOf(reg'[i]) < VolOf(reg[i]) => VolOf(reg'[i]) >= sustain_level

\* From Note On to release a voice keeps its pitch and never gets louder,
\* and the decay never takes it below the sustain level: no step steals a
\* voice, and the subtraction on the packed register (main.cpp:190) never
\* borrows from the note bits.
VoiceStable == [][\A i \in Voice : KeepsNote(i)]_vars

\* The voice needs no more decay: it is free, or between 1 and the sustain
\* level.
Settled(i) == ~used[i] \/ VolOf(reg[i]) \in 1..sustain_level

\* ms_to_dec holds a value that came from the decay knob.
KnobSet ==
  \E p \in Packets : p.st = 11 /\ p.d1 = 22 /\ ms_to_dec = (p.d2 + 1) % WordMod

\* Once the decay time comes from the knob, no voice stays above the sustain
\* level, or taken at volume 0, for ever (main.cpp:183-198), although the
\* clock difference wraps.
VoicesSettle == <>[]KnobSet => \A i \in Voice : []<>Settled(i)
=============================================================================
