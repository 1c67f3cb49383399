---------------------------- MODULE Synth_proofs ----------------------------
(***************************************************************************)
(* Proofs about the voice allocator: by itself, with the true time since   *)
(* a voice was started, and played from a keyboard; for every number of    *)
(* voices, packet set, word size, timer rate, and a wire of any length.    *)
(***************************************************************************)
EXTENDS SynthClock, SynthKeys, Recursion, SequenceTheorems

(***************************************************************************)
(* The packed register.                                                    *)
(***************************************************************************)

\* The bytes of a MIDI packet, as bounds on an integer.
LEMMA ByteRange == \A b : b \in Byte <=> b \in Int /\ 0 <= b /\ b <= 255
  BY SMT DEF Byte

\* The 16-bit voice registers, as bounds on an integer.
LEMMA RegisterRange == \A r : r \in Register <=> r \in Int /\ 0 <= r /\ r <= 65535
  BY SMT DEF Register

\* The quotient and the remainder by 256 are the only ones.
LEMMA DivMod ==
  ASSUME NEW q \in Int, NEW v \in Int, 0 <= v, v <= 255
  PROVE  (q * 256 + v) \div 256 = q /\ (q * 256 + v) % 256 = v
<1> DEFINE r == q * 256 + v
<1>1. r \in Int /\ r = 256 * q + v
  BY SMT
<1> HIDE DEF r
<1>2. r \div 256 = q
  BY <1>1, SMT
<1>3. r % 256 = v
  BY <1>1, SMT
<1>4. QED
  BY <1>2, <1>3, Zenon DEF r

\* A register written by Note On fits in 16 bits and holds the note and the
\* volume it was made of (main.cpp:108, 115, 185).
LEMMA PackRegister ==
  ASSUME NEW n \in Byte, NEW v \in Byte
  PROVE  /\ Pack(n, v) \in Register
         /\ NoteOf(Pack(n, v)) = n
         /\ VolOf(Pack(n, v)) = v
<1>1. /\ n \in Int /\ 0 <= n /\ n <= 255
      /\ v \in Int /\ 0 <= v /\ v <= 255
  BY ByteRange, Zenon
<1>2. /\ n * 256 + v \in Int
      /\ 0 <= n * 256 + v /\ n * 256 + v <= 65535
  BY <1>1, SMT
<1>3. n * 256 + v \in Register
  BY <1>2, RegisterRange, SMT
<1>4. (n * 256 + v) \div 256 = n /\ (n * 256 + v) % 256 = v
  BY <1>1, DivMod, Zenon
<1>5. QED
  BY <1>3, <1>4, Zenon DEF Pack, NoteOf, VolOf

\* Every register holds a note and a volume.
LEMMA UnpackRegister ==
  ASSUME NEW r \in Register
  PROVE  \E n, v \in Byte : r = Pack(n, v)
<1> DEFINE n == r \div 256
           v == r % 256
<1>1. r \in Int /\ 0 <= r /\ r <= 65535
  BY RegisterRange, SMT
<1>2. /\ n \in Int /\ v \in Int /\ 0 <= v /\ v <= 255
      /\ r = n * 256 + v
  BY <1>1, SMT
<1> HIDE DEF n, v
<1>3. 0 <= n /\ n <= 255
  BY <1>1, <1>2, SMT
<1>4. n \in Byte /\ v \in Byte
  BY <1>2, <1>3, ByteRange, Zenon
<1>5. QED
  BY <1>2, <1>4, Zenon DEF Pack

\* Subtracting 1 from a register whose volume is not 0 lowers the volume by
\* 1 and does not borrow from the note (main.cpp:190).
LEMMA LowerRegister ==
  ASSUME NEW n \in Byte, NEW v \in Byte, v > 0
  PROVE  v - 1 \in Byte /\ Pack(n, v) - 1 = Pack(n, v - 1)
<1>1. n \in Int /\ v \in Int /\ 0 <= v /\ v <= 255
  BY ByteRange, Zenon
<1>2. v - 1 \in Int /\ 0 <= v - 1 /\ v - 1 <= 255
  BY <1>1, SMT
<1>3. (n * 256 + v) - 1 = n * 256 + (v - 1)
  BY <1>1, SMT
<1>4. QED
  BY <1>2, <1>3, ByteRange, Zenon DEF Pack

\* The decay step on a register of volume above 0: what VoiceStable needs.
LEMMA LowerStep ==
  ASSUME NEW r \in Register, VolOf(r) > 0
  PROVE  /\ r - 1 \in Register
         /\ NoteOf(r - 1) = NoteOf(r)
         /\ VolOf(r - 1) = VolOf(r) - 1
<1>1. PICK n \in Byte, v \in Byte : r = Pack(n, v)
  BY UnpackRegister, Zenon
<1>2. VolOf(r) = v /\ NoteOf(r) = n
  BY <1>1, PackRegister, Zenon
<1>3. v > 0
  BY <1>2, Zenon
<1>4. v - 1 \in Byte /\ r - 1 = Pack(n, v - 1)
  BY <1>1, <1>3, LowerRegister, Zenon
<1>5. QED
  BY <1>2, <1>4, PackRegister, Zenon

\* The volume of a register is a byte.
LEMMA VolByte == ASSUME NEW r \in Register PROVE VolOf(r) \in Byte
  BY UnpackRegister, PackRegister, Zenon

\* The released register, 0, is a register.
LEMMA ZeroRegister == 0 \in Register
  BY SMT DEF Register

\* A MIDI packet of four bytes, whatever sends it.
Packet == [st : 0..15, d1 : Byte, d2 : Byte]

\* The packets of the model are MIDI packets.
LEMMA PacketsArePackets == Packets \subseteq Packet
  BY SynthAssumption, Zenon DEF Packet

(***************************************************************************)
(* The inductive invariant.  TypeOK is inductive by itself except for the  *)
(* decay's subtraction; FreeIsSilent and MutedIsSilent are each inductive  *)
(* given TypeOK, because every handler changes note_used and the register  *)
(* together.                                                               *)
(***************************************************************************)
IInv == TypeOK /\ FreeIsSilent /\ MutedIsSilent

\* There is a voice 0, where the decay pass begins.
LEMMA VoiceFacts == 0 \in Voice /\ Voice \subseteq Int
  BY SynthAssumption, SMT DEF Voice

\* The start-up state of main() satisfies the invariant.
LEMMA InitIInv == Init => IInv
<1> SUFFICES ASSUME Init PROVE IInv
  OBVIOUS
<1>1. TypeOK
  <2>1. /\ 0 \in Word /\ 127 \in Byte /\ 64 \in Byte /\ 0 \in Byte
        /\ 0 \in 0..MaxLag
    BY SynthAssumption, SMT DEF Word, Byte
  <2>2. fx \in [Effect -> Byte]
    BY <2>1, SMT DEF Init, Effect
  <2>3. ms_to_dec \in Word
    BY SynthAssumption, Zenon DEF Init
  <2>4. QED
    BY <2>1, <2>2, <2>3, VoiceFacts, ZeroRegister, Zenon DEF Init, TypeOK
<1>2. FreeIsSilent /\ MutedIsSilent
  BY SMT DEF Init, FreeIsSilent, MutedIsSilent
<1>3. QED
  BY <1>1, <1>2 DEF IInv

\* Releasing a voice keeps the three parts of the invariant.
LEMMA ReleaseKeeps ==
  ASSUME IInv, NEW i \in Voice, ReleaseVoice(i), muted' = muted
  PROVE  /\ reg' \in [Voice -> Register] /\ used' \in [Voice -> BOOLEAN]
         /\ FreeIsSilent' /\ MutedIsSilent'
<1> USE DEF IInv, TypeOK, ReleaseVoice
<1>1. reg' \in [Voice -> Register]
  BY ZeroRegister, SMT
<1>2. used' \in [Voice -> BOOLEAN]
  BY SMT
<1>3. FreeIsSilent'
  BY SMT DEF FreeIsSilent
<1>4. MutedIsSilent'
  BY SMT DEF MutedIsSilent
<1>5. QED
  BY <1>1, <1>2, <1>3, <1>4

\* Nor does a step that leaves the voices and the mute flag alone.
LEMMA VoicesKept ==
  ASSUME IInv, UNCHANGED voices, muted' = muted
  PROVE  /\ reg' \in [Voice -> Register] /\ used' \in [Voice -> BOOLEAN]
         /\ FreeIsSilent' /\ MutedIsSilent'
  BY SMT DEF IInv, TypeOK, FreeIsSilent, MutedIsSilent, voices

\* Every case of the switch keeps the invariant (main.cpp:86-181).
LEMMA HandleIInv ==
  ASSUME IInv, NEW p \in Packet, Handle(p)
  PROVE  IInv'
<1> USE DEF IInv
<1>1. p.st \in 0..15 /\ p.d1 \in Byte /\ p.d2 \in Byte
  BY SMT DEF Packet
<1>2. UNCHANGED <<pc, idx, lag>>
  BY DEF Handle
<1>3. CASE DropFirstNote(p) \/ IgnoreNote(p) \/ OtherPacket(p)
  <2>1. UNCHANGED <<voices, age, settings>> /\ first_note' \in BOOLEAN
    BY <1>3, Zenon DEF DropFirstNote, IgnoreNote, OtherPacket, TypeOK
  <2>2. QED
    BY <1>2, <2>1, VoicesKept, Zenon DEF TypeOK, settings
<1>4. CASE StartNote(p)
  <2>1. PICK i \in Voice :
          /\ used' = [used EXCEPT ![i] = TRUE]
          /\ reg' = [reg EXCEPT ![i] = Pack(p.d1, p.d2)]
          /\ age' = [age EXCEPT ![i] = 0]
    BY <1>4, Zenon DEF StartNote, StampClock
  <2>2. ~muted /\ UNCHANGED <<first_note, settings>>
    BY <1>4, Zenon DEF StartNote, Audible
  <2>3. reg' \in [Voice -> Register] /\ used' \in [Voice -> BOOLEAN]
    BY <1>1, <2>1, PackRegister, SMT DEF TypeOK
  <2>4. age' \in [Voice -> Word]
    BY <2>1, SynthAssumption, SMT DEF TypeOK, Word
  <2>5. FreeIsSilent' /\ MutedIsSilent'
    BY <2>1, <2>2, SMT DEF FreeIsSilent, MutedIsSilent, TypeOK, settings
  <2>6. QED
    BY <1>2, <2>2, <2>3, <2>4, <2>5, Zenon DEF TypeOK, settings
<1>5. CASE NoteOff(p)
  <2>1. UNCHANGED <<age, first_note, settings>>
    BY <1>5 DEF NoteOff
  <2>2. \/ \E i \in Voice : ReleaseVoice(i)
        \/ UNCHANGED voices
    BY <1>5, Zenon DEF NoteOff
  <2>3. /\ reg' \in [Voice -> Register] /\ used' \in [Voice -> BOOLEAN]
        /\ FreeIsSilent' /\ MutedIsSilent'
    BY <2>1, <2>2, ReleaseKeeps, VoicesKept, Zenon DEF settings
  <2>4. QED
    BY <1>2, <2>1, <2>3, Zenon DEF TypeOK, settings
<1>6. CASE PitchWheel(p)
  <2>1. fx' \in [Effect -> Byte]
    BY <1>1, <1>6, SMT DEF PitchWheel, TypeOK, Effect
  <2>2. QED
    BY <1>2, <1>6, <2>1, VoicesKept, Zenon DEF PitchWheel, TypeOK
<1>7. CASE Knob(p)
  <2>1. fx' \in [Effect -> Byte]
    BY <1>1, <1>7, SMT DEF Knob, TypeOK, Effect
  <2>2. ms_to_dec' \in Word
    BY <1>1, <1>7, SynthAssumption, SMT DEF Knob, TypeOK, Word, Byte
  <2>3. sustain_level' \in Byte
    BY <1>1, <1>7, SMT DEF Knob, TypeOK
  <2>4. QED
    BY <1>2, <1>7, <2>1, <2>2, <2>3, VoicesKept, Zenon DEF Knob, TypeOK
<1>8. CASE MuteButton(p)
  <2>1. UNCHANGED <<age, first_note, sustain_level, ms_to_dec, fx>>
    BY <1>8 DEF MuteButton
  <2>2. CASE ClearVoices /\ muted' = TRUE
    <3>1. reg' \in [Voice -> Register] /\ used' \in [Voice -> BOOLEAN]
      BY <2>2, ZeroRegister, SMT DEF ClearVoices
    <3>2. FreeIsSilent' /\ MutedIsSilent'
      BY <2>2, SMT DEF ClearVoices, FreeIsSilent, MutedIsSilent
    <3>3. QED
      BY <1>2, <2>1, <2>2, <3>1, <3>2, Zenon DEF TypeOK
  <2>3. CASE UNCHANGED voices /\ muted' = FALSE
    <3>1. FreeIsSilent' /\ MutedIsSilent'
      BY <2>3, SMT DEF FreeIsSilent, MutedIsSilent, voices
    <3>2. QED
      BY <1>2, <2>1, <2>3, <3>1, Zenon DEF TypeOK, voices
  <2>4. QED
    BY <1>8, <2>2, <2>3, Zenon DEF MuteButton
<1>9. QED
  BY <1>3, <1>4, <1>5, <1>6, <1>7, <1>8, Zenon DEF Handle, NoteOn

\* What one iteration of the decay pass does to the voices.
LEMMA DecayVoiceCases ==
  ASSUME IInv, DecayVoice
  PROVE  \/ UNCHANGED <<voices, muted>>
         \/ used[idx] /\ ReleaseVoice(idx) /\ muted' = muted
         \/ /\ used[idx]
            /\ VolOf(reg[idx]) > sustain_level
            /\ reg' = [reg EXCEPT ![idx] = @ - 1]
            /\ UNCHANGED <<used, muted>>
  BY Zenon DEF DecayVoice, AboveSustain, settings, voices

\* The loop variable of the decay pass stays below NUM_NOTES where it is used
\* (main.cpp:183).
LEMMA NextVoiceType ==
  ASSUME TypeOK, pc = "decay", NextVoice
  PROVE  pc' \in {"task", "recv", "decay"} /\ idx' \in Voice
  BY SynthAssumption, SMT DEF TypeOK, NextVoice, Voice

\* The register the decay lowers is a register again.
LEMMA LoweredType ==
  ASSUME TypeOK, VolOf(reg[idx]) > sustain_level
  PROVE  /\ reg[idx] \in Register /\ VolOf(reg[idx]) > 0
         /\ reg[idx] - 1 \in Register
<1>1. reg[idx] \in Register /\ sustain_level \in Byte
  BY SMT DEF TypeOK
<1>2. VolOf(reg[idx]) > 0
  BY <1>1, VolByte, SMT DEF Byte
<1>3. QED
  BY <1>1, <1>2, LowerStep, Zenon

\* One iteration of the decay pass keeps the invariant (main.cpp:183-196).
LEMMA DecayVoiceIInv ==
  ASSUME IInv, DecayVoice
  PROVE  IInv'
<1> USE DEF IInv
<1>1. pc' \in {"task", "recv", "decay"} /\ idx' \in Voice
  BY NextVoiceType, Zenon DEF DecayVoice
<1>2. UNCHANGED <<first_note, settings, lag>>
  BY DEF DecayVoice
<1>3. age' \in [Voice -> Word]
  <2>1. age' = age \/ age' = [age EXCEPT ![idx] = 0]
    BY Zenon DEF DecayVoice, StampClock
  <2>2. QED
    BY <2>1, SynthAssumption, SMT DEF TypeOK, Word
<1>4. /\ reg' \in [Voice -> Register] /\ used' \in [Voice -> BOOLEAN]
      /\ FreeIsSilent' /\ MutedIsSilent'
  <2>1. CASE UNCHANGED <<voices, muted>>
    BY <2>1, VoicesKept, Zenon
  <2>2. CASE ReleaseVoice(idx) /\ muted' = muted
    BY <2>2, ReleaseKeeps, Zenon DEF TypeOK
  <2>3. CASE /\ used[idx]
             /\ VolOf(reg[idx]) > sustain_level
             /\ reg' = [reg EXCEPT ![idx] = @ - 1]
             /\ UNCHANGED <<used, muted>>
    <3>1. reg[idx] - 1 \in Register
      BY <2>3, LoweredType, Zenon
    <3>2. reg' \in [Voice -> Register] /\ used' \in [Voice -> BOOLEAN]
      BY <2>3, <3>1, SMT DEF TypeOK
    <3>3. FreeIsSilent' /\ MutedIsSilent'
      BY <2>3, SMT DEF FreeIsSilent, MutedIsSilent, TypeOK
    <3>4. QED
      BY <3>2, <3>3
  <2>4. QED
    BY <2>1, <2>2, <2>3, DecayVoiceCases, Zenon
<1>5. QED
  BY <1>1, <1>2, <1>3, <1>4, Zenon DEF TypeOK, settings

\* Leaving the packet loop keeps the invariant.
LEMMA BeginDecayIInv ==
  ASSUME IInv, BeginDecay
  PROVE  IInv'
<1>1. idx' \in Voice /\ lag' \in 0..MaxLag
  BY SynthAssumption, VoiceFacts, SMT DEF BeginDecay
<1>2. UNCHANGED <<voices, age, first_note, settings>> /\ pc' = "decay"
  BY DEF BeginDecay
<1>3. QED
  BY <1>1, <1>2, VoicesKept, Zenon DEF IInv, TypeOK, settings

\* Entering the packet loop keeps the invariant.
LEMMA TaskReadyIInv ==
  ASSUME IInv, TaskReady
  PROVE  IInv'
<1>1. UNCHANGED <<idx, voices, age, first_note, settings, lag>> /\ pc' = "recv"
  BY DEF TaskReady
<1>2. QED
  BY <1>1, VoicesKept, Zenon DEF IInv, TypeOK, settings

\* The timer interrupt keeps the invariant: clock ages wrap within a word.
LEMMA TickIInv ==
  ASSUME IInv, Tick
  PROVE  IInv'
<1>1. UNCHANGED <<pc, idx, voices, first_note, settings>>
  BY DEF Tick
<1>2. age' \in [Voice -> Word]
  BY SynthAssumption, SMT DEF Tick, IInv, TypeOK, Word
<1>3. lag' \in 0..MaxLag
  BY SynthAssumption, SMT DEF Tick, IInv, TypeOK
<1>4. QED
  BY <1>1, <1>2, <1>3, VoicesKept, Zenon DEF IInv, TypeOK, settings

\* Every step of the loop keeps the invariant.
LEMMA StepIInv == IInv /\ [Next]_vars => IInv'
<1> SUFFICES ASSUME IInv, [Next]_vars PROVE IInv'
  OBVIOUS
<1>1. ASSUME NEW p \in Packets, Handle(p) PROVE IInv'
  BY <1>1, HandleIInv, PacketsArePackets
<1>2. CASE TaskReady
  BY <1>2, TaskReadyIInv
<1>3. CASE TaskNoMidi \/ RecvNothing
  BY <1>3, BeginDecayIInv DEF TaskNoMidi, RecvNothing
<1>4. CASE DecayVoice
  BY <1>4, DecayVoiceIInv
<1>5. CASE Tick
  BY <1>5, TickIInv
<1>6. CASE UNCHANGED vars
  BY <1>6, SMT DEF vars, voices, settings, IInv, TypeOK, FreeIsSilent, MutedIsSilent
<1>7. QED
  BY <1>1, <1>2, <1>3, <1>4, <1>5, <1>6, Zenon DEF Next, Loop

\* The invariant holds in every reachable state.
LEMMA Invariance == Spec => []IInv
<1>1. QED
  BY InitIInv, StepIInv, PTL DEF Spec

\* Every variable keeps its type; in particular the registers stay 16 bits
\* wide whatever packets arrive and however long the decay runs.
THEOREM TypeCorrect == Spec => []TypeOK
<1>1. IInv => TypeOK
  BY DEF IInv
<1>2. QED
  BY <1>1, Invariance, PTL

\* A voice that note_used calls free is silent, for any number of voices and
\* any packets.
THEOREM FreeVoicesAreSilent == Spec => []FreeIsSilent
<1>1. IInv => FreeIsSilent
  BY DEF IInv
<1>2. QED
  BY <1>1, Invariance, PTL

\* Mute holds against every packet and every point of the decay pass.
THEOREM MutedVoicesAreSilent == Spec => []MutedIsSilent
<1>1. IInv => MutedIsSilent
  BY DEF IInv
<1>2. QED
  BY <1>1, Invariance, PTL

(***************************************************************************)
(* A taken voice keeps its note: the action property.                      *)
(***************************************************************************)

\* A voice whose register does not change keeps its note.
LEMMA SameRegister ==
  ASSUME TypeOK, NEW i \in Voice, reg'[i] = reg[i]
  PROVE  KeepsNote(i)
<1>1. VolOf(reg[i]) \in Byte
  BY VolByte, SMT DEF TypeOK
<1>2. QED
  BY <1>1, SMT DEF KeepsNote, Byte

\* No handler changes a voice that is taken before and after it.
LEMMA HandleKeepsNotes ==
  ASSUME IInv, NEW p \in Packet, Handle(p), NEW i \in Voice
  PROVE  KeepsNote(i)
<1>1. CASE UNCHANGED voices
  BY <1>1, SameRegister, SMT DEF voices, IInv
<1>2. CASE StartNote(p)
  <2>1. PICK j \in Voice : /\ ~used[j]
                           /\ reg' = [reg EXCEPT ![j] = Pack(p.d1, p.d2)]
    BY <1>2, Zenon DEF StartNote, FirstFree
  <2>2. CASE i = j
    BY <2>1, <2>2, Zenon DEF KeepsNote
  <2>3. CASE i # j
    <3>1. reg'[i] = reg[i]
      BY <2>1, <2>3, SMT DEF IInv, TypeOK
    <3>2. QED
      BY <3>1, SameRegister, Zenon DEF IInv
  <2>4. QED
    BY <2>2, <2>3
<1>3. CASE NoteOff(p)
  <2>1. CASE UNCHANGED voices
    BY <2>1, <1>1
  <2>2. ASSUME NEW j \in Voice, ReleaseVoice(j) PROVE KeepsNote(i)
    <3>1. CASE i = j
      BY <2>2, <3>1, SMT DEF KeepsNote, ReleaseVoice, IInv, TypeOK
    <3>2. CASE i # j
      <4>1. reg'[i] = reg[i]
        BY <2>2, <3>2, SMT DEF ReleaseVoice, IInv, TypeOK
      <4>2. QED
        BY <4>1, SameRegister, Zenon DEF IInv
    <3>3. QED
      BY <3>1, <3>2
  <2>3. QED
    BY <1>3, <2>1, <2>2, Zenon DEF NoteOff
<1>4. CASE ClearVoices
  BY <1>4, SMT DEF ClearVoices, KeepsNote
<1>5. QED
  BY <1>1, <1>2, <1>3, <1>4, Zenon
     DEF Handle, NoteOn, DropFirstNote, IgnoreNote, OtherPacket, PitchWheel,
         Knob, MuteButton

\* Nor does the decay pass, except to lower the volume of the voice it is at,
\* to no less than the sustain level (main.cpp:189-190).
LEMMA DecayKeepsNotes ==
  ASSUME IInv, DecayVoice, NEW i \in Voice
  PROVE  KeepsNote(i)
<1>1. idx \in Voice /\ sustain_level \in Byte /\ TypeOK
  BY DEF IInv, TypeOK
<1>2. CASE i # idx
  <2>1. reg'[i] = reg[i]
    BY <1>1, <1>2, DecayVoiceCases, SMT DEF TypeOK, ReleaseVoice, voices
  <2>2. QED
    BY <1>1, <2>1, SameRegister, Zenon
<1>3. CASE i = idx
  <2>1. CASE UNCHANGED <<voices, muted>>
    BY <1>1, <2>1, SameRegister, SMT DEF voices
  <2>2. CASE ReleaseVoice(idx)
    BY <1>1, <1>3, <2>2, SMT DEF ReleaseVoice, KeepsNote, TypeOK
  <2>3. CASE /\ VolOf(reg[idx]) > sustain_level
             /\ reg' = [reg EXCEPT ![idx] = @ - 1]
    <3>1. reg'[i] = reg[i] - 1
      BY <1>1, <1>3, <2>3, SMT DEF TypeOK
    <3>2. reg[i] \in Register /\ VolOf(reg[i]) > 0
      BY <1>1, <1>3, <2>3, LoweredType, Zenon
    <3>3. /\ NoteOf(reg'[i]) = NoteOf(reg[i])
          /\ VolOf(reg'[i]) = VolOf(reg[i]) - 1
      BY <3>1, <3>2, LowerStep, Zenon
    <3>4. VolOf(reg[i]) \in Byte /\ VolOf(reg[i]) > sustain_level
      BY <1>3, <2>3, <3>2, VolByte, Zenon
    <3>5. QED
      BY <1>1, <3>3, <3>4, SMT DEF KeepsNote, Byte
  <2>4. QED
    BY <2>1, <2>2, <2>3, DecayVoiceCases, Zenon
<1>4. QED
  BY <1>2, <1>3

\* From Note On to its release a voice keeps its pitch, never gets louder and
\* is never lowered below the sustain level, for every number of voices,
\* clock width and packet set.
THEOREM VoicesAreStable == Spec => VoiceStable
<1>1. ASSUME IInv, [Next]_vars
      PROVE  [\A i \in Voice : KeepsNote(i)]_vars
  <2> SUFFICES ASSUME Next, NEW i \in Voice PROVE KeepsNote(i)
    BY <1>1, Zenon
  <2> USE <1>1
  <2>1. ASSUME NEW p \in Packets, Handle(p) PROVE KeepsNote(i)
    BY <2>1, HandleKeepsNotes, PacketsArePackets
  <2>2. CASE DecayVoice
    BY <2>2, DecayKeepsNotes
  <2>3. CASE TaskReady \/ TaskNoMidi \/ RecvNothing \/ Tick
    <3>1. UNCHANGED voices
      BY <2>3, Zenon DEF TaskReady, TaskNoMidi, RecvNothing, Tick, BeginDecay
    <3>2. QED
      BY <3>1, SameRegister, SMT DEF voices, IInv
  <2>4. QED
    BY <2>1, <2>2, <2>3, Zenon DEF Next, Loop
<1>2. QED
  BY <1>1, Invariance, PTL DEF Spec, VoiceStable

(***************************************************************************)
(* The decay is not too fast: the age that the allocator computes with is  *)
(* never more than the true time since the voice was started or changed.   *)
(* No voice inherits the clock of an earlier note, and the wrap of the     *)
(* clock only makes a voice look younger.                                  *)
(***************************************************************************)
Aged(i) == used[i] => age[i] <= since[i] \/ since[i] = MaxSince

ClockInv ==
  /\ IInv
  /\ since \in [Voice -> 0..MaxSince]
  /\ \A i \in Voice : Aged(i)

SameVoice(i) == age'[i] = age[i] /\ reg'[i] = reg[i] /\ used'[i] = used[i]

\* A step of the loop or of a handler restarts the clock of every voice that it
\* starts or changes (main.cpp:109, 188).
LEMMA ClockRestarts ==
  ASSUME IInv, Loop \/ \E p \in Packets : Handle(p), NEW i \in Voice, used'[i]
  PROVE  age'[i] = 0 \/ SameVoice(i)
<1> USE DEF SameVoice
<1>1. /\ reg \in [Voice -> Register] /\ used \in [Voice -> BOOLEAN]
      /\ age \in [Voice -> Word] /\ idx \in Voice
  BY DEF IInv, TypeOK
<1>2. CASE UNCHANGED <<voices, age>>
  BY <1>2 DEF voices
<1>3. ASSUME NEW p \in Packets, StartNote(p)
      PROVE  age'[i] = 0 \/ SameVoice(i)
  <2>1. PICK j \in Voice : /\ used' = [used EXCEPT ![j] = TRUE]
                           /\ reg' = [reg EXCEPT ![j] = Pack(p.d1, p.d2)]
                           /\ age' = [age EXCEPT ![j] = 0]
    BY <1>3, Zenon DEF StartNote, StampClock
  <2>2. QED
    BY <1>1, <2>1, Zenon
<1>4. ASSUME NEW j \in Voice, ReleaseVoice(j), UNCHANGED age \/ StampClock(j)
      PROVE  SameVoice(i)
  <2>1. i # j
    BY <1>1, <1>4, Zenon DEF ReleaseVoice
  <2>2. QED
    BY <1>1, <1>4, <2>1, Zenon DEF ReleaseVoice, StampClock
<1>5. ~ClearVoices
  BY Zenon DEF ClearVoices
<1>6. ASSUME NEW p \in Packets, Handle(p)
      PROVE  age'[i] = 0 \/ SameVoice(i)
  BY <1>2, <1>3, <1>4, <1>5, <1>6, Zenon
     DEF Handle, NoteOn, DropFirstNote, IgnoreNote, NoteOff, OtherPacket, PitchWheel,
         Knob, MuteButton
<1>7. CASE DecayVoice
  <2>1. CASE StampClock(idx)
    <3>1. CASE i = idx
      BY <1>1, <2>1, <3>1, Zenon DEF StampClock
    <3>2. CASE i # idx
      <4>1. age'[i] = age[i]
        BY <1>1, <2>1, <3>2, Zenon DEF StampClock
      <4>2. reg'[i] = reg[i] /\ used'[i] = used[i]
        BY <1>1, <1>7, <3>2, DecayVoiceCases, Zenon DEF ReleaseVoice, voices
      <4>3. QED
        BY <4>1, <4>2
    <3>3. QED
      BY <3>1, <3>2
  <2>2. CASE ~StampClock(idx)
    <3>1. UNCHANGED <<voices, age>>
      BY <1>7, <2>2, Zenon DEF DecayVoice
    <3>2. QED
      BY <1>2, <3>1
  <2>3. QED
    BY <2>1, <2>2
<1>8. CASE TaskReady \/ TaskNoMidi \/ RecvNothing
  BY <1>2, <1>8, Zenon DEF TaskReady, TaskNoMidi, RecvNothing, BeginDecay
<1>9. QED
  BY <1>6, <1>7, <1>8, Zenon DEF Loop

\* A step with its history is a step of the allocator.
LEMMA ClockStep == [ClockNext]_clockVars => [Next]_vars
BY Zenon DEF ClockNext, Next, clockVars

LEMMA ClockInductive == ClockInv /\ [ClockNext]_clockVars => ClockInv'
<1> SUFFICES ASSUME ClockInv, [ClockNext]_clockVars PROVE ClockInv'
  OBVIOUS
<1>1. IInv'
  BY StepIInv, ClockStep DEF ClockInv
<1>2. /\ MaxSince \in Nat /\ WordMod \in Nat \ {0}
      /\ age \in [Voice -> Word] /\ since \in [Voice -> 0..MaxSince]
  BY ClockAssumption, SynthAssumption DEF ClockInv, IInv, TypeOK
<1>3. CASE /\ Tick
           /\ since' = [i \in Voice |-> IF since[i] < MaxSince THEN since[i] + 1 ELSE MaxSince]
  <2>1. since' \in [Voice -> 0..MaxSince]
    BY <1>2, <1>3, SMT
  <2>2. ASSUME NEW i \in Voice PROVE Aged(i)'
    <3>1. used'[i] = used[i] /\ age'[i] = (age[i] + 1) % WordMod
      BY <1>3 DEF Tick, voices
    <3>2. age'[i] <= age[i] + 1
      BY <1>2, <3>1, SMT DEF Word
    <3>3. age'[i] \in Int /\ age[i] \in Int /\ since[i] \in 0..MaxSince
      BY <1>2, <3>1, SMT DEF Word
    <3>4. since'[i] = IF since[i] < MaxSince THEN since[i] + 1 ELSE MaxSince
      BY <1>3
    <3>5. used[i] => age[i] <= since[i] \/ since[i] = MaxSince
      BY DEF ClockInv, Aged
    <3>6. used[i] => age'[i] <= since'[i] \/ since'[i] = MaxSince
      BY <1>2, <3>2, <3>3, <3>4, <3>5, SMT
    <3>7. QED
      BY <3>1, <3>6 DEF Aged
  <2>3. QED
    BY <1>1, <2>1, <2>2 DEF ClockInv
<1>4. CASE /\ Loop \/ \E p \in Packets : Handle(p)
           /\ since' = [i \in Voice |-> IF Touched(i) THEN 0 ELSE since[i]]
  <2>1. since' \in [Voice -> 0..MaxSince]
    <3>1. 0 \in 0..MaxSince
      BY <1>2, SMT
    <3>2. QED
      BY <1>2, <1>4, <3>1, Zenon
  <2>2. ASSUME NEW i \in Voice, used'[i] PROVE age'[i] <= since'[i] \/ since'[i] = MaxSince
    <3>1. age'[i] = 0 \/ SameVoice(i)
      BY <1>4, <2>2, ClockRestarts, Zenon DEF ClockInv
    <3>2. since'[i] = IF Touched(i) THEN 0 ELSE since[i]
      BY <1>4
    <3>3. since'[i] \in 0..MaxSince
      BY <2>1
    <3>4. CASE age'[i] = 0
      BY <1>2, <3>3, <3>4, SMT
    <3>5. CASE SameVoice(i)
      <4>1. since'[i] = since[i]
        BY <3>2, <3>5 DEF SameVoice, Touched
      <4>2. age[i] <= since[i] \/ since[i] = MaxSince
        BY <2>2, <3>5 DEF ClockInv, Aged, SameVoice
      <4>3. QED
        BY <3>5, <4>1, <4>2 DEF SameVoice
    <3>6. QED
      BY <3>1, <3>4, <3>5
  <2>3. QED
    BY <1>1, <2>1, <2>2 DEF ClockInv, Aged
<1>5. CASE UNCHANGED clockVars
  BY <1>1, <1>5 DEF clockVars, vars, ClockInv, Aged
<1>6. QED
  BY <1>3, <1>4, <1>5 DEF ClockNext

LEMMA ClockAlways == ClockSpec => []ClockInv
<1>1. ClockInit => ClockInv
  <2> SUFFICES ASSUME ClockInit PROVE ClockInv
    OBVIOUS
  <2>1. IInv
    BY InitIInv DEF ClockInit
  <2>2. since \in [Voice -> 0..MaxSince]
    BY ClockAssumption, SMT DEF ClockInit
  <2>3. \A i \in Voice : ~used[i]
    BY DEF ClockInit, Init
  <2>4. QED
    BY <2>1, <2>2, <2>3 DEF ClockInv, Aged
<1>2. QED
  BY <1>1, ClockInductive, PTL DEF ClockSpec

\* What the allocator computes is at most twice the age, in half ticks.
LEMMA ElapsedBound ==
  ASSUME NEW i \in Voice, age[i] \in Word
  PROVE  /\ Elapsed(i) \in Nat /\ Elapsed(i) <= 2 * age[i]
         /\ Elapsed(i) <= (WordMod - 1) \div TicksPerSec
<1> DEFINE T == TicksPerSec
           n == 2 * age[i]
           m == (n * T) % WordMod
<1>1. T \in Nat /\ T > 0 /\ WordMod \in Nat /\ WordMod > 0 /\ n \in Nat
  BY SynthAssumption, SMT DEF Word
<1>2. n * T \in Nat
  BY <1>1, SMT
<1>3. (2 * TicksPerSec * age[i]) = n * T
  BY <1>1, SMT DEF Word
<1>4. m \in Nat /\ m <= n * T /\ m <= WordMod - 1
  BY <1>1, <1>2, SMT
<1>5. Elapsed(i) = m \div T
  BY <1>3 DEF Elapsed
<1> HIDE DEF T, n, m
<1>6. m \div T \in Nat /\ m \div T <= (WordMod - 1) \div T
  BY <1>1, <1>4, SMT
<1>7. m \div T <= n
  BY <1>1, <1>4, SMT
<1>8. QED
  BY <1>5, <1>6, <1>7 DEF T, n

\* The volume of a voice is lowered only by the decay pass, when the voice is
\* old enough.
LEMMA LoweredWhenDue ==
  ASSUME IInv, Next, NEW i \in Voice, used[i], used'[i], VolOf(reg'[i]) < VolOf(reg[i])
  PROVE  DecayDue(i)
<1>1. VolOf(reg[i]) \in Int /\ reg[i] # reg'[i]
  <2>1. VolOf(reg[i]) \in Byte
    BY VolByte DEF IInv, TypeOK
  <2>2. VolOf(reg[i]) \in Int
    BY <2>1, SMT DEF Byte
  <2>3. QED
    BY <2>2, SMT
<1>2. CASE UNCHANGED voices
  BY <1>1, <1>2 DEF voices
<1>3. ASSUME NEW p \in Packets, StartNote(p) PROVE FALSE
  <2>1. PICK j \in Voice : ~used[j] /\ reg' = [reg EXCEPT ![j] = Pack(p.d1, p.d2)]
    BY <1>3, Zenon DEF StartNote, FirstFree
  <2>2. QED
    BY <1>1, <2>1, Zenon DEF IInv, TypeOK
<1>4. ASSUME NEW j \in Voice, ReleaseVoice(j) PROVE FALSE
  <2>1. i # j
    BY <1>4, Zenon DEF ReleaseVoice, IInv, TypeOK
  <2>2. QED
    BY <1>1, <1>4, <2>1, Zenon DEF ReleaseVoice, IInv, TypeOK
<1>5. ~ClearVoices
  BY Zenon DEF ClearVoices
<1>6. ASSUME NEW p \in Packets, Handle(p) PROVE DecayDue(i)
  BY <1>2, <1>3, <1>4, <1>5, <1>6, Zenon
     DEF Handle, NoteOn, DropFirstNote, IgnoreNote, NoteOff, OtherPacket, PitchWheel,
         Knob, MuteButton
<1>7. CASE DecayVoice
  <2>1. CASE i = idx
    BY <1>2, <1>7, <2>1, Zenon DEF DecayVoice
  <2>2. CASE i # idx
    <3>1. reg'[i] = reg[i]
      BY <1>7, <2>2, DecayVoiceCases, Zenon DEF ReleaseVoice, voices, IInv, TypeOK
    <3>2. QED
      BY <1>1, <3>1
  <2>3. QED
    BY <2>1, <2>2
<1>8. CASE TaskReady \/ TaskNoMidi \/ RecvNothing \/ Tick
  BY <1>2, <1>8, Zenon DEF TaskReady, TaskNoMidi, RecvNothing, Tick, BeginDecay
<1>9. QED
  BY <1>6, <1>7, <1>8, Zenon DEF Next, Loop

\* Between two decrements of a voice, and between its Note On and the first,
\* at least half of ms_to_dec ticks pass, whatever packets come between, however
\* often the slot was taken before, and although the clock wraps.
THEOREM DecayIsNotTooFast == ClockSpec => NotTooFast
<1>1. ASSUME ClockInv, [ClockNext]_clockVars
      PROVE  [\A i \in Voice :
                used[i] /\ used'[i] /\ VolOf(reg'[i]) < VolOf(reg[i])
                  => 2 * since[i] >= ms_to_dec]_clockVars
  <2> SUFFICES ASSUME ClockNext, NEW i \in Voice,
                      used[i], used'[i], VolOf(reg'[i]) < VolOf(reg[i])
               PROVE  2 * since[i] >= ms_to_dec
    BY <1>1, Zenon
  <2>1. Next
    BY Zenon DEF ClockNext, Next
  <2>2. Elapsed(i) >= ms_to_dec
    BY <1>1, <2>1, LoweredWhenDue DEF ClockInv, DecayDue
  <2>3. age[i] \in Word /\ ms_to_dec \in Word /\ since[i] \in 0..MaxSince
    BY <1>1 DEF ClockInv, IInv, TypeOK
  <2>4. /\ Elapsed(i) \in Nat /\ Elapsed(i) <= 2 * age[i]
        /\ Elapsed(i) <= (WordMod - 1) \div TicksPerSec
    BY <2>3, ElapsedBound
  <2>5. age[i] <= since[i] \/ since[i] = MaxSince
    BY <1>1 DEF ClockInv, Aged
  <2>6. age[i] \in Int /\ ms_to_dec \in Int /\ since[i] \in Int /\ MaxSince \in Int
    BY <2>3, ClockAssumption, SMT DEF Word
  <2>7. CASE age[i] <= since[i]
    BY <2>2, <2>4, <2>6, <2>7, SMT
  <2>8. CASE since[i] = MaxSince
    <3> DEFINE q == (WordMod - 1) \div TicksPerSec
    <3>1. 2 * MaxSince >= q /\ q \in Int
      BY ClockAssumption, SynthAssumption, SMT
    <3> HIDE DEF q
    <3>2. Elapsed(i) <= q
      BY <2>4 DEF q
    <3>3. QED
      BY <2>2, <2>4, <2>6, <2>8, <3>1, <3>2, SMT
  <2>9. QED
    BY <2>5, <2>7, <2>8
<1>2. QED
  BY <1>1, ClockAlways, PTL DEF ClockSpec, NotTooFast

(***************************************************************************)
(* The keyboard, with every set of keys without note 0.  Note 0 has to be  *)
(* left out: a free register looks like note 0 to the search of Note Off,  *)
(* and with it the theorems are false.                                     *)
(***************************************************************************)

(***************************************************************************)
(* What the keyboard sends.                                                *)
(***************************************************************************)
NotePackets ==
  {OnPacket(k, v) : k \in Keys, v \in Velocity} \cup {OffPacket(k) : k \in Keys}

WirePacket == Controls \cup NotePackets

\* The packets on the wire are MIDI packets, and those of the notes and of the
\* controls are told apart by their status.
LEMMA WirePackets ==
  /\ WirePacket \subseteq Packet
  /\ \A p \in WirePacket : p.st \in {8, 9} => p \in NotePackets /\ p.d1 \in Keys
  /\ \A p \in WirePacket : p.st \in {8, 9, 11, 14}
<1>1. ASSUME NEW p \in Controls
      PROVE  p \in Packet /\ p.st \in {11, 14}
  BY KeysAssumption, SMT DEF Packet, Byte
<1>2. ASSUME NEW p \in NotePackets
      PROVE  p \in Packet /\ p.st \in {8, 9} /\ p.d1 \in Keys
  <2>1. \A k \in Keys : k \in Byte
    BY KeysAssumption, SMT DEF Byte
  <2>2. ASSUME NEW k \in Keys, NEW v \in Velocity
        PROVE  OnPacket(k, v) \in Packet /\ OnPacket(k, v).st = 9 /\ OnPacket(k, v).d1 = k
    <3>1. v \in Byte
      BY KeysAssumption, SMT DEF Byte
    <3>2. QED
      BY <2>1, <3>1, SMT DEF OnPacket, Packet
  <2>3. ASSUME NEW k \in Keys
        PROVE  OffPacket(k) \in Packet /\ OffPacket(k).st = 8 /\ OffPacket(k).d1 = k
    <3>1. 0 \in Byte
      BY SMT DEF Byte
    <3>2. QED
      BY <2>1, <3>1, SMT DEF OffPacket, Packet
  <2>4. CASE p \in {OnPacket(k, v) : k \in Keys, v \in Velocity}
    <3>1. PICK k \in Keys, v \in Velocity : p = OnPacket(k, v)
      BY <2>4
    <3>2. QED
      BY <2>2, <3>1
  <2>5. CASE p \in {OffPacket(k) : k \in Keys}
    <3>1. PICK k \in Keys : p = OffPacket(k)
      BY <2>5
    <3>2. QED
      BY <2>3, <3>1
  <2>6. QED
    BY <2>4, <2>5 DEF NotePackets
<1>3. \A p \in WirePacket : p \in Controls \/ p \in NotePackets
  BY DEF WirePacket
<1>4. ASSUME NEW p \in WirePacket
      PROVE  /\ p \in Packet /\ p.st \in {8, 9, 11, 14}
             /\ p.st \in {8, 9} => p \in NotePackets /\ p.d1 \in Keys
  <2>1. CASE p \in Controls
    <3>1. p \in Packet /\ p.st \in {11, 14}
      BY <1>1, <2>1
    <3>2. QED
      BY <3>1, SMT
  <2>2. CASE p \in NotePackets
    BY <1>2, <2>2, Zenon
  <2>3. QED
    BY <1>3, <2>1, <2>2
<1>5. QED
  BY <1>4, Zenon

\* The keys that are down after the packet p, when those of s were before.
After(s, p) ==
  CASE p.st = 9 -> s \cup {p.d1}
    [] p.st = 8 -> s \ {p.d1}
    [] OTHER    -> s

\* A key goes down only when it is up, and up only when it is down.
InTurn(s, p) == /\ p.st = 9 => p.d1 \notin s
                /\ p.st = 8 => p.d1 \in s

(***************************************************************************)
(* The inductive invariant.  The wire leads from the keys the firmware was *)
(* last told are down to the keys the player holds: told[i] are the keys   *)
(* that will be down after i more packets.                                 *)
(***************************************************************************)
Leads(told, w, s, t) ==
  /\ told \in [0..Len(w) -> SUBSET Keys]
  /\ told[0] = s /\ told[Len(w)] = t
  /\ \A i \in 1..Len(w) :
       InTurn(told[i - 1], w[i]) /\ told[i] = After(told[i - 1], w[i])

WireInv ==
  /\ wire \in Seq(WirePacket)
  /\ \E told : Leads(told, wire, down, held)

KInv == IInv /\ WireInv /\ OneVoicePerKey

\* One more packet at the end of the wire.
LEMMA WireGrows ==
  ASSUME WireInv, NEW p \in WirePacket, InTurn(held, p), After(held, p) \subseteq Keys,
         wire' = Append(wire, p), held' = After(held, p), down' = down
  PROVE  WireInv'
<1> DEFINE l == Len(wire)
<1>1. PICK told : Leads(told, wire, down, held)
  BY DEF WireInv
<1>2. l \in Nat /\ wire \in Seq(WirePacket)
  BY LenProperties, Zenon DEF WireInv
<1>3. /\ wire' \in Seq(WirePacket) /\ Len(wire') = l + 1
      /\ \A i \in 1..l : wire'[i] = wire[i]
      /\ wire'[l + 1] = p
  <2> DEFINE longer == Append(wire, p)
  <2>1. /\ longer \in Seq(WirePacket) /\ Len(longer) = l + 1
        /\ \A i \in 1..l : longer[i] = wire[i]
        /\ longer[l + 1] = p
    BY <1>2, AppendProperties
  <2>2. QED
    BY <2>1, Zenon
<1> DEFINE now == [i \in 0..l + 1 |-> IF i = l + 1 THEN held' ELSE told[i]]
<1>4. /\ told \in [0..l -> SUBSET Keys] /\ told[0] = down /\ told[l] = held
      /\ \A i \in 1..l : InTurn(told[i - 1], wire[i]) /\ told[i] = After(told[i - 1], wire[i])
  BY <1>1, Zenon DEF Leads
<1> HIDE DEF l
<1>5. now \in [0..l + 1 -> SUBSET Keys] /\ now[l + 1] = held' /\ now[0] = told[0]
      /\ \A i \in 0..l : now[i] = told[i]
  BY <1>2, <1>4, SMT
<1> HIDE DEF now
<1>6. ASSUME NEW i \in 1..l + 1
      PROVE  InTurn(now[i - 1], wire'[i]) /\ now[i] = After(now[i - 1], wire'[i])
  <2>1. CASE i = l + 1
    <3>1. now[i - 1] = held /\ wire'[i] = p /\ now[i] = held'
      <4>1. i - 1 = l /\ l \in 0..l
        BY <1>2, <2>1, SMT
      <4>2. QED
        BY <1>3, <1>4, <1>5, <2>1, <4>1, Zenon
    <3>2. QED
      BY <3>1, Zenon
  <2>2. CASE i # l + 1
    <3>1. i \in 1..l /\ i - 1 \in 0..l /\ i \in 0..l
      BY <1>2, <2>2, SMT
    <3>2. QED
      BY <1>3, <1>4, <1>5, <3>1, Zenon
  <2>3. QED
    BY <2>1, <2>2
<1>7. Leads(now, wire', down', held')
  BY <1>3, <1>4, <1>5, <1>6, Zenon DEF Leads
<1>8. QED
  BY <1>3, <1>7, Zenon DEF WireInv

\* The first packet taken off the wire.
LEMMA WireShrinks ==
  ASSUME WireInv, wire # <<>>, wire' = Tail(wire), down' = After(down, Head(wire)),
         held' = held
  PROVE  /\ WireInv' /\ Head(wire) \in WirePacket /\ InTurn(down, Head(wire))
         /\ down \subseteq Keys /\ down' \subseteq Keys
<1> DEFINE l == Len(wire)
<1>1. PICK told : Leads(told, wire, down, held)
  BY DEF WireInv
<1>2. l \in Nat /\ wire \in Seq(WirePacket) /\ l > 0 /\ Head(wire) = wire[1]
  BY SMT DEF WireInv
<1>3. /\ wire' \in Seq(WirePacket) /\ Len(wire') = l - 1
      /\ \A i \in 1..Len(wire') : wire'[i] = wire[i + 1]
      /\ Head(wire) \in WirePacket
  BY <1>2, HeadTailProperties, Zenon
<1> DEFINE now == [i \in 0..l - 1 |-> told[i + 1]]
<1>4. /\ told \in [0..l -> SUBSET Keys] /\ told[0] = down /\ told[l] = held
      /\ \A i \in 1..l : InTurn(told[i - 1], wire[i]) /\ told[i] = After(told[i - 1], wire[i])
  BY <1>1, Zenon DEF Leads
<1> HIDE DEF l
<1>5. InTurn(down, wire[1]) /\ told[1] = After(down, wire[1])
  <2>1. 1 \in 1..l /\ 1 - 1 = 0
    BY <1>2, SMT
  <2>2. QED
    BY <1>4, <2>1
<1>6. now \in [0..l - 1 -> SUBSET Keys] /\ now[0] = told[1] /\ now[l - 1] = told[l]
      /\ \A i \in 0..l - 1 : now[i] = told[i + 1]
  BY <1>2, <1>4, SMT
<1> HIDE DEF now
<1>7. ASSUME NEW i \in 1..l - 1
      PROVE  InTurn(now[i - 1], wire'[i]) /\ now[i] = After(now[i - 1], wire'[i])
  <2>1. i + 1 \in 1..l /\ (i + 1) - 1 = i /\ i - 1 \in 0..l - 1 /\ i \in 0..l - 1
        /\ (i - 1) + 1 = i
    BY <1>2, SMT
  <2>2. InTurn(told[i], wire[i + 1]) /\ told[i + 1] = After(told[i], wire[i + 1])
    BY <1>4, <2>1
  <2>3. now[i - 1] = told[i] /\ now[i] = told[i + 1] /\ wire'[i] = wire[i + 1]
    BY <1>3, <1>6, <2>1
  <2>4. QED
    BY <2>2, <2>3
<1>8. Leads(now, wire', down', held')
  BY <1>2, <1>3, <1>4, <1>5, <1>6, <1>7, Zenon DEF Leads
<1>9. WireInv'
  BY <1>3, <1>8, Zenon DEF WireInv
<1>10. down \in SUBSET Keys /\ down' \in SUBSET Keys
  <2>1. 0 \in 0..l /\ 1 \in 0..l
    BY <1>2, SMT
  <2>2. told[0] \in SUBSET Keys /\ told[1] \in SUBSET Keys
    BY <1>4, <2>1, Zenon
  <2>3. told[0] = down /\ told[1] = down'
    BY <1>2, <1>4, <1>5
  <2>4. QED
    BY <2>2, <2>3
<1>11. QED
  BY <1>2, <1>3, <1>5, <1>9, <1>10

\* What the player holds is a set of keys.
LEMMA HeldAreKeys == ASSUME WireInv PROVE held \subseteq Keys /\ down \subseteq Keys
<1>1. PICK told : Leads(told, wire, down, held)
  BY DEF WireInv
<1>2. 0 \in 0..Len(wire) /\ Len(wire) \in 0..Len(wire)
  BY SMT DEF WireInv
<1>3. QED
  BY <1>1, <1>2, Zenon DEF Leads

(***************************************************************************)
(* The voices.                                                             *)
(***************************************************************************)

\* The note a voice sounds.
Note(i) == NoteOf(reg[i])

\* A free register looks like note 0.
LEMMA FreeLooksLikeZero == NoteOf(0) = 0
  BY SMT DEF NoteOf

\* The search of Note Off finds the voice that sounds a key, and no other,
\* unless the key is note 0 (main.cpp:112-120).
LEMMA MatchIsUsed ==
  ASSUME IInv, 0 \notin Keys, NEW k \in Keys, NEW i \in Voice, FirstMatch(i, k)
  PROVE  used[i] /\ Note(i) = k
<1>1. Note(i) = k
  BY DEF FirstMatch, Note
<1>2. k # 0
  OBVIOUS
<1>3. reg[i] # 0
  BY <1>1, <1>2, FreeLooksLikeZero, Zenon DEF Note
<1>4. QED
  BY <1>1, <1>3, Zenon DEF IInv, FreeIsSilent

\* If it finds none, no voice sounds the key.
LEMMA NoMatchNoVoice ==
  ASSUME NEW k, \A i \in Voice : ~FirstMatch(i, k), NEW i \in Voice
  PROVE  Note(i) # k
<1> DEFINE T == {j \in Voice : Note(j) = k}
<1>1. SUFFICES ASSUME T # {} PROVE FALSE
  BY Zenon
<1>2. T \subseteq Nat
  BY SynthAssumption, SMT DEF Voice
<1>3. PICK j \in T : \A m \in T : j <= m
  BY <1>1, <1>2, LeastNat, Zenon
<1>4. FirstMatch(j, k)
  <2>1. \A m \in Voice : m < j => Note(m) # k
    <3> SUFFICES ASSUME NEW m \in Voice, m < j, Note(m) = k PROVE FALSE
      OBVIOUS
    <3>1. m \in T /\ j \in Nat /\ m \in Nat
      BY <1>2
    <3>2. j <= m
      BY <1>3, <3>1
    <3>3. QED
      BY <3>1, <3>2, SMT
  <2>2. QED
    BY <2>1, Zenon DEF FirstMatch, Note
<1>5. QED
  BY <1>4

\* If the search of Note On finds no free slot, every voice is taken
\* (main.cpp:99-101).
LEMMA NoFreeAllUsed ==
  ASSUME \A i \in Voice : ~FirstFree(i), NEW i \in Voice
  PROVE  used[i]
<1> DEFINE T == {j \in Voice : ~used[j]}
<1>1. SUFFICES ASSUME T # {} PROVE FALSE
  BY Zenon
<1>2. T \subseteq Nat
  BY SynthAssumption, SMT DEF Voice
<1>3. PICK j \in T : \A m \in T : j <= m
  BY <1>1, <1>2, LeastNat, Zenon
<1>4. FirstFree(j)
  <2>1. \A m \in Voice : m < j => used[m]
    <3> SUFFICES ASSUME NEW m \in Voice, m < j, ~used[m] PROVE FALSE
      OBVIOUS
    <3>1. m \in T /\ j \in Nat /\ m \in Nat
      BY <1>2
    <3>2. j <= m
      BY <1>3, <3>1
    <3>3. QED
      BY <3>1, <3>2, SMT
  <2>2. QED
    BY <2>1, Zenon DEF FirstFree
<1>5. QED
  BY <1>4

(***************************************************************************)
(* What the handlers do to the voices, seen by the player: the notes that  *)
(* sound, and whether each has one voice.                                  *)
(***************************************************************************)
Sounds == {NoteOf(reg[i]) : i \in {j \in Voice : used[j]}}

\* The invariant of the player in terms of Note.
LEMMA OneVoice ==
  OneVoicePerKey <=> /\ \A i \in Voice : used[i] => Note(i) \in down
                     /\ \A i, j \in Voice :
                          used[i] /\ used[j] /\ Note(j) = Note(i) => i = j
  BY Zenon DEF OneVoicePerKey, Note

\* The notes that sound in terms of Note.
LEMMA InSounds == \A k : k \in Sounds <=> \E i \in Voice : used[i] /\ Note(i) = k
  BY Zenon DEF Sounds, Note

\* A voice taken for a key that was up.
LEMMA TakeVoice ==
  ASSUME IInv, OneVoicePerKey, NEW i \in Voice, NEW k \in Byte, NEW v \in Byte,
         ~used[i], k \notin down, down' = down \cup {k},
         used' = [used EXCEPT ![i] = TRUE], reg' = [reg EXCEPT ![i] = Pack(k, v)]
  PROVE  OneVoicePerKey' /\ Sounds' = Sounds \cup {k}
<1>1. Note(i)' = k /\ used'[i]
  <2>1. reg'[i] = Pack(k, v) /\ used'[i] = TRUE
    BY DEF IInv, TypeOK
  <2>2. QED
    BY <2>1, PackRegister, Zenon DEF Note
<1>2. \A j \in Voice : j # i => Note(j)' = Note(j) /\ (used'[j] <=> used[j])
  BY Zenon DEF IInv, TypeOK, Note
<1>3. \A j \in Voice : used[j] => Note(j) # k
  BY OneVoice, Zenon
<1>4. OneVoicePerKey'
  <2>1. \A j \in Voice : used'[j] => Note(j)' \in down'
    BY <1>1, <1>2, OneVoice, Zenon
  <2>2. ASSUME NEW j \in Voice, NEW m \in Voice, used'[j], used'[m], Note(m)' = Note(j)'
        PROVE  j = m
    BY <1>1, <1>2, <1>3, <2>2, OneVoice, Zenon
  <2>3. QED
    BY <2>1, <2>2, Zenon DEF OneVoicePerKey, Note
<1>5. ASSUME NEW x
      PROVE  x \in Sounds' <=> x \in Sounds \cup {k}
  <2>1. x \in Sounds' <=> \E j \in Voice : used'[j] /\ Note(j)' = x
    BY Zenon DEF Sounds, Note
  <2>2. x \in Sounds <=> \E j \in Voice : used[j] /\ Note(j) = x
    BY InSounds, Zenon
  <2>3. QED
    BY <1>1, <1>2, <2>1, <2>2, Zenon
<1>6. QED
  BY <1>4, <1>5, Zenon

\* The one voice of a note released: the note is silent, the others sound on.
LEMMA FreeVoice ==
  ASSUME IInv, OneVoicePerKey, NEW i \in Voice, used[i], ReleaseVoice(i),
         down' \in {down, down \ {Note(i)}}
  PROVE  OneVoicePerKey' /\ Sounds' = Sounds \ {Note(i)}
<1>1. ~used'[i]
  BY Zenon DEF IInv, TypeOK, ReleaseVoice
<1>2. \A j \in Voice : j # i => Note(j)' = Note(j) /\ (used'[j] <=> used[j])
  BY Zenon DEF IInv, TypeOK, Note, ReleaseVoice
<1>3. \A j \in Voice : used[j] /\ j # i => Note(j) # Note(i)
  BY OneVoice, Zenon
<1>4. OneVoicePerKey'
  <2>1. \A j \in Voice : used'[j] => Note(j)' \in down'
    BY <1>1, <1>2, <1>3, OneVoice, Zenon
  <2>2. ASSUME NEW j \in Voice, NEW m \in Voice, used'[j], used'[m], Note(m)' = Note(j)'
        PROVE  j = m
    BY <1>1, <1>2, <2>2, OneVoice, Zenon
  <2>3. QED
    BY <2>1, <2>2, Zenon DEF OneVoicePerKey, Note
<1>5. ASSUME NEW x
      PROVE  x \in Sounds' <=> x \in Sounds \ {Note(i)}
  <2>1. x \in Sounds' <=> \E j \in Voice : used'[j] /\ Note(j)' = x
    BY Zenon DEF Sounds, Note
  <2>2. x \in Sounds <=> \E j \in Voice : used[j] /\ Note(j) = x
    BY InSounds, Zenon
  <2>3. QED
    BY <1>1, <1>2, <1>3, <2>1, <2>2, Zenon
<1>6. QED
  BY <1>4, <1>5, Zenon

\* Voices that keep their notes.
LEMMA KeepVoices ==
  ASSUME OneVoicePerKey, \A i \in Voice : Note(i)' = Note(i) /\ (used'[i] <=> used[i]),
         \A i \in Voice : used[i] => Note(i) \in down'
  PROVE  OneVoicePerKey' /\ Sounds' = Sounds
<1>1. OneVoicePerKey'
  <2>1. \A j \in Voice : used'[j] => Note(j)' \in down'
    BY Zenon
  <2>2. ASSUME NEW j \in Voice, NEW m \in Voice, used'[j], used'[m], Note(m)' = Note(j)'
        PROVE  j = m
    BY <2>2, OneVoice, Zenon
  <2>3. QED
    BY <2>1, <2>2, Zenon DEF OneVoicePerKey, Note
<1>2. ASSUME NEW x
      PROVE  x \in Sounds' <=> x \in Sounds
  <2>1. x \in Sounds' <=> \E j \in Voice : used'[j] /\ Note(j)' = x
    BY Zenon DEF Sounds, Note
  <2>2. x \in Sounds <=> \E j \in Voice : used[j] /\ Note(j) = x
    BY InSounds, Zenon
  <2>3. QED
    BY <2>1, <2>2, Zenon
<1>3. QED
  BY <1>1, <1>2, Zenon

\* Voices that do not change at all.
LEMMA SameVoices ==
  ASSUME OneVoicePerKey, UNCHANGED voices,
         \A i \in Voice : used[i] => Note(i) \in down'
  PROVE  OneVoicePerKey' /\ Sounds' = Sounds
<1>1. \A i \in Voice : Note(i)' = Note(i) /\ (used'[i] <=> used[i])
  BY Zenon DEF Note, voices
<1>2. QED
  BY <1>1, KeepVoices, Zenon

\* The mute button.
LEMMA NoVoices ==
  ASSUME ClearVoices
  PROVE  OneVoicePerKey' /\ Sounds' = {}
<1>1. \A i \in Voice : ~used'[i]
  BY Zenon DEF ClearVoices
<1>2. OneVoicePerKey'
  BY <1>1, Zenon DEF OneVoicePerKey
<1>3. \A x : x \notin Sounds'
  BY <1>1, Zenon DEF Sounds
<1>4. QED
  BY <1>2, <1>3, Zenon

\* With one voice for each note there are as many notes as taken voices.
LEMMA SoundsCount ==
  ASSUME OneVoicePerKey
  PROVE  /\ (\E i \in Voice : ~used[i]) => Cardinality(Sounds) < NumNotes
         /\ (\A i \in Voice : used[i]) => Cardinality(Sounds) = NumNotes
<1> DEFINE U == {j \in Voice : used[j]}
           f == [i \in U |-> NoteOf(reg[i])]
<1>1. IsFiniteSet(Voice) /\ Cardinality(Voice) = NumNotes
  <2>1. 0 \in Int /\ NumNotes - 1 \in Int /\ ~(0 > NumNotes - 1)
        /\ (NumNotes - 1) - 0 + 1 = NumNotes
    BY SynthAssumption, SMT
  <2>2. QED
    BY <2>1, FS_Interval, Zenon DEF Voice
<1>2. U \in SUBSET Voice
  OBVIOUS
<1>3. /\ IsFiniteSet(U) /\ Cardinality(U) <= NumNotes
      /\ Cardinality(U) = NumNotes => U = Voice
  BY <1>1, <1>2, FS_Subset, Zenon
<1>4. f \in Surjection(U, Sounds)
  <2>1. \A i \in U : NoteOf(reg[i]) \in Sounds
    BY Zenon DEF Sounds
  <2>2. \A x \in Sounds : \E i \in U : f[i] = x
    BY Zenon DEF Sounds
  <2>3. f \in [U -> Sounds]
    BY <2>1, Zenon
  <2>4. QED
    BY <2>2, <2>3, Zenon DEF Surjection
<1>5. f \in Injection(U, Sounds)
  <2>1. \A i, j \in U : f[i] = f[j] => i = j
    BY OneVoice, Zenon DEF Note
  <2>2. f \in [U -> Sounds] /\ DOMAIN f = U
    BY <1>4, Zenon DEF Surjection
  <2>3. IsInjective(f)
    BY <2>1, <2>2, Zenon DEF IsInjective
  <2>4. QED
    BY <2>2, <2>3, Zenon DEF Injection
<1>6. Cardinality(Sounds) = Cardinality(U)
  BY <1>3, <1>4, <1>5, FS_Surjection, Zenon
<1>7. Cardinality(U) \in Nat
  BY <1>3, FS_CardinalityType, Zenon
<1>8. ASSUME NEW i \in Voice, ~used[i] PROVE Cardinality(U) # NumNotes
  BY <1>3, <1>8, Zenon
<1>9. (\E i \in Voice : ~used[i]) => Cardinality(U) < NumNotes
  BY <1>3, <1>7, <1>8, SynthAssumption, SMT
<1>10. (\A i \in Voice : used[i]) => Cardinality(U) = NumNotes
  <2>1. (\A i \in Voice : used[i]) => U = Voice
    BY Zenon
  <2>2. QED
    BY <1>1, <2>1, Zenon
<1>11. QED
  BY <1>6, <1>9, <1>10, Zenon

(***************************************************************************)
(* Each packet is a step of the polyphonic instrument.                     *)
(***************************************************************************)
Listening == ~first_note /\ ~muted

\* The instrument counts as the allocator does.
LEMMA SameCount == ASSUME NEW S PROVE Poly!Cardinality(S) = Cardinality(S)
  BY Zenon DEF Poly!Cardinality, Cardinality

\* A Note On starts a voice exactly when one is free and the synthesizer
\* listens, and otherwise changes nothing that sounds (main.cpp:89-110).
LEMMA OnIsKeyDown ==
  ASSUME KInv, NEW p \in WirePacket, p.st = 9, p.d1 \notin down,
         down' = down \cup {p.d1}, NoteOn(p)
  PROVE  OneVoicePerKey' /\ Poly!KeyDown(p.d1)
<1> DEFINE k == p.d1
<1>1. k \in Byte /\ p.d2 \in Byte
  BY WirePackets, SMT DEF Packet
<1>2. \A i \in Voice : used[i] => Note(i) \in down'
  BY OneVoice, Zenon DEF KInv
<1>3. CASE DropFirstNote(p)
  <2>1. OneVoicePerKey' /\ Sounds' = Sounds
    BY <1>2, <1>3, SameVoices, Zenon DEF DropFirstNote, KInv
  <2>2. ~Listening /\ Listening' \in {Listening, TRUE}
    BY <1>3, Zenon DEF DropFirstNote, Listening
  <2>3. QED
    BY <2>1, <2>2, Zenon DEF Poly!KeyDown, Sounds, Listening
<1>4. CASE StartNote(p)
  <2>1. PICK i \in Voice : /\ FirstFree(i)
                           /\ used' = [used EXCEPT ![i] = TRUE]
                           /\ reg' = [reg EXCEPT ![i] = Pack(k, p.d2)]
    BY <1>4, Zenon DEF StartNote
  <2>2. ~used[i]
    BY <2>1 DEF FirstFree
  <2>3. OneVoicePerKey' /\ Sounds' = Sounds \cup {k}
    BY <1>1, <2>1, <2>2, TakeVoice, Zenon DEF KInv
  <2>4. Cardinality(Sounds) < NumNotes
    BY <2>2, SoundsCount, Zenon DEF KInv
  <2>5. Listening /\ UNCHANGED Listening
    BY <1>4, Zenon DEF StartNote, Audible, settings, Listening
  <2>6. QED
    BY <2>3, <2>4, <2>5, SameCount, Zenon DEF Poly!KeyDown, Sounds, Listening
<1>5. CASE IgnoreNote(p)
  <2>1. OneVoicePerKey' /\ Sounds' = Sounds
    BY <1>2, <1>5, SameVoices, Zenon DEF IgnoreNote, KInv
  <2>2. UNCHANGED Listening
    BY <1>5, Zenon DEF IgnoreNote, settings, Listening
  <2>3. ~(Listening /\ Cardinality(Sounds) < NumNotes)
    <3>1. CASE muted
      BY <3>1 DEF Listening
    <3>2. CASE ~\E i \in Voice : FirstFree(i)
      <4>1. Cardinality(Sounds) = NumNotes
        BY <3>2, NoFreeAllUsed, SoundsCount, Zenon DEF KInv
      <4>2. ~(NumNotes < NumNotes)
        BY SynthAssumption, SMT
      <4>3. QED
        BY <4>1, <4>2
    <3>3. QED
      BY <1>5, <3>1, <3>2 DEF IgnoreNote
  <2>4. QED
    BY <2>1, <2>2, <2>3, SameCount, Zenon DEF Poly!KeyDown, Sounds, Listening
<1>6. QED
  BY <1>3, <1>4, <1>5 DEF NoteOn

\* A Note Off silences its key and nothing else (main.cpp:111-124).
LEMMA OffIsKeyUp ==
  ASSUME KInv, 0 \notin Keys, NEW p \in WirePacket, p.st = 8, p.d1 \in down,
         down' = down \ {p.d1}, NoteOff(p)
  PROVE  /\ OneVoicePerKey' /\ Poly!KeyUp(p.d1)
         /\ Sounds' = Sounds \ {p.d1}
<1> DEFINE k == p.d1
<1>1. k \in Keys
  BY WirePackets, Zenon
<1>2. UNCHANGED Listening
  BY Zenon DEF NoteOff, settings, Listening
<1>3. OneVoicePerKey' /\ Sounds' = Sounds \ {k}
  <2>1. ASSUME NEW i \in Voice, FirstMatch(i, k), ReleaseVoice(i)
        PROVE  OneVoicePerKey' /\ Sounds' = Sounds \ {k}
    <3>1. used[i] /\ Note(i) = k
      BY <1>1, <2>1, MatchIsUsed, Zenon DEF KInv
    <3>2. QED
      BY <2>1, <3>1, FreeVoice, Zenon DEF KInv
  <2>2. ASSUME \A i \in Voice : ~FirstMatch(i, k), UNCHANGED voices
        PROVE  OneVoicePerKey' /\ Sounds' = Sounds \ {k}
    <3>1. \A i \in Voice : Note(i) # k
      BY <2>2, NoMatchNoVoice, Zenon
    <3>2. \A i \in Voice : used[i] => Note(i) \in down'
      BY <3>1, OneVoice, Zenon DEF KInv
    <3>3. OneVoicePerKey' /\ Sounds' = Sounds
      BY <2>2, <3>2, SameVoices, Zenon DEF KInv
    <3>4. k \notin Sounds
      BY <3>1, InSounds, Zenon
    <3>5. QED
      BY <3>3, <3>4, Zenon
  <2>3. QED
    BY <2>1, <2>2, Zenon DEF NoteOff
<1>4. QED
  BY <1>2, <1>3, Zenon DEF Poly!KeyUp, Sounds, Listening

\* A control packet silences everything, makes the synthesizer listen again,
\* or is about something else.
LEMMA ControlIsHeard ==
  ASSUME KInv, NEW p \in WirePacket, p.st \notin {8, 9}, down' = down, Handle(p)
  PROVE  /\ OneVoicePerKey'
         /\ Poly!Silence \/ Poly!Listen \/ UNCHANGED Poly!polyVars
<1>1. \A i \in Voice : used[i] => Note(i) \in down'
  BY OneVoice, Zenon DEF KInv
<1>2. CASE UNCHANGED <<voices, first_note>>
  <2>1. OneVoicePerKey' /\ Sounds' = Sounds
    BY <1>1, <1>2, SameVoices, Zenon DEF KInv
  <2>2. Listening' = Listening \/ (~Listening /\ Listening')
        \/ (muted' # muted /\ muted')
    BY <1>2, Zenon DEF Listening
  <2>3. ~(muted' # muted /\ muted') \/ ClearVoices
    BY Zenon DEF Handle, NoteOn, DropFirstNote, StartNote, IgnoreNote, NoteOff,
                 PitchWheel, Knob, MuteButton, OtherPacket, settings
  <2>4. CASE ClearVoices /\ muted'
    <3>1. Sounds' = {} /\ ~Listening'
      BY <2>4, NoVoices, Zenon DEF Listening
    <3>2. QED
      BY <2>1, <3>1, Zenon DEF Poly!Silence, Sounds, Listening
  <2>5. CASE Listening' = Listening
    BY <2>1, <2>5, Zenon DEF Poly!polyVars, Sounds, Listening
  <2>6. CASE ~Listening /\ Listening'
    BY <2>1, <2>6, Zenon DEF Poly!Listen, Sounds, Listening
  <2>7. QED
    BY <2>1, <2>2, <2>3, <2>4, <2>5, <2>6
<1>3. CASE ClearVoices /\ muted' = TRUE
  <2>1. OneVoicePerKey' /\ Sounds' = {} /\ ~Listening'
    BY <1>3, NoVoices, Zenon DEF Listening
  <2>2. QED
    BY <2>1, Zenon DEF Poly!Silence, Sounds, Listening
<1>4. QED
  BY <1>2, <1>3, Zenon DEF Handle, NoteOn, DropFirstNote, StartNote, IgnoreNote,
       NoteOff, PitchWheel, Knob, MuteButton, OtherPacket, settings

(***************************************************************************)
(* Every step.                                                             *)
(***************************************************************************)
PolyStep == [Poly!PolyNext]_Poly!polyVars

\* Nothing that is heard changes when the synthesizer does not move.
LEMMA SynthRests ==
  ASSUME KInv, UNCHANGED <<vars, down>>
  PROVE  IInv' /\ OneVoicePerKey' /\ PolyStep
<1>1. IInv'
  BY StepIInv, Zenon DEF KInv
<1>2. OneVoicePerKey' /\ UNCHANGED Poly!polyVars
  BY Zenon DEF KInv, OneVoicePerKey, vars, Poly!polyVars
<1>3. QED
  BY <1>1, <1>2, Zenon DEF PolyStep

\* The player and the control panel keep the invariant: a key goes down only
\* when it was up, and up only when it was down.
LEMMA PlayerKInv ==
  ASSUME KInv, Control \/ \E k \in Keys : Press(k) \/ Release(k)
  PROVE  KInv' /\ PolyStep
<1>1. UNCHANGED <<vars, down>>
  BY Zenon DEF Control, Press, Release
<1>2. held \subseteq Keys
  BY HeldAreKeys, Zenon DEF KInv
<1>3. PICK p \in WirePacket :
        /\ InTurn(held, p) /\ held' = After(held, p) /\ After(held, p) \subseteq Keys
        /\ wire' = Append(wire, p)
  <2>1. ASSUME NEW k \in Keys, Press(k)
        PROVE  \E p \in WirePacket :
                 /\ InTurn(held, p) /\ held' = After(held, p) /\ After(held, p) \subseteq Keys
                 /\ wire' = Append(wire, p)
    <3>1. PICK v \in Velocity : wire' = Append(wire, OnPacket(k, v))
      BY <2>1, Zenon DEF Press
    <3>2. OnPacket(k, v).st = 9 /\ OnPacket(k, v).d1 = k /\ OnPacket(k, v).st # 8
      BY SMT DEF OnPacket
    <3>3. OnPacket(k, v) \in WirePacket
      BY DEF WirePacket, NotePackets
    <3>4. k \notin held /\ held' = held \cup {k}
      BY <2>1 DEF Press
    <3>5. After(held, OnPacket(k, v)) = held \cup {k} /\ InTurn(held, OnPacket(k, v))
      BY <3>2, <3>4, Zenon DEF After, InTurn
    <3>6. QED
      BY <1>2, <3>1, <3>3, <3>4, <3>5, Zenon
  <2>2. ASSUME NEW k \in Keys, Release(k)
        PROVE  \E p \in WirePacket :
                 /\ InTurn(held, p) /\ held' = After(held, p) /\ After(held, p) \subseteq Keys
                 /\ wire' = Append(wire, p)
    <3>1. wire' = Append(wire, OffPacket(k)) /\ k \in held /\ held' = held \ {k}
      BY <2>2, Zenon DEF Release
    <3>2. OffPacket(k).st = 8 /\ OffPacket(k).d1 = k /\ OffPacket(k).st # 9
      BY SMT DEF OffPacket
    <3>3. OffPacket(k) \in WirePacket
      BY DEF WirePacket, NotePackets
    <3>4. After(held, OffPacket(k)) = held \ {k} /\ InTurn(held, OffPacket(k))
      <4>1. ~(OffPacket(k).st = 9)
        BY <3>2
      <4>2. QED
        BY <3>1, <3>2, <4>1, Zenon DEF After, InTurn
    <3>5. QED
      BY <1>2, <3>1, <3>3, <3>4, Zenon
  <2>3. ASSUME Control
        PROVE  \E p \in WirePacket :
                 /\ InTurn(held, p) /\ held' = After(held, p) /\ After(held, p) \subseteq Keys
                 /\ wire' = Append(wire, p)
    <3>1. PICK p \in Controls : wire' = Append(wire, p)
      BY <2>3, Zenon DEF Control
    <3>2. p.st # 9 /\ p.st # 8 /\ p \in WirePacket
      BY KeysAssumption, SMT DEF WirePacket
    <3>3. After(held, p) = held /\ InTurn(held, p)
      BY <3>2, Zenon DEF After, InTurn
    <3>4. held' = held
      BY <2>3 DEF Control
    <3>5. QED
      BY <1>2, <3>1, <3>2, <3>3, <3>4, Zenon
  <2>4. QED
    BY <2>1, <2>2, <2>3
<1>4. WireInv'
  BY <1>1, <1>3, WireGrows, Zenon DEF KInv
<1>5. QED
  BY <1>1, <1>4, SynthRests, Zenon DEF KInv

\* Handling a packet keeps the invariant, and is a step of the instrument.
LEMMA DeliverKInv ==
  ASSUME KInv, 0 \notin Keys, Deliver
  PROVE  KInv' /\ PolyStep
<1>0. /\ wire # <<>> /\ wire' = Tail(wire) /\ held' = held
      /\ Handle(Head(wire)) /\ down' = After(down, Head(wire))
  BY Zenon DEF Deliver, After
<1>1. PICK p \in WirePacket :
        /\ p = Head(wire) /\ Handle(p) /\ down' = After(down, p)
        /\ WireInv' /\ InTurn(down, p)
  <2> DEFINE q == Head(wire)
  <2>1. WireInv' /\ q \in WirePacket /\ InTurn(down, q)
    BY <1>0, WireShrinks, Zenon DEF KInv
  <2>2. QED
    BY <1>0, <2>1
<1>2. WireInv' /\ p \in WirePacket /\ InTurn(down, p)
  BY <1>1
<1>3. IInv'
  <2>1. p \in Packet
    BY <1>2, WirePackets, Zenon
  <2>2. QED
    BY <1>1, <2>1, HandleIInv, Zenon DEF KInv
<1>4. CASE p.st = 9
  <2>1. p.d1 \notin down /\ down' = down \cup {p.d1}
    BY <1>1, <1>2, <1>4, Zenon DEF InTurn, After
  <2>2. NoteOn(p)
    BY <1>1, <1>4, SMT DEF Handle, NoteOff, PitchWheel, Knob, MuteButton, OtherPacket
  <2>3. OneVoicePerKey' /\ Poly!KeyDown(p.d1)
    BY <1>2, <1>4, <2>1, <2>2, OnIsKeyDown, Zenon
  <2>4. p.d1 \in Keys
    BY <1>2, <1>4, WirePackets, SMT
  <2>5. QED
    BY <1>2, <1>3, <2>3, <2>4, Zenon DEF KInv, PolyStep, Poly!PolyNext
<1>5. CASE p.st = 8
  <2>1. p.d1 \in down /\ p.st # 9
    BY <1>2, <1>5, SMT DEF InTurn
  <2>2. down' = down \ {p.d1}
    BY <1>1, <1>5, <2>1, Zenon DEF After
  <2>3. NoteOff(p)
    BY <1>1, <1>5, SMT DEF Handle, NoteOn, DropFirstNote, StartNote, IgnoreNote,
                       PitchWheel, Knob, MuteButton, OtherPacket
  <2>4. OneVoicePerKey' /\ Poly!KeyUp(p.d1)
    BY <1>2, <1>5, <2>1, <2>2, <2>3, OffIsKeyUp, Zenon
  <2>5. p.d1 \in Keys
    BY <1>2, <1>5, WirePackets, SMT
  <2>6. QED
    BY <1>2, <1>3, <2>4, <2>5, Zenon DEF KInv, PolyStep, Poly!PolyNext
<1>6. CASE p.st \notin {8, 9}
  <2>1. down' = down
    BY <1>1, <1>6, Zenon DEF After
  <2>2. /\ OneVoicePerKey'
        /\ Poly!Silence \/ Poly!Listen \/ UNCHANGED Poly!polyVars
    BY <1>1, <1>2, <1>6, <2>1, ControlIsHeard, Zenon
  <2>3. QED
    BY <1>2, <1>3, <2>2, Zenon DEF KInv, PolyStep, Poly!PolyNext
<1>7. QED
  BY <1>4, <1>5, <1>6

\* One iteration of the decay pass lets one note fade or none.
LEMMA DecayFades ==
  ASSUME KInv, DecayVoice, UNCHANGED down
  PROVE  OneVoicePerKey' /\ PolyStep
<1>1. UNCHANGED Listening
  BY Zenon DEF DecayVoice, settings, Listening
<1>2. idx \in Voice /\ \A i \in Voice : reg[i] \in Register
  BY DEF KInv, IInv, TypeOK
<1>3. \A i \in Voice : used[i] => Note(i) \in down'
  BY OneVoice, Zenon DEF KInv
<1>4. CASE UNCHANGED voices
  <2>1. OneVoicePerKey' /\ Sounds' = Sounds
    BY <1>3, <1>4, SameVoices, Zenon DEF KInv
  <2>2. QED
    BY <1>1, <2>1, Zenon DEF PolyStep, Poly!polyVars, Sounds, Listening
<1>5. CASE used[idx] /\ ReleaseVoice(idx)
  <2>1. OneVoicePerKey' /\ Sounds' = Sounds \ {Note(idx)}
    BY <1>2, <1>5, FreeVoice, Zenon DEF KInv
  <2>2. Note(idx) \in Sounds /\ Note(idx) \in Keys
    <3>1. Note(idx) \in down
      BY <1>2, <1>5, OneVoice, Zenon DEF KInv
    <3>2. down \subseteq Keys
      BY HeldAreKeys, Zenon DEF KInv
    <3>3. QED
      BY <1>2, <1>5, <3>1, <3>2, InSounds, Zenon
  <2>3. PICK k \in Keys : k = Note(idx)
    BY <2>2
  <2>4. Poly!Fade(k)
    BY <1>1, <2>1, <2>2, <2>3, Zenon DEF Poly!Fade, Sounds, Listening
  <2>5. QED
    BY <2>1, <2>4, Zenon DEF PolyStep, Poly!PolyNext
<1>6. CASE /\ VolOf(reg[idx]) > sustain_level
           /\ reg' = [reg EXCEPT ![idx] = @ - 1]
           /\ UNCHANGED used
  <2>1. reg[idx] \in Register /\ VolOf(reg[idx]) > 0
    BY <1>6, LoweredType, Zenon DEF KInv, IInv
  <2>2. NoteOf(reg[idx] - 1) = NoteOf(reg[idx])
    BY <2>1, LowerStep, Zenon
  <2>3. \A i \in Voice : Note(i)' = Note(i) /\ (used'[i] <=> used[i])
    <3>1. ASSUME NEW i \in Voice PROVE Note(i)' = Note(i)
      <4>1. CASE i = idx
        <5>1. reg'[i] = reg[i] - 1
          BY <1>2, <1>6, <4>1 DEF KInv, IInv, TypeOK
        <5>2. QED
          BY <2>2, <4>1, <5>1, Zenon DEF Note
      <4>2. CASE i # idx
        <5>1. reg'[i] = reg[i]
          BY <1>2, <1>6, <4>2 DEF KInv, IInv, TypeOK
        <5>2. QED
          BY <5>1, Zenon DEF Note
      <4>3. QED
        BY <4>1, <4>2
    <3>2. QED
      BY <1>6, <3>1, Zenon
  <2>4. OneVoicePerKey' /\ Sounds' = Sounds
    BY <1>3, <2>3, KeepVoices, Zenon DEF KInv
  <2>5. QED
    BY <1>1, <2>4, Zenon DEF PolyStep, Poly!polyVars, Sounds, Listening
<1>7. QED
  BY <1>4, <1>5, <1>6, DecayVoiceCases, Zenon DEF KInv

\* The loop and the timer keep the invariant.
LEMMA LoopKInv ==
  ASSUME KInv, LoopStep \/ TimerTick
  PROVE  KInv' /\ PolyStep
<1>1. UNCHANGED <<held, wire, down>>
  BY DEF LoopStep, TimerTick
<1>2. IInv'
  BY StepIInv, Zenon DEF KInv, LoopStep, TimerTick, Next
<1>3. WireInv'
  BY <1>1, Zenon DEF KInv, WireInv
<1>4. OneVoicePerKey' /\ PolyStep
  <2>1. CASE DecayVoice
    BY <1>1, <2>1, DecayFades, Zenon
  <2>2. CASE ~DecayVoice
    <3>1. UNCHANGED <<voices, first_note, settings>>
      BY <2>2, Zenon DEF LoopStep, TimerTick, Loop, TaskReady, TaskNoMidi, RecvNothing,
                         BeginDecay, Tick
    <3>2. \A i \in Voice : used[i] => Note(i) \in down'
      BY <1>1, OneVoice, Zenon DEF KInv
    <3>3. OneVoicePerKey' /\ Sounds' = Sounds
      BY <3>1, <3>2, SameVoices, Zenon DEF KInv
    <3>4. UNCHANGED Listening
      BY <3>1, Zenon DEF Listening, settings
    <3>5. QED
      BY <1>1, <3>3, <3>4, Zenon DEF PolyStep, Poly!polyVars, Sounds, Listening
  <2>3. QED
    BY <2>1, <2>2
<1>5. QED
  BY <1>2, <1>3, <1>4 DEF KInv

\* Every step keeps the invariant and is a step of the instrument or none.
LEMMA StepKInv ==
  ASSUME 0 \notin Keys, KInv, [KeysNext]_keyVars
  PROVE  KInv' /\ PolyStep
<1>1. CASE Control \/ \E k \in Keys : Press(k) \/ Release(k)
  BY <1>1, PlayerKInv, Zenon
<1>2. CASE Deliver
  BY <1>2, DeliverKInv, Zenon
<1>3. CASE LoopStep \/ TimerTick
  BY <1>3, LoopKInv, Zenon
<1>4. CASE UNCHANGED keyVars
  <2>1. WireInv'
    BY <1>4, Zenon DEF keyVars, KInv, WireInv
  <2>2. QED
    BY <1>4, <2>1, SynthRests, Zenon DEF keyVars, KInv
<1>5. QED
  BY <1>1, <1>2, <1>3, <1>4, Zenon DEF KeysNext

\* The state at start-up, with no key down and an empty wire.
LEMMA InitKInv == KeysInit => KInv
<1> SUFFICES ASSUME KeysInit PROVE KInv
  OBVIOUS
<1>1. IInv
  BY InitIInv, Zenon DEF KeysInit
<1>2. OneVoicePerKey
  BY SMT DEF OneVoicePerKey, KeysInit, Init
<1>3. WireInv
  <2> DEFINE told == [i \in 0..0 |-> {}]
  <2>1. /\ wire = <<>> /\ Len(wire) = 0 /\ down = {} /\ held = {}
        /\ wire \in Seq(WirePacket)
    BY SMT DEF KeysInit
  <2>2. told \in [0..0 -> SUBSET Keys] /\ told[0] = {} /\ 1..0 = {}
    BY SMT
  <2>3. Leads(told, wire, down, held)
    BY <2>1, <2>2, SMT DEF Leads
  <2>4. QED
    BY <2>1, <2>3, Zenon DEF WireInv
<1>4. QED
  BY <1>1, <1>2, <1>3 DEF KInv

\* No stuck notes, for any number of voices and keys and whatever the player
\* does with keys, knobs and the mute button: a voice sounds only a key whose
\* last packet was a Note On, and no key has two voices.
THEOREM OneVoiceForAKey ==
  ASSUME 0 \notin Keys
  PROVE  KeysSpec => []OneVoicePerKey
<1>1. KInv /\ [KeysNext]_keyVars => KInv'
  BY StepKInv
<1>2. KInv => OneVoicePerKey
  BY DEF KInv
<1>3. QED
  BY <1>1, <1>2, InitKInv, PTL DEF KeysSpec

\* The allocator implements the polyphonic instrument: no voice is stolen, a
\* free one is always found, a released key is silent at once.
THEOREM AllocatorIsPolyphonic ==
  ASSUME 0 \notin Keys
  PROVE  KeysSpec => ImplementsPolyphony
<1>1. KeysInit => Poly!PolyInit
  <2> SUFFICES ASSUME KeysInit PROVE Poly!PolyInit
    OBVIOUS
  <2>1. down = {} /\ first_note = TRUE /\ \A i \in Voice : ~used[i]
    BY Zenon DEF KeysInit, Init
  <2>2. \A x : x \notin Sounds
    BY <2>1, Zenon DEF Sounds
  <2>3. Sounds = {} /\ Listening = FALSE
    BY <2>1, <2>2, Zenon DEF Listening
  <2>4. QED
    BY <2>1, <2>3, Zenon DEF Poly!PolyInit, Sounds, Listening
<1>2. KInv /\ [KeysNext]_keyVars => KInv' /\ [Poly!PolyNext]_Poly!polyVars
  BY StepKInv DEF PolyStep
<1>3. QED
  BY <1>1, <1>2, InitKInv, PTL DEF KeysSpec, ImplementsPolyphony, Poly!PolySpec

\* A Note Off always silences its key, unless the key is note 0: the case in
\* which the search by register goes wrong is the only one.
THEOREM OffSilences ==
  ASSUME 0 \notin Keys
  PROVE  KeysSpec => NoteOffSilences
<1>1. ASSUME KInv, KeysNext, NEW k \in Keys, Deliver, Head(wire) = OffPacket(k)
      PROVE  Sounding(k)' = {}
  <2> DEFINE p == OffPacket(k)
  <2>1. p.st = 8 /\ p.d1 = k /\ p.st # 9
    BY SMT DEF OffPacket
  <2>2. p \in WirePacket
    BY DEF WirePacket, NotePackets
  <2>3. /\ wire # <<>> /\ wire' = Tail(wire) /\ held' = held
        /\ Handle(p) /\ down' = After(down, Head(wire))
    BY <1>1, Zenon DEF Deliver, After
  <2>4. p.d1 \in down
    <3>1. InTurn(down, Head(wire))
      BY <1>1, <2>3, WireShrinks, Zenon DEF KInv
    <3>2. QED
      BY <1>1, <2>1, <3>1, Zenon DEF InTurn
  <2>5. down' = down \ {p.d1}
    BY <1>1, <2>1, <2>3, Zenon DEF After
  <2> HIDE DEF p
  <2>6. NoteOff(p)
    BY <2>1, <2>3, SMT DEF Handle, NoteOn, DropFirstNote, StartNote, IgnoreNote,
                           PitchWheel, Knob, MuteButton, OtherPacket
  <2>7. Sounds' = Sounds \ {k}
    BY <1>1, <2>1, <2>2, <2>4, <2>5, <2>6, OffIsKeyUp, Zenon
  <2>8. \A i : i \notin Sounding(k)'
    BY <2>7, Zenon DEF Sounding, Sounds
  <2>9. QED
    BY <2>8, Zenon
<1>2. KInv /\ [KeysNext]_keyVars =>
        [\A k \in Keys : Deliver /\ Head(wire) = OffPacket(k) => Sounding(k)' = {}]_keyVars
  BY <1>1, Zenon
<1>3. KInv /\ [KeysNext]_keyVars => KInv'
  BY StepKInv
<1>4. QED
  BY <1>2, <1>3, InitKInv, PTL DEF KeysSpec, NoteOffSilences
=============================================================================
