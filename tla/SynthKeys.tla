------------------------------ MODULE SynthKeys ------------------------------
(***************************************************************************)
(* The voice allocator played from a keyboard.  The keyboard sends one     *)
(* Note On when a key goes down and one Note Off when it goes up, and      *)
(* control packets at any time; its packets wait on a wire, in order,      *)
(* until RecvData takes them.  (That RecvData really behaves like a FIFO   *)
(* is the subject of the module MidiRecv.)                                 *)
(*                                                                         *)
(* A device is external to the repository: it is modelled by what the MIDI *)
(* messages handled in main.cpp mean.                                      *)
(***************************************************************************)
EXTENDS Synth, Sequences

CONSTANTS
  Keys,      \* notes of the keys
  Velocity,  \* velocities of a press
  Controls,  \* control packets
  MaxWire    \* bound: packets waiting at the device

ASSUME KeysAssumption ==
  /\ Keys \subseteq 0..127
  /\ Velocity \subseteq 1..127
  /\ Controls \subseteq [st : {11, 14}, d1 : 0..127, d2 : 0..127]
  /\ MaxWire \in Nat \ {0}

VARIABLES
  held,   \* keys the player holds down
  wire,   \* packets sent and not yet received
  down    \* history: keys whose last packet received was a Note On

keyVars == <<vars, held, wire, down>>

OnPacket(k, v) == [st |-> 9, d1 |-> k, d2 |-> v]
OffPacket(k) == [st |-> 8, d1 |-> k, d2 |-> 0]

KeysInit == Init /\ held = {} /\ wire = <<>> /\ down = {}

Press(k) ==
  /\ k \notin held
  /\ Len(wire) < MaxWire
  /\ held' = held \cup {k}
  /\ \E v \in Velocity : wire' = Append(wire, OnPacket(k, v))
  /\ UNCHANGED <<vars, down>>

Release(k) ==
  /\ k \in held
  /\ Len(wire) < MaxWire
  /\ held' = held \ {k}
  /\ wire' = Append(wire, OffPacket(k))
  /\ UNCHANGED <<vars, down>>

Control ==
  /\ Len(wire) < MaxWire
  /\ \E p \in Controls : wire' = Append(wire, p)
  /\ UNCHANGED <<vars, held, down>>

\* RecvData takes the next packet and main handles it.
Deliver ==
  /\ wire # <<>>
  /\ LET p == Head(wire) IN
     /\ Handle(p)
     /\ down' = CASE p.st = 9 -> down \cup {p.d1}
                  [] p.st = 8 -> down \ {p.d1}
                  [] OTHER    -> down
  /\ wire' = Tail(wire)
  /\ UNCHANGED held

\* The rest of the loop.  RecvData may find nothing although a packet waits:
\* the device has not answered yet, or the transfer failed.
LoopStep == Loop /\ UNCHANGED <<held, wire, down>>

TimerTick == Tick /\ UNCHANGED <<held, wire, down>>

KeysNext ==
  \/ \E k \in Keys : Press(k) \/ Release(k)
  \/ Control \/ Deliver \/ LoopStep \/ TimerTick

KeysSpec == KeysInit /\ [][KeysNext]_keyVars

(***************************************************************************)
(* The loop runs; the keyboard is not left unplugged for ever; and a       *)
(* packet that waits is received in the end: the poll is repeated as long  *)
(* as the device is there, and the device answers it.                      *)
(***************************************************************************)
KeysFairSpec ==
  /\ KeysSpec
  /\ WF_keyVars(LoopStep)
  /\ SF_keyVars(LoopStep /\ TaskReady)
  /\ SF_keyVars(Deliver)

-----------------------------------------------------------------------------
\* The voices that sound a note.
Sounding(note) == {i \in Voice : used[i] /\ NoteOf(reg[i]) = note}

\* No stuck notes: a voice sounds only a key that the firmware was last told
\* is down, and no key has two voices (of which Note Off would free one,
\* main.cpp:114-122).  It takes the whole protocol of presses, releases,
\* mutes and full voices to keep it.
OneVoicePerKey ==
  \A i, j \in Voice :
    used[i] => /\ NoteOf(reg[i]) \in down
               /\ used[j] /\ NoteOf(reg[j]) = NoteOf(reg[i]) => i = j

Poly == INSTANCE Polyphony WITH
          sounding <- {NoteOf(reg[i]) : i \in {j \in Voice : used[j]}},
          listening <- ~first_note /\ ~muted

\* The allocator implements the polyphonic instrument: a free voice is always
\* found, a released key is silent at once, no step starts or stops another
\* key than the one it is about (main.cpp:89-122, 158-169, 183-196).
ImplementsPolyphony == Poly!PolySpec

\* "note turned off" (main.cpp:116-118): handling a Note Off leaves no voice
\* that sounds the note, whatever the note.  Note 0 refutes it when a free
\* voice precedes the one that sounds: the search looks at registers, not at
\* note_used, and a free register matches note 0.
NoteOffSilences ==
  [][\A k \in Keys :
       Deliver /\ Head(wire) = OffPacket(k) => Sounding(k)' = {}]_keyVars

\* A key that is up falls silent, or is pressed again: Note Offs are neither
\* overtaken nor forgotten while voices come and go.
ReleasedKeySilent ==
  \A k \in Keys : (k \notin held) ~> (k \in held \/ Sounding(k) = {})
=============================================================================
