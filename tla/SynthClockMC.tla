---------------------------- MODULE SynthClockMC ----------------------------
(***************************************************************************)
(* Constants for the run of SynthClock: every case of the switch.  Two     *)
(* notes, velocities 0 and 2, the two decay knobs, the mute button.  The   *)
(* effects that no property is about get their start-up values, except     *)
(* the pitch wheel.                                                        *)
(***************************************************************************)
EXTENDS SynthClock

Pkt(st, d1, d2) == [st |-> st, d1 |-> d1, d2 |-> d2]

NotePackets ==
  {Pkt(9, 60, 0), Pkt(9, 61, 2), Pkt(8, 60, 64), Pkt(8, 61, 64)}
DecayPackets == {Pkt(11, 22, 2), Pkt(11, 22, 3), Pkt(11, 23, 0), Pkt(11, 23, 1)}
MutePackets == {Pkt(11, 48, 127), Pkt(11, 48, 0)}
OtherPackets ==
  {Pkt(14, 0, 5), Pkt(11, 1, 64), Pkt(11, 20, 0), Pkt(11, 21, 0),
   Pkt(11, 49, 0), Pkt(10, 60, 1)}

SwitchPackets == NotePackets \cup DecayPackets \cup MutePackets \cup OtherPackets
=============================================================================
