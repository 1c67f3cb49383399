---------------------------- MODULE SynthKeysMC ----------------------------
(***************************************************************************)
(* Constants for the runs of SynthKeys: one key more than there are        *)
(* voices, the mute button and the sustain knob.                           *)
(***************************************************************************)
EXTENDS SynthKeys

Pkt(st, d1, d2) == [st |-> st, d1 |-> d1, d2 |-> d2]

MuteAndSustain == {Pkt(11, 48, 127), Pkt(11, 48, 0), Pkt(11, 23, 0)}

NoControls == {}

KeyPackets ==
  Controls \cup {OnPacket(k, v) : k \in Keys, v \in Velocity}
           \cup {OffPacket(k) : k \in Keys}
=============================================================================
