---------------------------- MODULE SoundPathMC ----------------------------
(***************************************************************************)
(* Constants for the runs of SoundPath: samples of three bits, two pitches *)
(* and silence.                                                            *)
(***************************************************************************)
EXTENDS SoundPath

TwoPitches == {[period |-> 4, vol |-> 2], [period |-> 6, vol |-> 1], [period |-> 4, vol |-> 0]}
LoudAndOff == {[period |-> 4, vol |-> 2], [period |-> 4, vol |-> 0]}
=============================================================================
