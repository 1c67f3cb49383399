----------------------------- MODULE MidiRecvMC -----------------------------
(***************************************************************************)
(* Constants for the runs of MidiRecv: a buffer of three events, a note on *)
(* and a reserved code of size 0.                                          *)
(***************************************************************************)
EXTENDS MidiRecv

NoteOnEvent == [hdr |-> 9, m1 |-> 144, rest |-> 1]
ReservedEvent == [hdr |-> 1, m1 |-> 5, rest |-> 0]

TwoEvents == {NoteOnEvent, ReservedEvent}
ZeroGarbage == {ZeroEvent}
StackGarbage == {ZeroEvent, NoteOnEvent}
=============================================================================
