----------------------------- MODULE MidiStream -----------------------------
(***************************************************************************)
(* What the firmware may expect of a MIDI connection: the events the       *)
(* device sends are taken one at a time, each once and in order, and only  *)
(* unplugging the device loses any.                                        *)
(***************************************************************************)
EXTENDS Sequences, SequencesExt

CONSTANT None   \* no event

VARIABLES
  queue,   \* events sent and not yet taken
  taken    \* the event that the last call took, or None

streamVars == <<queue, taken>>

StreamInit == queue = <<>> /\ taken = None

\* The device sends a group of events at once.
Send ==
  /\ IsStrictPrefix(queue, queue')
  /\ UNCHANGED taken

Take ==
  /\ queue # <<>>
  /\ taken' = Head(queue)
  /\ queue' = Tail(queue)

\* A call that finds nothing to take.
TakeNothing == taken' = None /\ UNCHANGED queue

Lose == queue' = <<>> /\ UNCHANGED taken

StreamNext == Send \/ Take \/ TakeNothing \/ Lose

StreamSpec == StreamInit /\ [][StreamNext]_streamVars

\* Events that wait are taken unless the device goes away.
StreamFair == WF_streamVars(Take \/ Lose)
=============================================================================
