----------------------------- MODULE SynthClock -----------------------------
(***************************************************************************)
(* The voice allocator with a history variable: since[i] counts, up to     *)
(* MaxSince, the ticks since voice i was last started or changed.  It is   *)
(* the true time that note_clocks[i] is meant to measure; the allocator    *)
(* itself never sees it.                                                   *)
(***************************************************************************)
EXTENDS Synth

CONSTANT MaxSince   \* bound of the history variable

\* Twice the bound is beyond every time that the allocator can compute: a voice
\* whose history has stopped at it is as old as any setting asks for.
ASSUME ClockAssumption ==
  MaxSince \in Nat /\ 2 * MaxSince >= (WordMod - 1) \div TicksPerSec

VARIABLE since

clockVars == <<vars, since>>

Touched(i) == reg'[i] # reg[i] \/ used'[i] # used[i]

ClockInit == Init /\ since = [i \in Voice |-> 0]

ClockNext ==
  \/ /\ Tick
     /\ since' = [i \in Voice |-> IF since[i] < MaxSince THEN since[i] + 1 ELSE MaxSince]
  \/ /\ Loop \/ \E p \in Packets : Handle(p)
     /\ since' = [i \in Voice |-> IF Touched(i) THEN 0 ELSE since[i]]

ClockSpec == ClockInit /\ [][ClockNext]_clockVars

\* The fairness of Synth, for the steps with their history.
FairClockSpec ==
  /\ ClockSpec
  /\ WF_clockVars((TaskReady \/ TaskNoMidi) /\ ClockNext)
  /\ WF_clockVars(RecvNothing /\ ClockNext)
  /\ WF_clockVars(DecayVoice /\ ClockNext)
  /\ WF_clockVars(Tick /\ ClockNext)

\* The decay is never faster than the knob says: between two decrements of a
\* voice, and between its Note On and the first one, at least half of
\* ms_to_dec ticks pass (main.cpp:186-190 with the clock set at 109 and 188).
\* A slot taken again must not inherit the clock of its last note.
NotTooFast ==
  [][\A i \in Voice :
       used[i] /\ used'[i] /\ VolOf(reg'[i]) < VolOf(reg[i])
         => 2 * since[i] >= ms_to_dec]_clockVars
=============================================================================
