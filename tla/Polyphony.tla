------------------------------ MODULE Polyphony ------------------------------
(***************************************************************************)
(* What a player may expect of a polyphonic synthesizer of NumNotes        *)
(* voices: only keys that are down sound, at most NumNotes at a time; a    *)
(* key that goes down sounds if a voice is left and the synthesizer is     *)
(* listening; a key that goes up is silent at once.                        *)
(***************************************************************************)
EXTENDS Naturals, FiniteSets

CONSTANTS Keys, NumNotes

VARIABLES
  down,       \* keys the synthesizer has been told are pressed
  sounding,   \* keys that have a voice
  listening   \* whether a key going down may start a voice

polyVars == <<down, sounding, listening>>

PolyInit ==
  /\ down = {}
  /\ sounding = {}
  /\ listening = FALSE

\* The key gets a voice exactly when there is one and the synthesizer
\* listens; the very first key only makes it listen.
KeyDown(k) ==
  /\ k \notin down
  /\ down' = down \cup {k}
  /\ IF listening /\ Cardinality(sounding) < NumNotes
       THEN sounding' = sounding \cup {k} /\ UNCHANGED listening
       ELSE UNCHANGED sounding /\ listening' \in {listening, TRUE}

KeyUp(k) ==
  /\ k \in down
  /\ down' = down \ {k}
  /\ sounding' = sounding \ {k}
  /\ UNCHANGED listening

\* A voice that has decayed to nothing.
Fade(k) ==
  /\ k \in sounding
  /\ sounding' = sounding \ {k}
  /\ UNCHANGED <<down, listening>>

\* The mute button.
Silence ==
  /\ sounding' = {}
  /\ listening' = FALSE
  /\ UNCHANGED down

Listen ==
  /\ ~listening
  /\ listening' = TRUE
  /\ UNCHANGED <<down, sounding>>

PolyNext == Silence \/ Listen \/ \E k \in Keys : KeyDown(k) \/ KeyUp(k) \/ Fade(k)

PolySpec == PolyInit /\ [][PolyNext]_polyVars
=============================================================================
