------------------------------ MODULE CharPipe ------------------------------
(***************************************************************************)
(* What printf may expect of the console: the characters it has accepted   *)
(* are shown by the host each once and in order, none is made up, and      *)
(* a host that is away delays them without losing any.  Characters are     *)
(* numbered, modulo Numbers.                                               *)
(***************************************************************************)
EXTENDS Integers, SequencesExt

CONSTANT Numbers

Char == 0..Numbers - 1
Stream(first, n) == [i \in 1..n |-> (first + i - 1) % Numbers]

VARIABLES
  pipe,   \* accepted and not yet shown
  next,   \* the number of the next character to be accepted
  shown   \* the last character the host has shown, None before the first

None == Numbers
pipeVars == <<pipe, next, shown>>

PipeInit == pipe = <<>> /\ next = 0 /\ shown = None

\* A write that accepts characters.
Accept ==
  /\ IsStrictPrefix(pipe, pipe')
  /\ LET n == Len(pipe') - Len(pipe)
     IN  /\ pipe' = pipe \o Stream(next, n)
         /\ next' = (next + n) % Numbers
  /\ UNCHANGED shown

Show ==
  /\ pipe # <<>>
  /\ shown' = Head(pipe) /\ pipe' = Tail(pipe)
  /\ UNCHANGED next

PipeSpec == PipeInit /\ [][Accept \/ Show]_pipeVars
=============================================================================
