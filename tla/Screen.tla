------------------------------- MODULE Screen -------------------------------
(***************************************************************************)
(* The mounted screen of the front end.  Each screen keeps its state in    *)
(* React hooks: it is born with the mount and dies with it, so that one    *)
(* record at a time is alive.  A module per screen gives its fields, its   *)
(* initial value and its handlers; Portal puts them side by side.          *)
(***************************************************************************)
EXTENDS Naturals, Sequences, FiniteSets
Seqs == INSTANCE SequencesExt

CONSTANT MaxSteps   \* for every screen, clicks and key strokes on one mount, at most

VARIABLE s

On(name) == s.screen = name

\* What the student does is bounded, what the network and timers do is not.
Acts == s.acts < MaxSteps[s.screen]
Set(new) == s' = new

\* Reading a query again restarts a reading under way, unless it is the very first.
Refetch(reading, known) == IF reading # "no" /\ ~known THEN reading ELSE "sent"
=============================================================================
