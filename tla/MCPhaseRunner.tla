--------------------------- MODULE MCPhaseRunner ---------------------------
(* Model-checking instances of PhaseRunner. *)
EXTENDS PhaseRunner, TLC

CONSTANTS p1, p2, p3, w1, w2

\* One command with one process.
OneProc == {p1}
TwoWorkers == {w1, w2}
OneProcOf == [w \in TwoWorkers |-> p1]
OneCommand == [p \in {p1} |-> p1]

\* One command with a primary p1 and a child p2.
TwoProcs == {p1, p2}
TwoProcOf == w1 :> p1 @@ w2 :> p2
Family == [p \in TwoProcs |-> p1]

\* A command with a primary p1 and a child p2, and a second command p3.  The
\* workers of p1 are like those of p2: one worker on p2 and one on p3 are
\* enough for every pairing of two of them.
ThreeProcs == {p1, p2, p3}
TwoPrimaries == {p1, p3}
ThreeProcOf == w1 :> p2 @@ w2 :> p3
TwoCommands == p1 :> p1 @@ p2 :> p1 @@ p3 :> p3

AllHeights == Height
=============================================================================
