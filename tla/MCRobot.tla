------------------------------ MODULE MCRobot ------------------------------
(***************************************************************************)
(* A cube with three states, the solved one 0, and a turn "a" that goes    *)
(* round them: every solution has its own length and no turn can be lost   *)
(* or doubled without leaving the cube unsolved.                           *)
(***************************************************************************)
EXTENDS Robot

MCCube == 0 .. 2
MCTurn == {"a"}
MCDigit == {"1", "3"}
MCEffect == [t \in MCTurn |-> [c \in MCCube |-> (c + 1) % 3]]
MCSolution == [c \in MCCube \ {0} |-> IF c = 1 THEN <<"a", "a">> ELSE <<"a">>]
MCMoves == {<<"a", "a">>}
MCShown == [c \in MCCube |-> [f \in {1} |-> c]]
MCFile(sample) == [f \in {1} |-> [c \in MCCube |-> sample]]
\* A calibration that lacks a colour: the cube of that colour is taken for another.
MCGap == [f \in {1} |-> [c \in MCCube |-> IF c = 1 THEN "null" ELSE "right"]]
MCFiles == {MCFile("right"), MCFile("null"), MCGap}
MCNone == <<>>

\* What is proved about the time supposes that solutions solve.
ASSUME SolutionsSolve
=============================================================================
