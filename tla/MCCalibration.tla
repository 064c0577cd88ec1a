--------------------------- MODULE MCCalibration ---------------------------
(***************************************************************************)
(* A corner of the cube, the faces U R F, in the three states that the     *)
(* rotation "URF" takes it through: small enough for every key, every file *)
(* and every order of keys.  A cube gives the colour of each face.         *)
(***************************************************************************)
EXTENDS Robot

CornerURF(c) == <<c[3], c[1], c[2]>>
CornerSolved == <<"U", "R", "F">>
CornerCalState ==
  <<CornerSolved, CornerURF(CornerSolved), CornerURF(CornerURF(CornerSolved))>>
CornerRotation == <<"URF", "URF", "URF">>
CornerCube == {CornerCalState[n] : n \in 1 .. 3}
CornerTurn == {"URF"}
CornerDigit == {"3"}
CornerEffect == [t \in CornerTurn |-> [c \in CornerCube |-> CornerURF(c)]]
CornerMoves == {<<"URF">>}
CornerSolution == [c \in CornerCube \ {CornerSolved} |->
                     IF c = CornerCalState[2] THEN <<"URF", "URF">> ELSE <<"URF">>]
CornerShown == [c \in CornerCube |-> [f \in 1 .. 3 |-> c[f]]]
CornerFile(sample) == [f \in 1 .. 3 |-> [c \in {"U", "R", "F"} |-> sample]]
\* The file of a good calibration or of a bad one; and none, or an emptied one.
CornerFiles == {CornerFile(s) : s \in Sample}

\* What is proved about the calibration supposes that it closes.
ASSUME CalibrationCloses
=============================================================================
