-------------------------- MODULE CalibrationStrings --------------------------
(***************************************************************************)
(* The nine command strings of getCalibrationProgram and getTestProgram of *)
(* cubedriver/cubedriver.cpp, as turns of faces, and the states that       *)
(* calibrationStates says the cube is in before each of them.              *)
(***************************************************************************)
EXTENDS Facelets, SequencesExt

\* URF_ and UFL_: what the board does for P u l P and for P l A P.
P == << <<U_, 1>>, <<D_, 3>> >>
RLi == << <<R_, 1>>, <<L_, 3>> >>
RiL == << <<L_, 1>>, <<R_, 3>> >>
FBi == << <<F_, 1>>, <<B_, 3>> >>
Rotate_URF == <<P, RLi, FBi, P>>
Rotate_UFL == <<P, FBi, RiL, P>>

\* The command strings of the nine states of the program.
Rotations ==
  <<Rotate_URF, Rotate_URF, Rotate_UFL, Rotate_URF, Rotate_URF, Rotate_UFL,
    Rotate_URF, Rotate_URF, Rotate_UFL>>

\* Mutant of CalibrationStates: two states are exchanged.
StatesExchanged == <<
  <<U_, R_, F_, D_, L_, B_>>, <<R_, F_, U_, L_, B_, D_>>, <<F_, U_, R_, B_, D_, L_>>,
  <<B_, D_, R_, F_, U_, L_>>, <<R_, B_, D_, L_, F_, U_>>, <<D_, R_, B_, U_, L_, F_>>,
  <<L_, F_, D_, R_, B_, U_>>, <<D_, L_, F_, U_, R_, B_>>, <<F_, D_, L_, B_, U_, R_>> >>

CalibrationStates == <<
  <<U_, R_, F_, D_, L_, B_>>, <<F_, U_, R_, B_, D_, L_>>, <<R_, F_, U_, L_, B_, D_>>,
  <<B_, D_, R_, F_, U_, L_>>, <<R_, B_, D_, L_, F_, U_>>, <<D_, R_, B_, U_, L_, F_>>,
  <<L_, F_, D_, R_, B_, U_>>, <<D_, L_, F_, U_, R_, B_>>, <<F_, D_, L_, B_, U_, R_>> >>

\* All the turns of one program.
ProgramTurns == FlattenSeq(FlattenSeq(Rotations))
=============================================================================
