------------------------------- MODULE CubeLevels -------------------------------
(***************************************************************************)
(* One cube at every level at which cubedriver keeps it: in the tables of  *)
(* the facelets of threaded_solver2.cpp, as cubies, and in the coordinates *)
(* of the search, against a cube in space.  The facelets are told apart,   *)
(* so that an entry that is wrong shows even where the colours would be    *)
(* the same.                                                               *)
(***************************************************************************)
EXTENDS CoordCube, CubeGeometry, ThreadConfigs, CalibrationStrings

CONSTANTS MaxTurns  \* bound on the length of a sequence of turns, but for
                    \* those of the calibration program

ASSUME TurnsAssumption == MaxTurns \in Nat

VARIABLES
  cube,    \* cube[i]: the sticker at facelet i
  cubies,  \* the same cube in cubies, Rotated once its centers have moved
  coords,  \* and in coordinates
  turns,   \* the turns made, but for those of the calibration program
  played,  \* how many turns of the calibration program were made
  turned   \* how many turns and rotations were made

cubeVars == <<cube, cubies, coords, turns, played, turned>>

Rotated == [cp |-> <<>>]

CubeInit ==
  /\ cube = [i \in Facelet |-> i]
  /\ cubies = IdCube
  /\ coords = Coordinates(IdCube)
  /\ turns = <<>> /\ played = 0 /\ turned = 0

Use(m) == cube' = MakeMove(cube, m) /\ turned' = turned + 1

TurnAll(turn) ==
  /\ Use(MovesTable[turn[1] + 1][turn[2]])
  /\ IF cubies = Rotated THEN UNCHANGED <<cubies, coords>>
     ELSE /\ cubies' = TurnCubies(cubies, turn)
          /\ coords' = MoveCoordinates(coords, turn)

Turn(face, times) ==
  /\ turned < MaxTurns /\ played = 0
  /\ TurnAll(<<face, times>>)
  /\ turns' = Append(turns, <<face, times>>)
  /\ UNCHANGED played

\* The rotations of the thread configurations, and the one that none uses.
Rotate ==
  /\ turned < MaxTurns /\ played = 0
  /\ Use(LR_90_) \/ Use(FB_90_) \/ Use(URF_)
  /\ cubies' = Rotated
  /\ UNCHANGED <<coords, turns, played>>

\* The next turn of the calibration program: a solved cube, and F1 or F2.
Play ==
  /\ turned = played /\ played < Len(ProgramTurns)
  /\ TurnAll(ProgramTurns[played + 1])
  /\ played' = played + 1
  /\ UNCHANGED turns

CubeNext ==
  (\E face \in FaceSet, times \in 1 .. 3 : Turn(face, times)) \/ Rotate \/ Play

CubeSpec == CubeInit /\ [][CubeNext]_cubeVars

-----------------------------------------------------------------------------
\* Where the tables have brought each sticker.
Placed ==
  [s \in Facelet |-> Home(CHOOSE i \in Facelet : cube[i] = s)]

Physical == INSTANCE PhysicalCube WITH Sticker <- Facelet, place <- Placed

\* The tables turn and rotate a cube in space: every row of every table, in
\* every order of up to MaxTurns turns.
TurnsACube == Physical!Spec

\* What the camera sees if the stickers of the solved cube are painted so.
Seen(paint) == [i \in Facelet |-> paint[cube[i]]]

\* The cubies and the facelets, which are turned by tables written apart from
\* each other, are one cube, read in either direction.
CubiesAgree ==
  cubies # Rotated =>
    ToCubieCube(Seen(Solved)) = cubies /\ ToFaceCube(cubies) = Seen(Solved)

\* The coordinates that the search moves in its tables are those of the cube,
\* though each table knows only the cubies of its own coordinate.
CoordinatesAgree == cubies # Rotated => coords = Coordinates(cubies)

\* So after any turns all three levels are one cube.
LevelsAgree == CubiesAgree /\ CoordinatesAgree

\* Before each string of the calibration program the cube shows, but for its
\* centers, the next row of calibrationStates, and the first after the last.
PhasesAsDocumented ==
  turns = <<>> /\ cubies # Rotated /\ played % 8 = 0 =>
    \A i \in {j \in Facelet : ~IsCenter(j)} :
      Seen(Solved)[i] = CalibrationStates[((played \div 8) % 9) + 1][FaceOf(i) + 1]

\* The search mirrors the cube: if a thread is given the state that the first
\* n turns lead to and searches with the others, then turning the cube as its
\* answer says and then disguising it gives the cube the search has arrived
\* at, and the one is solved exactly when the other is.  So what a search ends
\* with is, whatever the disguise, a solution of the state that was asked, and
\* no state is solvable for one thread and unsolvable for another.
SearchMirrorsTheCube ==
  cubies # Rotated =>
    \A n \in 0 .. Len(turns), i \in DOMAIN AllMoves :
      LET state == MakeMoves(Solved, SubSeq(turns, 1, n))
          sol == SubSeq(turns, n + 1, Len(turns))
          problem == MakeMoves(Problem(state, i), sol)
          answered == MakeMoves(state, Answer(sol, i))
      IN /\ problem = IF AllMoves[i].prefix # <<>> THEN answered ELSE Problem(answered, i)
         /\ problem = Solved <=> ValidateSolution(state, Answer(sol, i))

-----------------------------------------------------------------------------
\* The solved cube with stickers exchanged: the facelets of from get the
\* colours of those of to.
Repainted(from, to) ==
  [i \in Facelet |-> IF \E k \in DOMAIN from : from[k] = i
                     THEN Solved[to[CHOOSE k \in DOMAIN from : from[k] = i]]
                     ELSE Solved[i]]
Exchanged(c, d) == Repainted(c \o d, d \o c)
Flipped(e) == Repainted(e, <<e[2], e[1]>>)
Twisted(c) == Repainted(c, <<c[2], c[3], c[1]>>)

\* Cubes put together wrong, and right ones that look so: how the solved cube
\* is painted, and what the comment of Tools::verify says of it.
Verdicts ==
  LET E == EdgeFacelet
      C == CornerFacelet
  IN {<<Solved, "">>, <<[Solved EXCEPT ![1] = F_], "wrong facelet count">>,
      <<Exchanged(<<E[1][2]>>, <<E[5][1]>>), "wrong edge count">>,
      <<Exchanged(<<C[1][1]>>, <<C[1][2]>>), "wrong corner count">>}
     \cup {<<Flipped(E[i]), "edge flipped">> : i \in Edges}
     \cup {<<Twisted(C[i]), "corner twisted">> : i \in Corners}
     \cup {<<Exchanged(E[i], E[i + 1]), "parity">> : i \in 1 .. 11}
     \cup {<<Exchanged(C[i], C[i + 1]), "parity">> : i \in 1 .. 7}
     \cup {<<Repainted(E[1] \o E[i] \o E[12], E[i] \o E[12] \o E[1]), "">> : i \in 2 .. 11}
     \cup {<<Exchanged(E[i] \o C[1], E[i + 1] \o C[8]), "">> : i \in 1 .. 11}

\* No turn makes a difference to what is wrong with a cube: it is called by the
\* same name however the cube is scrambled.
VerdictsAsDocumented ==
  cubies # Rotated => \A v \in Verdicts : Verify(Seen(v[1])) = v[2]
=============================================================================
