------------------------------- MODULE Facelets -------------------------------
(***************************************************************************)
(* The facelets of the cube and the tables of                              *)
(* cubedriver/threaded_solver2.cpp: what a turn of a face, a rotation of   *)
(* the cube, and a text of turns do to them.  A state is a sequence of 54  *)
(* colours, in the order U1..U9, R1..R9, F.., D.., L.., B1..B9; a turn is  *)
(* <<face, times>>.                                                        *)
(***************************************************************************)
EXTENDS Integers, Sequences

U_ == 0
R_ == 1
F_ == 2
D_ == 3
L_ == 4
B_ == 5
FaceSet == 0 .. 5
Facelet == 1 .. 54
FaceOf(i) == (i - 1) \div 9
IsCenter(i) == i % 9 = 5

Solved == [i \in Facelet |-> FaceOf(i)]

\* The tables are written with U7 as 7, R3 as 13, F9 as 29, and so on.
Table(names) == [i \in Facelet |-> (9 * (names[i] \div 10)) + (names[i] % 10)]

U1_ == Table(<<
  7, 4, 1, 8, 5, 2, 9, 6, 3,  51, 52, 53, 14, 15, 16, 17, 18, 19,
  11, 12, 13, 24, 25, 26, 27, 28, 29,  31, 32, 33, 34, 35, 36, 37, 38, 39,
  21, 22, 23, 44, 45, 46, 47, 48, 49,  41, 42, 43, 54, 55, 56, 57, 58, 59>>)
U2_ == Table(<<
  9, 8, 7, 6, 5, 4, 3, 2, 1,  41, 42, 43, 14, 15, 16, 17, 18, 19,
  51, 52, 53, 24, 25, 26, 27, 28, 29,  31, 32, 33, 34, 35, 36, 37, 38, 39,
  11, 12, 13, 44, 45, 46, 47, 48, 49,  21, 22, 23, 54, 55, 56, 57, 58, 59>>)
U3_ == Table(<<
  3, 6, 9, 2, 5, 8, 1, 4, 7,  21, 22, 23, 14, 15, 16, 17, 18, 19,
  41, 42, 43, 24, 25, 26, 27, 28, 29,  31, 32, 33, 34, 35, 36, 37, 38, 39,
  51, 52, 53, 44, 45, 46, 47, 48, 49,  11, 12, 13, 54, 55, 56, 57, 58, 59>>)
R1_ == Table(<<
  1, 2, 23, 4, 5, 26, 7, 8, 29,  17, 14, 11, 18, 15, 12, 19, 16, 13,
  21, 22, 33, 24, 25, 36, 27, 28, 39,  31, 32, 57, 34, 35, 54, 37, 38, 51,
  41, 42, 43, 44, 45, 46, 47, 48, 49,  9, 52, 53, 6, 55, 56, 3, 58, 59>>)
R2_ == Table(<<
  1, 2, 33, 4, 5, 36, 7, 8, 39,  19, 18, 17, 16, 15, 14, 13, 12, 11,
  21, 22, 57, 24, 25, 54, 27, 28, 51,  31, 32, 3, 34, 35, 6, 37, 38, 9,
  41, 42, 43, 44, 45, 46, 47, 48, 49,  29, 52, 53, 26, 55, 56, 23, 58, 59>>)
R3_ == Table(<<
  1, 2, 57, 4, 5, 54, 7, 8, 51,  13, 16, 19, 12, 15, 18, 11, 14, 17,
  21, 22, 3, 24, 25, 6, 27, 28, 9,  31, 32, 23, 34, 35, 26, 37, 38, 29,
  41, 42, 43, 44, 45, 46, 47, 48, 49,  39, 52, 53, 36, 55, 56, 33, 58, 59>>)
F1_ == Table(<<
  1, 2, 3, 4, 5, 6, 49, 46, 43,  7, 12, 13, 8, 15, 16, 9, 18, 19,
  27, 24, 21, 28, 25, 22, 29, 26, 23,  17, 14, 11, 34, 35, 36, 37, 38, 39,
  41, 42, 31, 44, 45, 32, 47, 48, 33,  51, 52, 53, 54, 55, 56, 57, 58, 59>>)
F2_ == Table(<<
  1, 2, 3, 4, 5, 6, 33, 32, 31,  49, 12, 13, 46, 15, 16, 43, 18, 19,
  29, 28, 27, 26, 25, 24, 23, 22, 21,  9, 8, 7, 34, 35, 36, 37, 38, 39,
  41, 42, 17, 44, 45, 14, 47, 48, 11,  51, 52, 53, 54, 55, 56, 57, 58, 59>>)
F3_ == Table(<<
  1, 2, 3, 4, 5, 6, 11, 14, 17,  33, 12, 13, 32, 15, 16, 31, 18, 19,
  23, 26, 29, 22, 25, 28, 21, 24, 27,  43, 46, 49, 34, 35, 36, 37, 38, 39,
  41, 42, 9, 44, 45, 8, 47, 48, 7,  51, 52, 53, 54, 55, 56, 57, 58, 59>>)
D1_ == Table(<<
  1, 2, 3, 4, 5, 6, 7, 8, 9,  11, 12, 13, 14, 15, 16, 27, 28, 29,
  21, 22, 23, 24, 25, 26, 47, 48, 49,  37, 34, 31, 38, 35, 32, 39, 36, 33,
  41, 42, 43, 44, 45, 46, 57, 58, 59,  51, 52, 53, 54, 55, 56, 17, 18, 19>>)
D2_ == Table(<<
  1, 2, 3, 4, 5, 6, 7, 8, 9,  11, 12, 13, 14, 15, 16, 47, 48, 49,
  21, 22, 23, 24, 25, 26, 57, 58, 59,  39, 38, 37, 36, 35, 34, 33, 32, 31,
  41, 42, 43, 44, 45, 46, 17, 18, 19,  51, 52, 53, 54, 55, 56, 27, 28, 29>>)
D3_ == Table(<<
  1, 2, 3, 4, 5, 6, 7, 8, 9,  11, 12, 13, 14, 15, 16, 57, 58, 59,
  21, 22, 23, 24, 25, 26, 17, 18, 19,  33, 36, 39, 32, 35, 38, 31, 34, 37,
  41, 42, 43, 44, 45, 46, 27, 28, 29,  51, 52, 53, 54, 55, 56, 47, 48, 49>>)
L1_ == Table(<<
  59, 2, 3, 56, 5, 6, 53, 8, 9,  11, 12, 13, 14, 15, 16, 17, 18, 19,
  1, 22, 23, 4, 25, 26, 7, 28, 29,  21, 32, 33, 24, 35, 36, 27, 38, 39,
  47, 44, 41, 48, 45, 42, 49, 46, 43,  51, 52, 37, 54, 55, 34, 57, 58, 31>>)
L2_ == Table(<<
  31, 2, 3, 34, 5, 6, 37, 8, 9,  11, 12, 13, 14, 15, 16, 17, 18, 19,
  59, 22, 23, 56, 25, 26, 53, 28, 29,  1, 32, 33, 4, 35, 36, 7, 38, 39,
  49, 48, 47, 46, 45, 44, 43, 42, 41,  51, 52, 27, 54, 55, 24, 57, 58, 21>>)
L3_ == Table(<<
  21, 2, 3, 24, 5, 6, 27, 8, 9,  11, 12, 13, 14, 15, 16, 17, 18, 19,
  31, 22, 23, 34, 25, 26, 37, 28, 29,  59, 32, 33, 56, 35, 36, 53, 38, 39,
  43, 46, 49, 42, 45, 48, 41, 44, 47,  51, 52, 7, 54, 55, 4, 57, 58, 1>>)
B1_ == Table(<<
  13, 16, 19, 4, 5, 6, 7, 8, 9,  11, 12, 39, 14, 15, 38, 17, 18, 37,
  21, 22, 23, 24, 25, 26, 27, 28, 29,  31, 32, 33, 34, 35, 36, 41, 44, 47,
  3, 42, 43, 2, 45, 46, 1, 48, 49,  57, 54, 51, 58, 55, 52, 59, 56, 53>>)
B2_ == Table(<<
  39, 38, 37, 4, 5, 6, 7, 8, 9,  11, 12, 47, 14, 15, 44, 17, 18, 41,
  21, 22, 23, 24, 25, 26, 27, 28, 29,  31, 32, 33, 34, 35, 36, 3, 2, 1,
  19, 42, 43, 16, 45, 46, 13, 48, 49,  59, 58, 57, 56, 55, 54, 53, 52, 51>>)
B3_ == Table(<<
  47, 44, 41, 4, 5, 6, 7, 8, 9,  11, 12, 1, 14, 15, 2, 17, 18, 3,
  21, 22, 23, 24, 25, 26, 27, 28, 29,  31, 32, 33, 34, 35, 36, 19, 16, 13,
  37, 42, 43, 38, 45, 46, 39, 48, 49,  53, 56, 59, 52, 55, 58, 51, 54, 57>>)
LR_90_ == Table(<<
  21, 22, 23, 24, 25, 26, 27, 28, 29,  17, 14, 11, 18, 15, 12, 19, 16, 13,
  31, 32, 33, 34, 35, 36, 37, 38, 39,  59, 58, 57, 56, 55, 54, 53, 52, 51,
  43, 46, 49, 42, 45, 48, 41, 44, 47,  9, 8, 7, 6, 5, 4, 3, 2, 1>>)
FB_90_ == Table(<<
  47, 44, 41, 48, 45, 42, 49, 46, 43,  7, 4, 1, 8, 5, 2, 9, 6, 3,
  27, 24, 21, 28, 25, 22, 29, 26, 23,  17, 14, 11, 18, 15, 12, 19, 16, 13,
  37, 34, 31, 38, 35, 32, 39, 36, 33,  53, 56, 59, 52, 55, 58, 51, 54, 57>>)
URF_ == Table(<<
  27, 24, 21, 28, 25, 22, 29, 26, 23,  9, 8, 7, 6, 5, 4, 3, 2, 1,
  17, 14, 11, 18, 15, 12, 19, 16, 13,  57, 54, 51, 58, 55, 52, 59, 56, 53,
  31, 32, 33, 34, 35, 36, 37, 38, 39,  43, 46, 49, 42, 45, 48, 41, 44, 47>>)

MovesTable == << <<U1_, U2_, U3_>>, <<R1_, R2_, R3_>>, <<F1_, F2_, F3_>>,
                 <<D1_, D2_, D3_>>, <<L1_, L2_, L3_>>, <<B1_, B2_, B3_>> >>

\* Mutant of MakeMove: the table is read in the other direction.
MakeMoveTo(s, m) == [i \in Facelet |-> s[CHOOSE j \in Facelet : m[j] = i]]

MakeMove(s, m) == [i \in Facelet |-> s[m[i]]]
TurnFace(s, turn) == MakeMove(s, MovesTable[turn[1] + 1][turn[2]])
MakeMoves(s, turns) ==
  LET after[k \in 0 .. Len(turns)] ==
        IF k = 0 THEN s ELSE TurnFace(after[k - 1], turns[k])
  IN after[Len(turns)]

ValidateSolution(state, solution) == MakeMoves(state, solution) = Solved
=============================================================================
