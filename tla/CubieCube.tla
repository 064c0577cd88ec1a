------------------------------- MODULE CubieCube -------------------------------
(***************************************************************************)
(* The cube as its cubies, cubedriver/cpp_kociemba/cubiecube.h, and the    *)
(* way between cubies and facelets, facecube.h.  A cube is a record: at    *)
(* corner position i is the corner cp[i], twisted by co[i]; at edge        *)
(* position i the edge ep[i], flipped if eo[i] = 1.  Positions are counted *)
(* from 1, cubies, as in the code, from 0.  The orientations 3 .. 5 of     *)
(* mirrored corners, which no code makes, are left out.                    *)
(***************************************************************************)
EXTENDS Facelets, FiniteSetsExt, Functions

URF == 0
UFL == 1
ULB == 2
UBR == 3
DFR == 4
DLF == 5
DBL == 6
DRB == 7
UR == 0
UF == 1
UL == 2
UB == 3
DR == 4
DF == 5
DL == 6
DB == 7
FR == 8
FL == 9
BL == 10
BR == 11

Corners == 1 .. 8
Edges == 1 .. 12

NoTwist == [i \in Corners |-> 0]
NoFlip == [i \in Edges |-> 0]
IdCube == [cp |-> [i \in Corners |-> i - 1], co |-> NoTwist,
           ep |-> [i \in Edges |-> i - 1], eo |-> NoFlip]

Cubies(cp, co, ep, eo) == [cp |-> cp, co |-> co, ep |-> ep, eo |-> eo]

\* What a quarter turn of U, R, F, D, L and B does to the solved cube.
MoveCube == <<
  Cubies(<<UBR, URF, UFL, ULB, DFR, DLF, DBL, DRB>>, NoTwist,
         <<UB, UR, UF, UL, DR, DF, DL, DB, FR, FL, BL, BR>>, NoFlip),
  Cubies(<<DFR, UFL, ULB, URF, DRB, DLF, DBL, UBR>>, <<2, 0, 0, 1, 1, 0, 0, 2>>,
         <<FR, UF, UL, UB, BR, DF, DL, DB, DR, FL, BL, UR>>, NoFlip),
  Cubies(<<UFL, DLF, ULB, UBR, URF, DFR, DBL, DRB>>, <<1, 2, 0, 0, 2, 1, 0, 0>>,
         <<UR, FL, UL, UB, DR, FR, DL, DB, UF, DF, BL, BR>>,
         <<0, 1, 0, 0, 0, 1, 0, 0, 1, 1, 0, 0>>),
  Cubies(<<URF, UFL, ULB, UBR, DLF, DBL, DRB, DFR>>, NoTwist,
         <<UR, UF, UL, UB, DF, DL, DB, DR, FR, FL, BL, BR>>, NoFlip),
  Cubies(<<URF, ULB, DBL, UBR, DFR, UFL, DLF, DRB>>, <<0, 1, 2, 0, 0, 2, 1, 0>>,
         <<UR, UF, BL, UB, DR, DF, FL, DB, FR, UL, DL, BR>>, NoFlip),
  Cubies(<<URF, UFL, UBR, DRB, DFR, DLF, ULB, DBL>>, <<0, 0, 1, 2, 0, 0, 2, 1>>,
         <<UR, UF, UL, BR, DR, DF, DL, BL, FR, FL, UB, DB>>,
         <<0, 0, 0, 1, 0, 0, 0, 1, 0, 0, 1, 1>>) >>

\* Mutant of CornerMultiply: the twist stays at the position.
CornerMultiplyInPlace(a, b) ==
  [a EXCEPT !.cp = [i \in Corners |-> a.cp[b.cp[i] + 1]],
            !.co = [i \in Corners |-> (a.co[i] + b.co[i]) % 3]]

\* First a, then b.
CornerMultiply(a, b) ==
  [a EXCEPT !.cp = [i \in Corners |-> a.cp[b.cp[i] + 1]],
            !.co = [i \in Corners |-> (a.co[b.cp[i] + 1] + b.co[i]) % 3]]
EdgeMultiply(a, b) ==
  [a EXCEPT !.ep = [i \in Edges |-> a.ep[b.ep[i] + 1]],
            !.eo = [i \in Edges |-> (a.eo[b.ep[i] + 1] + b.eo[i]) % 2]]

\* The tables of the coordinates turn a face once, twice and three times.
TurnCorners(a, turn) ==
  LET once(c) == CornerMultiply(c, MoveCube[turn[1] + 1])
  IN CASE turn[2] = 1 -> once(a)
       [] turn[2] = 2 -> once(once(a))
       [] turn[2] = 3 -> once(once(once(a)))
TurnEdges(a, turn) ==
  LET once(c) == EdgeMultiply(c, MoveCube[turn[1] + 1])
  IN CASE turn[2] = 1 -> once(a)
       [] turn[2] = 2 -> once(once(a))
       [] turn[2] = 3 -> once(once(once(a)))
TurnCubies(a, turn) == TurnEdges(TurnCorners(a, turn), turn)

-----------------------------------------------------------------------------
\* Cubies and facelets.  U9 is 9, R1 is 10, and so on.

CornerFacelet == << <<9, 10, 21>>, <<7, 19, 39>>, <<1, 37, 48>>, <<3, 46, 12>>,
                    <<30, 27, 16>>, <<28, 45, 25>>, <<34, 54, 43>>, <<36, 18, 52>> >>
EdgeFacelet == << <<6, 11>>, <<8, 20>>, <<4, 38>>, <<2, 47>>, <<33, 17>>, <<29, 26>>,
                  <<31, 44>>, <<35, 53>>, <<24, 13>>, <<22, 42>>, <<51, 40>>, <<49, 15>> >>
CornerColor == << <<U_, R_, F_>>, <<U_, F_, L_>>, <<U_, L_, B_>>, <<U_, B_, R_>>,
                  <<D_, F_, R_>>, <<D_, L_, F_>>, <<D_, B_, L_>>, <<D_, R_, B_>> >>
EdgeColor == << <<U_, R_>>, <<U_, F_>>, <<U_, L_>>, <<U_, B_>>, <<D_, R_>>, <<D_, F_>>,
                <<D_, L_>>, <<D_, B_>>, <<F_, R_>>, <<F_, L_>>, <<B_, L_>>, <<B_, R_>> >>

\* How often to go round from the first facelet of corner i to one that is U
\* or D, 3 if there is none.
Orientation(f, i) ==
  Min({3} \cup {o \in 0 .. 2 : f[CornerFacelet[i][o + 1]] \in {U_, D_}})

\* The corners whose other two colours are those at corner position i.
CornersLike(f, i) ==
  LET side(k) == f[CornerFacelet[i][((Orientation(f, i) + k) % 3) + 1]]
  IN {j \in Corners : <<CornerColor[j][2], CornerColor[j][3]>> = <<side(1), side(2)>>}

EdgeColours(f, i) == <<f[EdgeFacelet[i][1]], f[EdgeFacelet[i][2]]>>
Swapped(e) == <<e[2], e[1]>>
EdgesLike(f, i) ==
  {j \in Edges : EdgeColor[j] \in {EdgeColours(f, i), Swapped(EdgeColours(f, i))}}

\* A position whose colours are those of no cubie gets the first one.
ToCubieCube(f) ==
  [cp |-> [i \in Corners |-> IF CornersLike(f, i) = {} THEN URF
                             ELSE Min(CornersLike(f, i)) - 1],
   co |-> [i \in Corners |->
             IF CornersLike(f, i) = {} THEN 0 ELSE Orientation(f, i) % 3],
   ep |-> [i \in Edges |-> IF EdgesLike(f, i) = {} THEN UR ELSE Min(EdgesLike(f, i)) - 1],
   eo |-> [i \in Edges |->
             IF \E j \in EdgesLike(f, i) : EdgeColor[j] # EdgeColours(f, i) THEN 1 ELSE 0]]

\* The centers are those of the solved cube.
ToFaceCube(c) ==
  LET corner(p) == {x \in Corners \X (0 .. 2) :
                      CornerFacelet[x[1]][((x[2] + c.co[x[1]]) % 3) + 1] = p}
      edge(p) == {x \in Edges \X (0 .. 1) :
                    EdgeFacelet[x[1]][((x[2] + c.eo[x[1]]) % 2) + 1] = p}
  IN [p \in Facelet |->
        CASE IsCenter(p) -> FaceOf(p)
          [] corner(p) # {} ->
               LET x == CHOOSE y \in corner(p) : TRUE
               IN CornerColor[c.cp[x[1]] + 1][x[2] + 1]
          [] edge(p) # {} ->
               LET x == CHOOSE y \in edge(p) : TRUE
               IN EdgeColor[c.ep[x[1]] + 1][x[2] + 1]]

-----------------------------------------------------------------------------
\* CubieCube::verify and Tools::verify.

Inversions(p) == {x \in (DOMAIN p) \X (DOMAIN p) : x[1] < x[2] /\ p[x[1]] > p[x[2]]}
CornerParity(c) == Cardinality(Inversions(c.cp)) % 2
EdgeParity(c) == Cardinality(Inversions(c.ep)) % 2

EachOnce(p) == Cardinality({p[i] : i \in DOMAIN p}) = Cardinality(DOMAIN p)

\* Mutant of VerifyCubies: the last check is left out.
VerifyNoParity(c) ==
  IF ~EachOnce(c.ep) THEN "wrong edge count"
  ELSE IF SumFunction(c.eo) % 2 # 0 THEN "edge flipped"
  ELSE IF ~EachOnce(c.cp) THEN "wrong corner count"
  ELSE IF SumFunction(c.co) % 3 # 0 THEN "corner twisted" ELSE ""

VerifyCubies(c) ==
  IF ~EachOnce(c.ep) THEN "wrong edge count"
  ELSE IF SumFunction(c.eo) % 2 # 0 THEN "edge flipped"
  ELSE IF ~EachOnce(c.cp) THEN "wrong corner count"
  ELSE IF SumFunction(c.co) % 3 # 0 THEN "corner twisted"
  ELSE IF EdgeParity(c) # CornerParity(c) THEN "parity" ELSE ""

Verify(f) ==
  IF \E c \in FaceSet : Cardinality({i \in Facelet : f[i] = c}) # 9
  THEN "wrong facelet count"
  ELSE VerifyCubies(ToCubieCube(f))
=============================================================================
