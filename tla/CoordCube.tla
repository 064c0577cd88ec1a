------------------------------- MODULE CoordCube -------------------------------
(***************************************************************************)
(* The coordinates in which the two-phase search sees a cube, cubiecube.h  *)
(* and coordcube.h of cubedriver/cpp_kociemba: numbers for the twists, the *)
(* flips, and the places of some of the cubies, and what a turn does to    *)
(* them.  The tables of the moves are functions of a coordinate and a      *)
(* turn.                                                                   *)
(***************************************************************************)
EXTENDS CubieCube, SequencesExt, Combinatorics

\* The digits d[1] .. d[n] as a number, and the last of the digits of a number
\* of n digits so that all of them add up to a multiple of the base.
Number(base, d, n) ==
  FoldLeft(LAMBDA ret, k : (base * ret) + d[k], 0, [k \in 1 .. n |-> k])
Digit(base, number, k, n) == (number \div (base ^ (n - k))) % base
LastDigit(base, number, n) ==
  (base - (FoldLeft(LAMBDA s, k : s + Digit(base, number, k, n), 0,
                    [k \in 1 .. n |-> k]) % base)) % base

\* Mutant of SetTwist: the last corner is not twisted to make up for the others.
SetTwistOfSeven(twist) ==
  [IdCube EXCEPT !.co = [i \in Corners |-> IF i = 8 THEN 0 ELSE Digit(3, twist, i, 7)]]

GetTwist(c) == Number(3, c.co, 7)
SetTwist(twist) ==
  [IdCube EXCEPT !.co = [i \in Corners |->
     IF i = 8 THEN LastDigit(3, twist, 7) ELSE Digit(3, twist, i, 7)]]
GetFlip(c) == Number(2, c.eo, 11)
SetFlip(flip) ==
  [IdCube EXCEPT !.eo = [i \in Edges |->
     IF i = 12 THEN LastDigit(2, flip, 11) ELSE Digit(2, flip, i, 11)]]

-----------------------------------------------------------------------------
\* The place of some cubies: which positions they are at, and in which order.

Cnk == [n \in 0 .. 11, k \in 0 .. 6 |-> IF n < k THEN 0 ELSE choose(n, k)]

\* The first j + 1 elements move k places to the left.
RotateLeft(arr, j, k) ==
  [i \in DOMAIN arr |-> IF i <= j + 1 THEN arr[((i - 1 + k) % (j + 1)) + 1] ELSE arr[i]]
RotateRight(arr, j, k) == RotateLeft(arr, j, (j + 1 - k) % (j + 1))

\* The index of an order of home: how often its beginnings must be rotated.
GetOrder(arr, home) ==
  LET back(acc, j) ==
        LET k == CHOOSE r \in 0 .. j : RotateLeft(acc.arr, j, r)[j + 1] = home[j + 1]
        IN [arr |-> RotateLeft(acc.arr, j, k), b |-> ((j + 1) * acc.b) + k]
  IN FoldLeft(back, [arr |-> arr, b |-> 0],
              [i \in 1 .. (Len(home) - 1) |-> Len(home) - i]).b
SetOrder(idx, home) ==
  LET on(acc, j) == [arr |-> RotateRight(acc.arr, j, acc.b % (j + 1)),
                     b |-> acc.b \div (j + 1)]
  IN FoldLeft(on, [arr |-> home, b |-> idx], [i \in 1 .. (Len(home) - 1) |-> i]).arr

\* The index of the set of positions, counted from 0, that hold a cubie of home.
GetCombination(perm, home) ==
  LET held == SelectSeq([k \in DOMAIN perm |-> k - 1],
                        LAMBDA j : Contains(home, perm[j + 1]))
  IN FoldLeft(LAMBDA a, x : a + Cnk[held[x], x], 0, [x \in DOMAIN held |-> x])

\* From the last of n positions on, a position is taken if what is left of the
\* index allows it.  The positions not taken hold none.
SetCombination(idx, arr, n, none) ==
  LET weight(acc, j) == Cnk[j, Len(arr) - Cardinality(acc.taken)]
      place(acc, j) ==
        IF acc.a >= weight(acc, j)
        THEN [a |-> acc.a - weight(acc, j), taken |-> acc.taken \cup {j}] ELSE acc
      taken == FoldLeft(place, [a |-> idx, taken |-> {}], [k \in 1 .. n |-> n - k]).taken
  IN [k \in 1 .. n |-> IF k - 1 \in taken
                       THEN arr[Cardinality({j \in taken : j < k})] ELSE none]

GetPlaces(perm, home) ==
  (factorial[Len(home)] * GetCombination(perm, home))
    + GetOrder(SelectSeq(perm, LAMBDA e : Contains(home, e)), home)
SetPlaces(idx, home, n, none) ==
  SetCombination(idx \div factorial[Len(home)],
                 SetOrder(idx % factorial[Len(home)], home), n, none)

\* The other cubies at the positions that hold none.
Fill(perm, none, other) ==
  [k \in DOMAIN perm |->
     IF perm[k] = none
     THEN other[Cardinality({l \in 1 .. k : perm[l] = none})] ELSE perm[k]]

CornerCube(perm) == [IdCube EXCEPT !.cp = perm]
EdgeCube(perm) == [IdCube EXCEPT !.ep = perm]

GetURFtoDLF(c) == GetPlaces(c.cp, <<URF, UFL, ULB, UBR, DFR, DLF>>)
SetURFtoDLF(idx) ==
  CornerCube(Fill(SetPlaces(idx, <<URF, UFL, ULB, UBR, DFR, DLF>>, 8, DRB),
                  DRB, <<DBL, DRB>>))
GetURtoDF(c) == GetPlaces(c.ep, <<UR, UF, UL, UB, DR, DF>>)
SetURtoDF(idx) ==
  EdgeCube(Fill(SetPlaces(idx, <<UR, UF, UL, UB, DR, DF>>, 12, BR),
                BR, <<DL, DB, FR, FL, BL, BR>>))
GetURtoUL(c) == GetPlaces(c.ep, <<UR, UF, UL>>)
SetURtoUL(idx) == EdgeCube(SetPlaces(idx, <<UR, UF, UL>>, 12, BR))
GetUBtoDF(c) == GetPlaces(c.ep, <<UB, DR, DF>>)
SetUBtoDF(idx) == EdgeCube(SetPlaces(idx, <<UB, DR, DF>>, 12, BR))

\* The edges of the slice between U and D: the positions counted from the end.
Slice == <<FR, FL, BL, BR>>
GetFRtoBR(c) ==
  (24 * GetCombination(Reverse(c.ep), Slice))
    + GetOrder(SelectSeq(c.ep, LAMBDA e : Contains(Slice, e)), Slice)
SetFRtoBR(idx) ==
  EdgeCube(Fill(Reverse(SetCombination(idx \div 24, Reverse(SetOrder(idx % 24, Slice)),
                                       12, DB)),
                DB, <<UR, UF, UL, UB, DR, DF, DL, DB>>))

-----------------------------------------------------------------------------
\* The tables of the moves.

TwistMove(twist, turn) == GetTwist(TurnCorners(SetTwist(twist), turn))
FlipMove(flip, turn) == GetFlip(TurnEdges(SetFlip(flip), turn))
ParityMove(parity, turn) == IF turn[2] = 2 THEN parity ELSE 1 - parity
FRtoBRMove(idx, turn) == GetFRtoBR(TurnEdges(SetFRtoBR(idx), turn))
URFtoDLFMove(idx, turn) == GetURFtoDLF(TurnCorners(SetURFtoDLF(idx), turn))
URtoULMove(idx, turn) == GetURtoUL(TurnEdges(SetURtoUL(idx), turn))
UBtoDFMove(idx, turn) == GetUBtoDF(TurnEdges(SetUBtoDF(idx), turn))
URtoDFMove(idx, turn) == GetURtoDF(TurnEdges(SetURtoDF(idx), turn))

\* The places of six edges from those of three and three, -1 if an edge of
\* each is at the same position.
Merge(urtoul, ubtodf) ==
  LET a == SetURtoUL(urtoul).ep
      b == SetUBtoDF(ubtodf).ep
  IN IF \E i \in 1 .. 8 : a[i] # BR /\ b[i] # BR THEN -1
     ELSE GetURtoDF(EdgeCube([i \in Edges |-> IF i <= 8 /\ a[i] # BR THEN a[i] ELSE b[i]]))

\* The turns of phase 2.
Phase2(turn) == turn[1] \in {U_, D_} \/ turn[2] = 2

\* The coordinates with which a search begins.  URtoDF is known from the end of
\* phase 1 on: as long as the six edges are out of the slice.
Unknown == -1
Coordinates(c) ==
  [twist |-> GetTwist(c), flip |-> GetFlip(c), parity |-> CornerParity(c),
   slice |-> GetFRtoBR(c) \div 24, FRtoBR |-> GetFRtoBR(c),
   URFtoDLF |-> GetURFtoDLF(c), URtoUL |-> GetURtoUL(c), UBtoDF |-> GetUBtoDF(c),
   URtoDF |-> IF GetURtoUL(c) < 336 /\ GetUBtoDF(c) < 336 THEN GetURtoDF(c) ELSE Unknown]

\* What the search makes of them by one turn, in the tables.
MoveCoordinates(x, turn) ==
  LET urtoul == URtoULMove(x.URtoUL, turn)
      ubtodf == UBtoDFMove(x.UBtoDF, turn)
  IN [twist |-> TwistMove(x.twist, turn), flip |-> FlipMove(x.flip, turn),
      parity |-> ParityMove(x.parity, turn),
      slice |-> FRtoBRMove(24 * x.slice, turn) \div 24,
      FRtoBR |-> FRtoBRMove(x.FRtoBR, turn),
      URFtoDLF |-> URFtoDLFMove(x.URFtoDLF, turn),
      URtoUL |-> urtoul, UBtoDF |-> ubtodf,
      URtoDF |-> IF x.URtoDF # Unknown /\ x.flip = 0 /\ x.twist = 0 /\ x.slice = 0
                   /\ Phase2(turn) THEN URtoDFMove(x.URtoDF, turn)
                 ELSE IF urtoul < 336 /\ ubtodf < 336 THEN Merge(urtoul, ubtodf)
                 ELSE Unknown]
=============================================================================
