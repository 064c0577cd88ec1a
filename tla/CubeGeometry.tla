----------------------------- MODULE CubeGeometry -----------------------------
(***************************************************************************)
(* Stickers in space.  A sticker is at a vector: twice the place of its    *)
(* cubie in -1 .. 1 plus the direction it looks in, with x to the right,   *)
(* y up and z to the front.                                                *)
(***************************************************************************)
EXTENDS Integers, Sequences

\* The directions of U, R, F, D, L and B.
Normal == << <<0, 1, 0>>, <<1, 0, 0>>, <<0, 0, 1>>,
             <<0, -1, 0>>, <<-1, 0, 0>>, <<0, 0, -1>> >>

Dot(v, w) == (v[1] * w[1]) + (v[2] * w[2]) + (v[3] * w[3])
Cross(v, w) == <<(v[2] * w[3]) - (v[3] * w[2]), (v[3] * w[1]) - (v[1] * w[3]),
                 (v[1] * w[2]) - (v[2] * w[1])>>

\* A quarter turn, clockwise for who looks at the face.
Quarter(n, v) ==
  LET c == Cross(v, n)
  IN [k \in 1 .. 3 |-> (Dot(v, n) * n[k]) + c[k]]
Quarters(n, times, v) ==
  CASE times = 1 -> Quarter(n, v)
    [] times = 2 -> Quarter(n, Quarter(n, v))
    [] times = 3 -> Quarter(n, Quarter(n, Quarter(n, v)))

InLayer(n, v) == Dot(v, n) >= 2

\* The stickers are where the order of the facelets puts them: rows from the
\* top, columns from the left, U with the back and D with the front at the top.
Home(i) ==
  LET col == ((i - 1) % 3) - 1
      row == (((i - 1) \div 3) % 3) - 1
      x == 2 * col
      y == 2 * row
  IN CASE (i - 1) \div 9 = 0 -> << x,  3,  y>>
       [] (i - 1) \div 9 = 1 -> << 3, -y, -x>>
       [] (i - 1) \div 9 = 2 -> << x, -y,  3>>
       [] (i - 1) \div 9 = 3 -> << x, -3, -y>>
       [] (i - 1) \div 9 = 4 -> <<-3, -y,  x>>
       [] (i - 1) \div 9 = 5 -> <<-x, -y, -3>>
=============================================================================
