----------------------------- MODULE PhysicalCube -----------------------------
(***************************************************************************)
(* A cube in space, without tables.  Turning a face rotates the stickers   *)
(* of its layer, rotating the cube all of them.                            *)
(***************************************************************************)
EXTENDS CubeGeometry

CONSTANT Sticker
VARIABLES place, turned

Init == place = [s \in Sticker |-> Home(s)] /\ turned = 0

Turn(face, times) ==
  place' = [s \in Sticker |->
    IF InLayer(Normal[face + 1], place[s])
    THEN Quarters(Normal[face + 1], times, place[s]) ELSE place[s]]

Rotate(face) ==
  place' = [s \in Sticker |-> Quarter(Normal[face + 1], place[s])]

\* The rotation about the corner of U, R and F that brings F up and U right.
RotateURF ==
  place' = [s \in Sticker |-> <<place[s][2], place[s][3], place[s][1]>>]

Next ==
  /\ turned' = turned + 1
  /\ \/ \E face \in 0 .. 5, times \in 1 .. 3 : Turn(face, times)
     \/ \E face \in 0 .. 5 : Rotate(face)
     \/ RotateURF

Spec == Init /\ [][Next]_<<place, turned>>
=============================================================================
