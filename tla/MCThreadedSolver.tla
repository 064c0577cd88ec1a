-------------------------- MODULE MCThreadedSolver --------------------------
(* Small instances of ThreadedSolver: worker 0 has no prefix move (it starts *)
(* from the state itself), worker 1 has one.                                  *)
EXTENDS ThreadedSolver

MCPrefixTime == [w \in Worker |-> IF w = 0 THEN 0 ELSE 1]
=============================================================================
