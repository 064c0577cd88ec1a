----------------------------- MODULE ThreadConfigs -----------------------------
(***************************************************************************)
(* The problems that the threads of cubedriver/threaded_solver2.cpp are    *)
(* given, and what solve() makes of their answers.  Every thread searches  *)
(* the same state in another disguise: after a turn that becomes the first *)
(* of the solution, or rotated, with the colours renamed.                  *)
(***************************************************************************)
EXTENDS Facelets

LR_90_transform_fwd == <<B_, R_, U_, F_, L_, D_>>
LR_90_transform_rev == <<F_, R_, D_, B_, L_, U_>>
FB_90_transform_fwd == <<R_, D_, F_, L_, U_, B_>>
FB_90_transform_rev == <<L_, U_, F_, R_, D_, B_>>
Unchanged == <<U_, R_, F_, D_, L_, B_>>

\* allMoves: the first turn, the map of the facelets, the names of the faces
\* in the thread's problem and back.
Config(prefix, map, fwd, rev) == [prefix |-> prefix, map |-> map, fwd |-> fwd, rev |-> rev]
Prefixed(face, times) ==
  Config(<< <<face, times>> >>, MovesTable[face + 1][times], Unchanged, Unchanged)
AllMoves == <<
  Config(<<>>, [i \in Facelet |-> i], Unchanged, Unchanged),
  Config(<<>>, LR_90_, LR_90_transform_fwd, LR_90_transform_rev),
  Config(<<>>, FB_90_, FB_90_transform_fwd, FB_90_transform_rev),
  Prefixed(D_, 1), Prefixed(L_, 1), Prefixed(R_, 1), Prefixed(L_, 3),
  Prefixed(B_, 3), Prefixed(B_, 1), Prefixed(F_, 1), Prefixed(D_, 3),
  Prefixed(U_, 3), Prefixed(U_, 1), Prefixed(R_, 3), Prefixed(F_, 3),
  Prefixed(F_, 2), Prefixed(D_, 2), Prefixed(R_, 2), Prefixed(L_, 2),
  Prefixed(B_, 2), Prefixed(U_, 2)>>

RemapState(s, fwd) == [i \in Facelet |-> fwd[s[i] + 1]]

\* Mutant of RemapSolution: the names are left as they are.
RemapNothing(sol, rev) == sol

RemapSolution(sol, rev) ==
  [k \in DOMAIN sol |-> <<rev[sol[k][1] + 1], sol[k][2]>>]

\* The cubeState of thread i.
Problem(state, i) ==
  RemapState(MakeMove(state, AllMoves[i].map), AllMoves[i].fwd)

\* What solve() returns when thread i has found sol.
Answer(sol, i) == RemapSolution(AllMoves[i].prefix \o sol, AllMoves[i].rev)
=============================================================================
