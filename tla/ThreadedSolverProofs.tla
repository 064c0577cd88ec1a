------------------------ MODULE ThreadedSolverProofs ------------------------
(***************************************************************************)
(* Proofs about ThreadedSolver, for any number of workers, any set of cube *)
(* states and any turning times.                                           *)
(*                                                                         *)
(* And about the cube its workers search, CubeLevels, after any turns and  *)
(* any number of them: the tables of Facelets turn a PhysicalCube.  Each   *)
(* table is shown to move the stickers as a turn moves the points they     *)
(* are at; what a sequence of turns does then follows by induction.  The   *)
(* cubies the solver counts in are shown to be what is seen of that cube.  *)
(***************************************************************************)
EXTENDS ThreadedSolver, CubeLevels, FiniteSetTheorems, SequenceTheorems,
        WellFoundedInduction, TLAPS

LEMMA WorkerFacts ==
  /\ 0 \in Worker
  /\ Worker \subseteq Nat
  /\ \A n \in 0 .. MaxWorkers : 0 .. n - 1 \subseteq Worker
  /\ \A w \in Worker, n \in 0 .. MaxWorkers : w + 1 < n => w + 1 \in Worker
BY WorkersAssumption DEF Worker

LEMMA TextFacts ==
  /\ Empty \in Text
  /\ \A c \in Cube \cup {NoCube} : Found(c) \subseteq Text
BY TimeAssumption DEF Empty, Text, Found

\* The text solve() makes of a worker's solution is a text.
LEMMA SolType ==
  ASSUME NEW w \in Worker, solution \in [Worker -> Text]
  PROVE  Sol(w) \in Text
BY TimeAssumption DEF Sol, Text, Empty

\* notify_one keeps the type of the wait sets.
LEMMA NotifyType ==
  ASSUME NEW w \in Worker, NotifyOne(w),
         cvWait \in [Worker -> SUBSET {"main", "worker"}]
  PROVE  cvWait' \in [Worker -> SUBSET {"main", "worker"}]
BY DEF NotifyOne

\* Setting or clearing one flag keeps a family of flags.
LEMMA FlagType ==
  ASSUME NEW f \in [Worker -> BOOLEAN], NEW w \in Worker, NEW b \in BOOLEAN
  PROVE  [f EXCEPT ![w] = b] \in [Worker -> BOOLEAN]
OBVIOUS

\* What a call leaves in ret.
LEMMA RetType ==
  ASSUME NEW k \in {"none", "error", "solution"}, NEW s \in Text
  PROVE  [kind |-> k, sol |-> s] \in [kind : {"none", "error", "solution"}, sol : Text]
OBVIOUS

LEMMA TypeInit == Init => TypeOK
<1> SUFFICES ASSUME Init PROVE TypeOK
  OBVIOUS
<1>1. /\ inputReady \in [Worker -> BOOLEAN]
      /\ die \in [Worker -> BOOLEAN]
      /\ outputReady \in [Worker -> BOOLEAN]
      /\ error \in [Worker -> BOOLEAN]
  BY Zenon DEF Init, Fresh
<1>2. /\ cubeState \in [Worker -> Cube \cup {NoCube}]
      /\ solution \in [Worker -> Text]
      /\ cvWait \in [Worker -> SUBSET {"main", "worker"}]
      /\ wpc \in [Worker -> WPCs]
  BY TextFacts DEF Init, Fresh, WPCs
<1>3. numThreads \in 0 .. MaxWorkers /\ i \in Worker
  BY WorkersAssumption, WorkerFacts DEF Init
<1>4. ret \in [kind : {"none", "error", "solution"}, sol : Text]
  BY TextFacts, RetType DEF Init
<1> QED BY <1>1, <1>2, <1>3, <1>4 DEF Init, TypeOK, PCs

LEMMA TypeWorker ==
  ASSUME TypeOK, NEW w \in Worker, WorkerStep(w) \/ WSpurious(w)
  PROVE  TypeOK'
<1> USE DEF threadVars, mainVars
<1>1. CASE WTop(w)
  BY <1>1 DEF WTop, TypeOK, WPCs
<1>2. CASE WWait(w)
  BY <1>2 DEF WWait, TypeOK, WPCs
<1>3. CASE WTake(w)
  <2>1. inputReady' \in [Worker -> BOOLEAN]
    BY <1>3, FlagType DEF WTake, TypeOK
  <2>2. error' \in [Worker -> BOOLEAN]
    BY ZenonT(30), <1>3, FlagType DEF WTake, TypeOK
  <2>3. solution' \in [Worker -> Text]
    BY <1>3, TextFacts DEF WTake, TypeOK
  <2>4. wpc' \in [Worker -> WPCs]
    BY <1>3 DEF WTake, TypeOK, WPCs
  <2> QED BY <1>3, <2>1, <2>2, <2>3, <2>4 DEF WTake, TypeOK
<1>4. CASE WWake(w)
  BY <1>4 DEF WWake, TypeOK, WPCs
<1>5. CASE WSpurious(w)
  BY <1>5 DEF WSpurious, TypeOK, WPCs
<1>6. CASE WSearchEnds(w)
  <2>1. outputReady' \in [Worker -> BOOLEAN] /\ error' \in [Worker -> BOOLEAN]
    BY <1>6, FlagType DEF WSearchEnds, TypeOK
  <2>2. solution' \in [Worker -> Text]
    <3>1. cubeState[w] \in Cube \cup {NoCube}
      BY DEF TypeOK
    <3> QED BY <1>6, <3>1, TextFacts DEF WSearchEnds, TypeOK
  <2>3. wpc' \in [Worker -> WPCs]
    BY <1>6 DEF WSearchEnds, TypeOK, WPCs
  <2> QED BY <1>6, <2>1, <2>2, <2>3 DEF WSearchEnds, TypeOK
<1>7. CASE WNotify(w)
  BY <1>7, NotifyType DEF WNotify, TypeOK, WPCs
<1> QED BY <1>1, <1>2, <1>3, <1>4, <1>5, <1>6, <1>7 DEF WorkerStep

LEMMA TypeCall == TypeOK /\ Call => TypeOK'
<1> SUFFICES ASSUME TypeOK, Call PROVE TypeOK'
  OBVIOUS
<1> USE DEF threadVars, mainVars, TypeOK, PCs, Returns, Enters
<1>1. ASSUME NEW n \in 0 .. MaxWorkers, MStart(n) PROVE TypeOK'
  <2>1. ret' \in [kind : {"none", "error", "solution"}, sol : Text]
    BY <1>1, RetType, TextFacts DEF MStart
  <2>2. wpc' \in [Worker -> WPCs]
    BY <1>1 DEF MStart, WPCs
  <2>3. doneSized' \in BOOLEAN /\ doneThreads' \in SUBSET Worker
    BY <1>1 DEF MStart
  <2> QED BY <1>1, <2>1, <2>2, <2>3 DEF MStart
<1>2. ASSUME NEW c \in Cube, MSolve(c) PROVE TypeOK'
  <2>1. ret' \in [kind : {"none", "error", "solution"}, sol : Text]
    BY <1>2, RetType, TextFacts DEF MSolve, BeginSolve
  <2>2. i' \in Worker
    BY <1>2, WorkerFacts DEF MSolve, BeginSolve
  <2> QED BY <1>2, <2>1, <2>2 DEF MSolve, BeginSolve
<1>3. CASE MWaitUntilAllDone
  <2>1. ret' \in [kind : {"none", "error", "solution"}, sol : Text]
    BY <1>3, RetType, TextFacts DEF MWaitUntilAllDone
  <2>2. i' \in Worker
    BY <1>3, WorkerFacts DEF MWaitUntilAllDone
  <2> QED BY <1>3, <2>1, <2>2 DEF MWaitUntilAllDone
<1>4. CASE MStop
  <2>1. ret' \in [kind : {"none", "error", "solution"}, sol : Text]
    BY <1>4, RetType, TextFacts DEF MStop
  <2>2. i' \in Worker /\ doneThreads' \in SUBSET Worker /\ doneSized' \in BOOLEAN
    BY <1>4, WorkerFacts DEF MStop
  <2> QED BY <1>4, <2>1, <2>2 DEF MStop
<1> QED BY <1>1, <1>2, <1>3, <1>4 DEF Call


LEMMA TypeMain == TypeOK /\ MainStep => TypeOK'
<1> SUFFICES ASSUME TypeOK, MainStep PROVE TypeOK'
  OBVIOUS
<1>i. /\ i \in Worker /\ 0 \in Worker
      /\ i + 1 < numThreads => i + 1 \in Worker
  BY WorkerFacts DEF TypeOK
<1> DEFINE RetOK == ret' \in [kind : {"none", "error", "solution"}, sol : Text]
<1> USE DEF threadVars, mainVars, TypeOK, PCs, Returns, Enters
<1>1. CASE MPost
  <2>1. inputReady' \in [Worker -> BOOLEAN] /\ outputReady' \in [Worker -> BOOLEAN]
    BY <1>1, FlagType DEF MPost
  <2> QED BY <1>1, <2>1 DEF MPost
<1>2. CASE MPostNotify
  BY <1>2, <1>i, NotifyType DEF MPostNotify
<1>3. CASE MPollSkip
  BY <1>3, <1>i DEF MPollSkip, NextPoll
<1>4. CASE MPollReady
  <2>1. RetOK
    BY <1>4, RetType, SolType DEF MPollReady
  <2>2. pc' \in PCs /\ i' \in Worker /\ allDone' \in BOOLEAN
    BY <1>4, <1>i DEF MPollReady, NextPoll
  <2> QED BY <1>4, <2>1, <2>2 DEF MPollReady
<1>5. CASE MPollBlock
  BY <1>5 DEF MPollBlock
<1>6. CASE MPollWake
  BY <1>6 DEF MPollWake
<1>7. CASE MPollTimeout
  BY <1>7, <1>i DEF MPollTimeout, NextPoll
<1>8. CASE MPick
  <2>1. PICK w \in Active : /\ lastSolutionIndex' = w
                            /\ \/ Returns("error", Empty)
                               \/ Returns("solution", Sol(w))
    BY <1>8 DEF MPick
  <2>2. w \in Worker
    BY WorkerFacts DEF Active
  <2>3. RetOK
    BY <2>1, <2>2, RetType, SolType, TextFacts
  <2> QED BY <1>8, <2>1, <2>2, <2>3 DEF MPick
<1>9. CASE MDrainNext
  <2>1. RetOK
    BY <1>9, RetType, TextFacts DEF MDrainNext, BeginSolve
  <2>2. i' \in Worker /\ pc' \in PCs
    BY <1>9, <1>i DEF MDrainNext, BeginSolve
  <2>3. doneSized' \in BOOLEAN /\ doneThreads' \in SUBSET Worker
    BY <1>9 DEF MDrainNext
  <2> QED BY <1>9, <2>1, <2>2, <2>3 DEF MDrainNext
<1>10. CASE MDrainBlock
  BY <1>10 DEF MDrainBlock
<1>11. CASE MDrainWake
  BY <1>11 DEF MDrainWake
<1>12. CASE MStopPost
  <2>1. inputReady' \in [Worker -> BOOLEAN] /\ die' \in [Worker -> BOOLEAN]
    BY <1>12, FlagType DEF MStopPost
  <2> QED BY <1>12, <2>1 DEF MStopPost
<1>13. CASE MStopNotify
  BY <1>13, <1>i, NotifyType DEF MStopNotify
<1>14. CASE MJoin
  <2>1. CASE i + 1 < numThreads
    BY <1>14, <1>i, <2>1 DEF MJoin
  <2>2. CASE ~(i + 1 < numThreads)
    <3>1. /\ inputReady' \in [Worker -> BOOLEAN]
          /\ die' \in [Worker -> BOOLEAN]
          /\ outputReady' \in [Worker -> BOOLEAN]
          /\ error' \in [Worker -> BOOLEAN]
      <4>1. Fresh(inputReady', die', cubeState', outputReady', solution', error', cvWait')
        BY <1>14, <2>2, Zenon DEF MJoin
      <4> QED BY <4>1, Zenon DEF Fresh
    <3>2. /\ cubeState' \in [Worker -> Cube \cup {NoCube}]
          /\ solution' \in [Worker -> Text]
          /\ cvWait' \in [Worker -> SUBSET {"main", "worker"}]
          /\ wpc' \in [Worker -> WPCs]
      BY <1>14, <2>2, TextFacts DEF MJoin, Fresh, WPCs
    <3>3. RetOK
      BY <1>14, <2>2, RetType, TextFacts DEF MJoin
    <3>4. numThreads' \in 0 .. MaxWorkers
      BY <1>14, <2>2, WorkersAssumption DEF MJoin
    <3> QED BY <1>14, <2>2, <1>i, <3>1, <3>2, <3>3, <3>4 DEF MJoin
  <2> QED BY <2>1, <2>2
<1> QED BY <1>1, <1>2, <1>3, <1>4, <1>5, <1>6, <1>7, <1>8, <1>9, <1>10,
           <1>11, <1>12, <1>13, <1>14 DEF MainStep

LEMMA TypeStep == TypeOK /\ [Next]_vars => TypeOK'
<1> SUFFICES ASSUME TypeOK, [Next]_vars PROVE TypeOK'
  OBVIOUS
<1>1. CASE MDrainSpurious
  BY <1>1 DEF MDrainSpurious, TypeOK, PCs, threadVars
<1>2. CASE UNCHANGED vars
  BY <1>2 DEF vars, threadVars, mainVars, TypeOK
<1> QED BY <1>1, <1>2, TypeCall, TypeMain, TypeWorker DEF Next

\* Every variable keeps its type, for any number of workers.
THEOREM TypeCorrect == Spec => []TypeOK
BY TypeInit, TypeStep, PTL DEF Spec

\* The caller's indices stay inside the pool and doneThreads_ inside its size.
LEMMA IndexStep == IInv /\ [Next]_vars => IndexInv'
<1> SUFFICES ASSUME IInv, [Next]_vars PROVE IndexInv'
  OBVIOUS
<1> USE DEF threadVars, mainVars, IInv, TypeOK, IndexInv, Worker, Active, Returns, Enters,
             Polling, Draining, PCs, WPCs
<1>1. ASSUME NEW w \in Worker, WTop(w) PROVE IndexInv'
  BY <1>1 DEF WTop
<1>2. ASSUME NEW w \in Worker, WWait(w) PROVE IndexInv'
  BY <1>2 DEF WWait
<1>3. ASSUME NEW w \in Worker, WTake(w) PROVE IndexInv'
  BY ZenonT(30), <1>3 DEF WTake
<1>4. ASSUME NEW w \in Worker, WWake(w) PROVE IndexInv'
  BY <1>4 DEF WWake
<1>5. ASSUME NEW w \in Worker, WSpurious(w) PROVE IndexInv'
  BY <1>5 DEF WSpurious
<1>6. ASSUME NEW w \in Worker, WSearchEnds(w) PROVE IndexInv'
  BY <1>6 DEF WSearchEnds
<1>7. ASSUME NEW w \in Worker, WNotify(w) PROVE IndexInv'
  BY <1>7 DEF WNotify, NotifyOne
<1>8. ASSUME NEW n \in 0 .. MaxWorkers, MStart(n) PROVE IndexInv'
  <2>1. CASE numThreads # 0
    <3>1. UNCHANGED <<numThreads, doneSized, doneThreads, wpc, inputReady>> /\ pc' = "idle"
      BY <1>8, <2>1 DEF MStart
    <3> QED BY <3>1
  <2>2. CASE numThreads = 0
    <3>1. numThreads' = n /\ pc' = "idle" /\ doneThreads' = {} /\ doneSized' = FALSE
      BY <1>8, <2>2 DEF MStart
    <3>2. \A w \in Worker : wpc'[w] = "none" <=> ~(w < n)
      BY <1>8, <2>2 DEF MStart
    <3>3. \A w \in Worker : ~inputReady'[w]
      BY <1>8, <2>2 DEF MStart
    <3> QED BY <3>1, <3>2, <3>3
  <2> QED BY <2>1, <2>2
<1>9. ASSUME NEW c \in Cube, MSolve(c) PROVE IndexInv'
  BY <1>9 DEF MSolve, BeginSolve
<1>10. CASE MWaitUntilAllDone
  BY <1>10 DEF MWaitUntilAllDone
<1>11. CASE MStop
  <2>1. CASE numThreads = 0
    BY <1>11, <2>1 DEF MStop
  <2>2. CASE numThreads # 0
    <3>1. 0 < numThreads
      BY <2>2
    <3>2. pc' = "stop" /\ i' = 0
      BY <1>11, <2>2 DEF MStop
    <3>3. UNCHANGED <<doneSized, doneThreads, numThreads, wpc, inputReady>>
      BY <1>11, <2>2 DEF MStop
    <3> QED BY <3>1, <3>2, <3>3
  <2> QED BY <2>1, <2>2
<1>12. CASE MPost
  BY <1>12 DEF MPost
<1>13. CASE MPostNotify
  BY <1>13 DEF MPostNotify, NotifyOne
<1>14. CASE MPollSkip
  BY <1>14 DEF MPollSkip, NextPoll
<1>15. CASE MPollReady
  BY <1>15 DEF MPollReady, NextPoll
<1>16. CASE MPollBlock
  BY <1>16 DEF MPollBlock
<1>17. CASE MPollWake
  BY <1>17 DEF MPollWake
<1>18. CASE MPollTimeout
  BY <1>18 DEF MPollTimeout, NextPoll
<1>19. CASE MPick
  BY <1>19 DEF MPick
<1>20. CASE MDrainNext
  <2>1. CASE i + 1 < numThreads
    BY <1>20, <2>1 DEF MDrainNext
  <2>2. CASE ~(i + 1 < numThreads)
    <3>1. doneSized' = FALSE /\ doneThreads' = {}
      BY <1>20, <2>2 DEF MDrainNext
    <3>2. (pc' = "post" /\ i' = 0) \/ pc' = "idle"
      BY <1>20, <2>2 DEF MDrainNext, BeginSolve
    <3>3. numThreads' = numThreads /\ wpc' = wpc /\ inputReady' = inputReady
      BY <1>20 DEF MDrainNext
    <3>4. 0 < numThreads
      BY <1>20 DEF MDrainNext
    <3> QED BY <3>1, <3>2, <3>3, <3>4
  <2> QED BY <2>1, <2>2
<1>21. CASE MDrainBlock
  BY <1>21 DEF MDrainBlock
<1>22. CASE MDrainWake
  BY <1>22 DEF MDrainWake
<1>23. CASE MDrainSpurious
  BY <1>23 DEF MDrainSpurious
<1>24. CASE MStopPost
  BY <1>24 DEF MStopPost
<1>25. CASE MStopNotify
  BY <1>25 DEF MStopNotify, NotifyOne
<1>26. CASE MJoin
  <2>1. CASE i + 1 < numThreads
    BY ZenonT(30), <1>26, <2>1 DEF MJoin
  <2>2. CASE ~(i + 1 < numThreads)
    <3>1. numThreads' = 0 /\ doneThreads' = {} /\ doneSized' = FALSE /\ pc' = "idle"
      BY <1>26, <2>2 DEF MJoin
    <3>2. \A w \in Worker : wpc'[w] = "none" /\ ~inputReady'[w]
      BY <1>26, <2>2 DEF MJoin, Fresh
    <3> QED BY <3>1, <3>2
  <2> QED BY <2>1, <2>2
<1>27. CASE UNCHANGED vars
  BY <1>27 DEF vars
<1> QED BY <1>1, <1>2, <1>3, <1>4, <1>5, <1>6, <1>7, <1>8, <1>9,
           <1>10, <1>11, <1>12, <1>13, <1>14, <1>15, <1>16, <1>17, <1>18,
           <1>19, <1>20, <1>21, <1>22, <1>23, <1>24, <1>25, <1>26, <1>27
    DEF Next, Call, MainStep, WorkerStep

\* A thread is told to end, and ends, only inside stop().
LEMMA DieStep == IInv /\ [Next]_vars => DieInv'
<1> SUFFICES ASSUME IInv, [Next]_vars PROVE DieInv'
  OBVIOUS
<1> USE DEF threadVars, mainVars, IInv, TypeOK, IndexInv, DieInv, Returns, Enters, Stopping
<1>1. ASSUME NEW w \in Worker, WTop(w) PROVE DieInv'
  BY <1>1 DEF WTop
<1>2. ASSUME NEW w \in Worker, WWait(w) PROVE DieInv'
  BY <1>2 DEF WWait
<1>3. ASSUME NEW w \in Worker, WTake(w) PROVE DieInv'
  BY <1>3 DEF WTake
<1>4. ASSUME NEW w \in Worker, WWake(w) PROVE DieInv'
  BY <1>4 DEF WWake
<1>5. ASSUME NEW w \in Worker, WSpurious(w) PROVE DieInv'
  BY <1>5 DEF WSpurious
<1>6. ASSUME NEW w \in Worker, WSearchEnds(w) PROVE DieInv'
  BY <1>6 DEF WSearchEnds
<1>7. ASSUME NEW w \in Worker, WNotify(w) PROVE DieInv'
  BY <1>7 DEF WNotify, NotifyOne
<1>8. ASSUME NEW n \in 0 .. MaxWorkers, MStart(n) PROVE DieInv'
  BY <1>8 DEF MStart
<1>9. ASSUME NEW c \in Cube, MSolve(c) PROVE DieInv'
  BY <1>9 DEF MSolve, BeginSolve
<1>10. CASE MWaitUntilAllDone
  BY <1>10 DEF MWaitUntilAllDone
<1>11. CASE MStop
  BY <1>11 DEF MStop
<1>12. CASE MPost
  BY <1>12 DEF MPost
<1>13. CASE MPostNotify
  BY <1>13 DEF MPostNotify, NotifyOne
<1>14. CASE MPollSkip
  BY <1>14 DEF MPollSkip, NextPoll
<1>15. CASE MPollReady
  BY <1>15 DEF MPollReady, NextPoll
<1>16. CASE MPollBlock
  BY <1>16 DEF MPollBlock
<1>17. CASE MPollWake
  BY <1>17 DEF MPollWake
<1>18. CASE MPollTimeout
  BY <1>18 DEF MPollTimeout, NextPoll
<1>19. CASE MPick
  BY <1>19 DEF MPick
<1>20. CASE MDrainNext
  BY <1>20 DEF MDrainNext, BeginSolve
<1>21. CASE MDrainBlock
  BY <1>21 DEF MDrainBlock
<1>22. CASE MDrainWake
  BY <1>22 DEF MDrainWake
<1>23. CASE MDrainSpurious
  BY <1>23 DEF MDrainSpurious
<1>24. CASE MStopPost
  BY <1>24 DEF MStopPost
<1>25. CASE MStopNotify
  BY <1>25 DEF MStopNotify, NotifyOne
<1>26. CASE MJoin
  BY <1>26 DEF MJoin, Fresh
<1>27. CASE UNCHANGED vars
  BY <1>27 DEF vars
<1> QED BY <1>1, <1>2, <1>3, <1>4, <1>5, <1>6, <1>7, <1>8, <1>9,
           <1>10, <1>11, <1>12, <1>13, <1>14, <1>15, <1>16, <1>17, <1>18,
           <1>19, <1>20, <1>21, <1>22, <1>23, <1>24, <1>25, <1>26, <1>27
    DEF Next, Call, MainStep, WorkerStep

\* A wait set holds only threads that are in its wait.
LEMMA WaitStep == IInv /\ [Next]_vars => WaitInv'
<1> SUFFICES ASSUME IInv, [Next]_vars PROVE WaitInv'
  OBVIOUS
<1> USE DEF threadVars, mainVars, IInv, TypeOK, IndexInv, WaitInv, Returns, Enters
<1>1. ASSUME NEW w \in Worker, WTop(w) PROVE WaitInv'
  BY <1>1 DEF WTop
<1>2. ASSUME NEW w \in Worker, WWait(w) PROVE WaitInv'
  BY <1>2 DEF WWait
<1>3. ASSUME NEW w \in Worker, WTake(w) PROVE WaitInv'
  BY <1>3 DEF WTake
<1>4. ASSUME NEW w \in Worker, WWake(w) PROVE WaitInv'
  BY <1>4 DEF WWake
<1>5. ASSUME NEW w \in Worker, WSpurious(w) PROVE WaitInv'
  BY <1>5 DEF WSpurious
<1>6. ASSUME NEW w \in Worker, WSearchEnds(w) PROVE WaitInv'
  BY <1>6 DEF WSearchEnds
<1>7. ASSUME NEW w \in Worker, WNotify(w) PROVE WaitInv'
  BY <1>7 DEF WNotify, NotifyOne
<1>8. ASSUME NEW n \in 0 .. MaxWorkers, MStart(n) PROVE WaitInv'
  <2>1. CASE numThreads # 0
    <3>1. UNCHANGED <<cvWait, wpc, i>> /\ pc = "idle"
      BY <1>8, <2>1 DEF MStart
    <3> QED BY <3>1
  <2>2. CASE numThreads = 0
    <3>1. \A w \in Worker : wpc[w] = "none"
      BY <2>2 DEF Active
    <3>2. \A w \in Worker : "worker" \notin cvWait'[w] /\ "main" \notin cvWait'[w]
      BY <1>8, <3>1 DEF MStart
    <3> QED BY <3>2
  <2> QED BY <2>1, <2>2
<1>9. ASSUME NEW c \in Cube, MSolve(c) PROVE WaitInv'
  BY <1>9 DEF MSolve, BeginSolve
<1>10. CASE MWaitUntilAllDone
  BY <1>10 DEF MWaitUntilAllDone
<1>11. CASE MStop
  BY <1>11 DEF MStop
<1>12. CASE MPost
  BY <1>12 DEF MPost
<1>13. CASE MPostNotify
  BY <1>13 DEF MPostNotify, NotifyOne
<1>14. CASE MPollSkip
  BY <1>14 DEF MPollSkip, NextPoll
<1>15. CASE MPollReady
  BY <1>15 DEF MPollReady, NextPoll
<1>16. CASE MPollBlock
  BY <1>16 DEF MPollBlock
<1>17. CASE MPollWake
  BY <1>17 DEF MPollWake
<1>18. CASE MPollTimeout
  BY <1>18 DEF MPollTimeout, NextPoll
<1>19. CASE MPick
  BY <1>19 DEF MPick
<1>20. CASE MDrainNext
  BY <1>20 DEF MDrainNext, BeginSolve
<1>21. CASE MDrainBlock
  BY <1>21 DEF MDrainBlock
<1>22. CASE MDrainWake
  BY <1>22 DEF MDrainWake
<1>23. CASE MDrainSpurious
  BY <1>23 DEF MDrainSpurious
<1>24. CASE MStopPost
  BY <1>24 DEF MStopPost
<1>25. CASE MStopNotify
  BY <1>25 DEF MStopNotify, NotifyOne
<1>26. CASE MJoin
  BY <1>26 DEF MJoin, Fresh
<1>27. CASE UNCHANGED vars
  BY <1>27 DEF vars
<1> QED BY <1>1, <1>2, <1>3, <1>4, <1>5, <1>6, <1>7, <1>8, <1>9,
           <1>10, <1>11, <1>12, <1>13, <1>14, <1>15, <1>16, <1>17, <1>18,
           <1>19, <1>20, <1>21, <1>22, <1>23, <1>24, <1>25, <1>26, <1>27
    DEF Next, Call, MainStep, WorkerStep

\* What a sleeping thread waits for comes with a notification.
LEMMA WakeupStep == IInv /\ [Next]_vars => NoLostWakeup'
<1> SUFFICES ASSUME IInv, [Next]_vars PROVE NoLostWakeup'
  OBVIOUS
<1> USE DEF threadVars, mainVars, IInv, TypeOK, WaitInv, NoLostWakeup, Returns, Enters
<1>1. ASSUME NEW w \in Worker, WTop(w) PROVE NoLostWakeup'
  BY <1>1 DEF WTop
<1>2. ASSUME NEW w \in Worker, WWait(w) PROVE NoLostWakeup'
  BY <1>2 DEF WWait
<1>3. ASSUME NEW w \in Worker, WTake(w) PROVE NoLostWakeup'
  BY <1>3 DEF WTake
<1>4. ASSUME NEW w \in Worker, WWake(w) PROVE NoLostWakeup'
  BY <1>4 DEF WWake
<1>5. ASSUME NEW w \in Worker, WSpurious(w) PROVE NoLostWakeup'
  BY <1>5 DEF WSpurious
<1>6. ASSUME NEW w \in Worker, WSearchEnds(w) PROVE NoLostWakeup'
  BY <1>6 DEF WSearchEnds
<1>7. ASSUME NEW w \in Worker, WNotify(w) PROVE NoLostWakeup'
  BY <1>7 DEF WNotify, NotifyOne
<1>8. ASSUME NEW n \in 0 .. MaxWorkers, MStart(n) PROVE NoLostWakeup'
  BY <1>8 DEF MStart
<1>9. ASSUME NEW c \in Cube, MSolve(c) PROVE NoLostWakeup'
  BY <1>9 DEF MSolve, BeginSolve
<1>10. CASE MWaitUntilAllDone
  BY <1>10 DEF MWaitUntilAllDone
<1>11. CASE MStop
  BY <1>11 DEF MStop
<1>12. CASE MPost
  BY <1>12 DEF MPost
<1>13. CASE MPostNotify
  BY <1>13 DEF MPostNotify, NotifyOne
<1>14. CASE MPollSkip
  BY <1>14 DEF MPollSkip, NextPoll
<1>15. CASE MPollReady
  BY <1>15 DEF MPollReady, NextPoll
<1>16. CASE MPollBlock
  BY <1>16 DEF MPollBlock
<1>17. CASE MPollWake
  BY <1>17 DEF MPollWake
<1>18. CASE MPollTimeout
  BY <1>18 DEF MPollTimeout, NextPoll
<1>19. CASE MPick
  BY <1>19 DEF MPick
<1>20. CASE MDrainNext
  BY <1>20 DEF MDrainNext, BeginSolve
<1>21. CASE MDrainBlock
  BY <1>21 DEF MDrainBlock
<1>22. CASE MDrainWake
  BY <1>22 DEF MDrainWake
<1>23. CASE MDrainSpurious
  BY <1>23 DEF MDrainSpurious
<1>24. CASE MStopPost
  BY <1>24 DEF MStopPost
<1>25. CASE MStopNotify
  BY <1>25 DEF MStopNotify, NotifyOne
<1>26. CASE MJoin
  BY <1>26 DEF MJoin, Fresh
<1>27. CASE UNCHANGED vars
  BY <1>27 DEF vars
<1> QED BY <1>1, <1>2, <1>3, <1>4, <1>5, <1>6, <1>7, <1>8, <1>9,
           <1>10, <1>11, <1>12, <1>13, <1>14, <1>15, <1>16, <1>17, <1>18,
           <1>19, <1>20, <1>21, <1>22, <1>23, <1>24, <1>25, <1>26, <1>27
    DEF Next, Call, MainStep, WorkerStep

\* Taking a request clears the solution.
LEMMA SearchStep == IInv /\ [Next]_vars => SearchInv'
<1> SUFFICES ASSUME IInv, [Next]_vars PROVE SearchInv'
  OBVIOUS
<1> USE DEF threadVars, mainVars, IInv, TypeOK, SearchInv, Unlocked
<1>1. ASSUME NEW w \in Worker, WTop(w) PROVE SearchInv'
  BY <1>1 DEF WTop
<1>2. ASSUME NEW w \in Worker, WWait(w) PROVE SearchInv'
  BY <1>2 DEF WWait
<1>3. ASSUME NEW w \in Worker, WTake(w) PROVE SearchInv'
  BY <1>3 DEF WTake
<1>4. ASSUME NEW w \in Worker, WWake(w) PROVE SearchInv'
  BY <1>4 DEF WWake
<1>5. ASSUME NEW w \in Worker, WSpurious(w) PROVE SearchInv'
  BY <1>5 DEF WSpurious
<1>6. ASSUME NEW w \in Worker, WSearchEnds(w) PROVE SearchInv'
  BY <1>6 DEF WSearchEnds
<1>7. ASSUME NEW w \in Worker, WNotify(w) PROVE SearchInv'
  BY <1>7 DEF WNotify, NotifyOne
<1>8. ASSUME NEW n \in 0 .. MaxWorkers, MStart(n) PROVE SearchInv'
  BY <1>8 DEF MStart
<1>9. ASSUME NEW c \in Cube, MSolve(c) PROVE SearchInv'
  BY <1>9 DEF MSolve, BeginSolve
<1>10. CASE MWaitUntilAllDone
  BY <1>10 DEF MWaitUntilAllDone
<1>11. CASE MStop
  BY <1>11 DEF MStop
<1>12. CASE MPost
  BY <1>12 DEF MPost
<1>13. CASE MPostNotify
  BY <1>13 DEF MPostNotify, NotifyOne
<1>14. CASE MPollSkip
  BY <1>14 DEF MPollSkip, NextPoll
<1>15. CASE MPollReady
  BY <1>15 DEF MPollReady, NextPoll
<1>16. CASE MPollBlock
  BY <1>16 DEF MPollBlock
<1>17. CASE MPollWake
  BY <1>17 DEF MPollWake
<1>18. CASE MPollTimeout
  BY <1>18 DEF MPollTimeout, NextPoll
<1>19. CASE MPick
  BY <1>19 DEF MPick
<1>20. CASE MDrainNext
  BY <1>20 DEF MDrainNext, BeginSolve
<1>21. CASE MDrainBlock
  BY <1>21 DEF MDrainBlock
<1>22. CASE MDrainWake
  BY <1>22 DEF MDrainWake
<1>23. CASE MDrainSpurious
  BY <1>23 DEF MDrainSpurious
<1>24. CASE MStopPost
  BY <1>24 DEF MStopPost
<1>25. CASE MStopNotify
  BY <1>25 DEF MStopNotify, NotifyOne
<1>26. CASE MJoin
  BY <1>26 DEF MJoin, Fresh
<1>27. CASE UNCHANGED vars
  BY <1>27 DEF vars
<1> QED BY <1>1, <1>2, <1>3, <1>4, <1>5, <1>6, <1>7, <1>8, <1>9,
           <1>10, <1>11, <1>12, <1>13, <1>14, <1>15, <1>16, <1>17, <1>18,
           <1>19, <1>20, <1>21, <1>22, <1>23, <1>24, <1>25, <1>26, <1>27
    DEF Next, Call, MainStep, WorkerStep

\* What a step of a thread leaves true of every thread: rest and results stay,
\* and work for the caller goes on or ends with a result.
LEMMA WorkerKeeps ==
  ASSUME IInv, NEW w \in Worker, WorkerStep(w) \/ WSpurious(w)
  PROVE  /\ UNCHANGED mainVars
         /\ \A v \in Worker :
              /\ Quiet(v) => Quiet(v)'
              /\ Finished(v) => Finished(v)'
              /\ pc \notin Stopping /\ Busy(v) => Busy(v)' \/ Finished(v)'
              /\ pc \notin Stopping /\ Handed(v) => Handed(v)'
<1> DEFINE Goal(v) == /\ Quiet(v) => Quiet(v)'
                      /\ Finished(v) => Finished(v)'
                      /\ pc \notin Stopping /\ Busy(v) => Busy(v)' \/ Finished(v)'
                      /\ pc \notin Stopping /\ Handed(v) => Handed(v)'
<1> SUFFICES ASSUME NEW v \in Worker PROVE UNCHANGED mainVars /\ Goal(v)
  OBVIOUS
<1> USE DEF threadVars, mainVars, IInv, TypeOK, Quiet, Finished, Busy, Current, Handed
<1>1. CASE WTop(w)
  BY <1>1 DEF WTop
<1>2. CASE WWait(w)
  BY <1>2 DEF WWait
<1>3. CASE WTake(w)
  <2>1. die[w] => pc \in Stopping
    BY DEF DieInv
  <2>2. CASE v = w
    BY <1>3, <2>1, <2>2 DEF WTake
  <2>3. CASE v # w
    BY <1>3, <2>3 DEF WTake
  <2> QED BY <2>2, <2>3
<1>4. CASE WWake(w)
  BY <1>4 DEF WWake
<1>5. CASE WSpurious(w)
  BY <1>5 DEF WSpurious
<1>6. CASE WSearchEnds(w)
  <2>1. CASE v # w
    BY <1>6, <2>1 DEF WSearchEnds
  <2>2. CASE v = w
    <3>1. solution[w] = Empty
      BY <1>6 DEF WSearchEnds, SearchInv
    <3>2. \/ error'[w] /\ solution'[w] = Empty
          \/ solution'[w].cube = cubeState[w] /\ solution'[w].time > 0
      BY <1>6, <3>1, TimeAssumption DEF WSearchEnds, Found
    <3>3. Finished(w)' /\ ~Quiet(w) /\ (Handed(w) => cubeState'[w] = request')
      <4>1. ~inputReady[w]
        BY <1>6 DEF WSearchEnds, SearchInv
      <4> QED BY <1>6, <4>1 DEF WSearchEnds
    <3> QED BY <1>6, <2>2, <3>2, <3>3 DEF WSearchEnds, Empty
  <2> QED BY <2>1, <2>2
<1>7. CASE WNotify(w)
  BY <1>7 DEF WNotify, NotifyOne
<1> QED BY <1>1, <1>2, <1>3, <1>4, <1>5, <1>6, <1>7 DEF WorkerStep

\* Between calls with an empty doneThreads_ no thread works.
LEMMA QuietStep == IInv /\ [Next]_vars => QuietWhenDrained'
<1> SUFFICES ASSUME IInv, [Next]_vars PROVE QuietWhenDrained'
  OBVIOUS
<1>1. ASSUME NEW w \in Worker, WorkerStep(w) \/ WSpurious(w) PROVE QuietWhenDrained'
  <2>1. /\ pc' = pc /\ i' = i /\ doneSized' = doneSized /\ allDone' = allDone
        /\ Active' = Active /\ doneThreads' = doneThreads /\ request' = request
        /\ ret' = ret
    BY <1>1, WorkerKeeps DEF mainVars, Active
  <2>2. Active \subseteq Worker
    BY WorkerFacts DEF IInv, TypeOK, Active
  <2>3. \A v \in Active :
          /\ Quiet(v) => Quiet(v)'
          /\ Finished(v) => Finished(v)'
          /\ pc \notin Stopping /\ Busy(v) => Busy(v)' \/ Finished(v)'
          /\ pc \notin Stopping /\ Handed(v) => Handed(v)'
    BY <1>1, <2>2, WorkerKeeps
  <2> QED BY <2>1, <2>3 DEF IInv, QuietWhenDrained, Quiet, Polling, Draining, Stopping
<1> USE DEF threadVars, Unlocked, mainVars, IInv, TypeOK, IndexInv, Worker, Active, Returns, Enters,
             Polling, Draining, Stopping, Quiet, Finished, Busy, DrainInv, QuietWhenDrained
<1>2. ASSUME NEW n \in 0 .. MaxWorkers, MStart(n) PROVE QuietWhenDrained'
  <2>1. CASE numThreads # 0
    <3>1. UNCHANGED <<numThreads, doneSized, doneThreads, wpc, inputReady>> /\ pc = "idle"
      BY <1>2, <2>1 DEF MStart
    <3> QED BY <3>1
  <2>2. CASE numThreads = 0
    <3>1. \A w \in Worker : wpc'[w] # "search" /\ ~inputReady'[w]
      BY <1>2, <2>2 DEF MStart
    <3>2. numThreads' \in 0 .. MaxWorkers
      BY <1>2, <2>2 DEF MStart
    <3>3. \A w \in Active' : w \in Worker
      BY <3>2, WorkerFacts
    <3> QED BY <3>1, <3>3
  <2> QED BY <2>1, <2>2
<1>3. ASSUME NEW c \in Cube, MSolve(c) PROVE QuietWhenDrained'
  BY <1>3 DEF MSolve, BeginSolve
<1>4. CASE MWaitUntilAllDone
  BY <1>4 DEF MWaitUntilAllDone
<1>5. CASE MStop
  BY <1>5 DEF MStop
<1>6. CASE MPost
  BY <1>6 DEF MPost
<1>7. CASE MPostNotify
  BY <1>7 DEF MPostNotify, NotifyOne
<1>8. CASE MPollSkip
  BY <1>8 DEF MPollSkip, NextPoll
<1>9. CASE MPollReady
  BY <1>9 DEF MPollReady, NextPoll
<1>10. CASE MPollBlock
  BY <1>10 DEF MPollBlock
<1>11. CASE MPollWake
  BY <1>11 DEF MPollWake
<1>12. CASE MPollTimeout
  BY <1>12 DEF MPollTimeout, NextPoll
<1>13. CASE MPick
  BY <1>13 DEF MPick
<1>14. CASE MDrainNext
  BY <1>14 DEF MDrainNext, BeginSolve
<1>15. CASE MDrainBlock
  BY <1>15 DEF MDrainBlock
<1>16. CASE MDrainWake
  BY <1>16 DEF MDrainWake
<1>17. CASE MDrainSpurious
  BY <1>17 DEF MDrainSpurious
<1>18. CASE MStopPost
  BY <1>18 DEF MStopPost
<1>19. CASE MStopNotify
  BY <1>19 DEF MStopNotify, NotifyOne
<1>20. CASE MJoin
  BY <1>20 DEF MJoin, Fresh
<1>21. CASE UNCHANGED vars
  BY <1>21 DEF vars
<1> QED BY <1>1, <1>2, <1>3, <1>4, <1>5, <1>6, <1>7, <1>8, <1>9,
           <1>10, <1>11, <1>12, <1>13, <1>14, <1>15, <1>16, <1>17, <1>18,
           <1>19, <1>20, <1>21
    DEF Next, Call, MainStep

\* waitUntilAllDone() passes only threads that have finished.
LEMMA DrainStep == IInv /\ [Next]_vars => DrainInv'
<1> SUFFICES ASSUME IInv, [Next]_vars PROVE DrainInv'
  OBVIOUS
<1>1. ASSUME NEW w \in Worker, WorkerStep(w) \/ WSpurious(w) PROVE DrainInv'
  <2>1. /\ pc' = pc /\ i' = i /\ doneSized' = doneSized /\ allDone' = allDone
        /\ Active' = Active /\ doneThreads' = doneThreads /\ request' = request
        /\ ret' = ret
    BY <1>1, WorkerKeeps DEF mainVars, Active
  <2>2. Active \subseteq Worker
    BY WorkerFacts DEF IInv, TypeOK, Active
  <2>3. \A v \in Active :
          /\ Quiet(v) => Quiet(v)'
          /\ Finished(v) => Finished(v)'
          /\ pc \notin Stopping /\ Busy(v) => Busy(v)' \/ Finished(v)'
          /\ pc \notin Stopping /\ Handed(v) => Handed(v)'
    BY <1>1, <2>2, WorkerKeeps
  <2> QED BY <2>1, <2>3 DEF IInv, DrainInv, Polling, Draining, Stopping
<1> USE DEF threadVars, Unlocked, mainVars, IInv, TypeOK, IndexInv, Worker, Active, Returns, Enters,
             Polling, Draining, Stopping, Quiet, Finished, Busy, Current, Handed,
             PollInv, DrainInv
<1>2. ASSUME NEW n \in 0 .. MaxWorkers, MStart(n) PROVE DrainInv'
  BY <1>2 DEF MStart
<1>3. ASSUME NEW c \in Cube, MSolve(c) PROVE DrainInv'
  BY <1>3 DEF MSolve, BeginSolve
<1>4. CASE MWaitUntilAllDone
  BY <1>4 DEF MWaitUntilAllDone
<1>5. CASE MStop
  BY <1>5 DEF MStop
<1>6. CASE MPost
  BY <1>6 DEF MPost
<1>7. CASE MPostNotify
  BY <1>7 DEF MPostNotify, NotifyOne
<1>8. CASE MPollSkip
  BY <1>8 DEF MPollSkip, NextPoll
<1>9. CASE MPollReady
  BY <1>9 DEF MPollReady, NextPoll
<1>10. CASE MPollBlock
  BY <1>10 DEF MPollBlock
<1>11. CASE MPollWake
  BY <1>11 DEF MPollWake
<1>12. CASE MPollTimeout
  BY <1>12 DEF MPollTimeout, NextPoll
<1>13. CASE MPick
  BY <1>13 DEF MPick
<1>14. CASE MDrainNext
  <2>1. /\ i \in Active /\ pc = "drain"
        /\ \A v \in Active : v < i => Finished(v)
        /\ \A v \in Active : Busy(v) \/ Finished(v)
    BY <1>14 DEF MDrainNext, DrainInv
  <2>2. Finished(i)
    BY <1>14, <2>1 DEF MDrainNext, DrainInv
  <2>3. \A v \in Active : v < i + 1 => Finished(v)
    BY <2>1, <2>2
  <2>4. UNCHANGED <<inputReady, outputReady, wpc, numThreads, cubeState, solution, error>>
    BY <1>14 DEF MDrainNext
  <2>5. CASE i + 1 < numThreads
    <3>1. pc' = "drain" /\ i' = i + 1 /\ doneThreads' = doneThreads
      BY <1>14, <2>5 DEF MDrainNext
    <3> QED BY <2>1, <2>3, <2>4, <3>1
  <2>6. CASE ~(i + 1 < numThreads)
    BY <1>14, <2>6 DEF MDrainNext, BeginSolve
  <2> QED BY <2>5, <2>6
<1>15. CASE MDrainBlock
  BY <1>15 DEF MDrainBlock
<1>16. CASE MDrainWake
  BY <1>16 DEF MDrainWake
<1>17. CASE MDrainSpurious
  BY <1>17 DEF MDrainSpurious
<1>18. CASE MStopPost
  BY <1>18 DEF MStopPost
<1>19. CASE MStopNotify
  BY <1>19 DEF MStopNotify, NotifyOne
<1>20. CASE MJoin
  BY <1>20 DEF MJoin, Fresh
<1>21. CASE UNCHANGED vars
  BY <1>21 DEF vars
<1> QED BY <1>1, <1>2, <1>3, <1>4, <1>5, <1>6, <1>7, <1>8, <1>9,
           <1>10, <1>11, <1>12, <1>13, <1>14, <1>15, <1>16, <1>17, <1>18,
           <1>19, <1>20, <1>21
    DEF Next, Call, MainStep

\* A pass that found every thread done has marked every thread.
LEMMA ScanStep == IInv /\ [Next]_vars => ScanInv'
<1> SUFFICES ASSUME IInv, [Next]_vars PROVE ScanInv'
  OBVIOUS
<1>1. ASSUME NEW w \in Worker, WorkerStep(w) \/ WSpurious(w) PROVE ScanInv'
  <2>1. /\ pc' = pc /\ i' = i /\ doneSized' = doneSized /\ allDone' = allDone
        /\ Active' = Active /\ doneThreads' = doneThreads /\ request' = request
        /\ ret' = ret
    BY <1>1, WorkerKeeps DEF mainVars, Active
  <2>2. Active \subseteq Worker
    BY WorkerFacts DEF IInv, TypeOK, Active
  <2>3. \A v \in Active :
          /\ Quiet(v) => Quiet(v)'
          /\ Finished(v) => Finished(v)'
          /\ pc \notin Stopping /\ Busy(v) => Busy(v)' \/ Finished(v)'
          /\ pc \notin Stopping /\ Handed(v) => Handed(v)'
    BY <1>1, <2>2, WorkerKeeps
  <2> QED BY <2>1, <2>3 DEF IInv, ScanInv, Polling, Draining, Stopping
<1> USE DEF threadVars, Unlocked, mainVars, IInv, TypeOK, IndexInv, Worker, Active, Returns, Enters,
             Polling, Draining, Stopping, Quiet, Finished, Busy, ScanInv
<1>2. ASSUME NEW n \in 0 .. MaxWorkers, MStart(n) PROVE ScanInv'
  BY <1>2 DEF MStart
<1>3. ASSUME NEW c \in Cube, MSolve(c) PROVE ScanInv'
  BY <1>3 DEF MSolve, BeginSolve
<1>4. CASE MWaitUntilAllDone
  BY <1>4 DEF MWaitUntilAllDone
<1>5. CASE MStop
  BY <1>5 DEF MStop
<1>6. CASE MPost
  BY <1>6 DEF MPost
<1>7. CASE MPostNotify
  BY <1>7 DEF MPostNotify, NotifyOne
<1>8. CASE MPollSkip
  <2>1. pc \in Polling /\ i < numThreads /\ i \in doneThreads
        /\ doneThreads' = doneThreads /\ numThreads' = numThreads
        /\ NextPoll(allDone)
    BY <1>8 DEF MPollSkip
  <2>2. allDone => \A v \in Active : v < i + 1 => v \in doneThreads'
    BY <2>1 DEF ScanInv
  <2>3. doneThreads' \subseteq Active
    BY <2>1
  <2>4. CASE pc' = "idle"
    BY <2>4
  <2>5. CASE i + 1 < numThreads /\ pc' = "poll" /\ i' = i + 1 /\ allDone' = allDone
    BY <2>1, <2>2, <2>5
  <2>6. CASE i + 1 = numThreads /\ pc' = (IF allDone THEN "pick" ELSE "poll") /\ i' = 0
    <3>1. \A v \in Active : v < i + 1 /\ ~(v < i')
      BY <2>6
    <3>2. allDone => Active \subseteq doneThreads'
      BY <3>1, <2>2
    <3>3. allDone => doneThreads' = Active'
      BY <3>2, <2>1, <2>3
    <3> QED BY <2>1, <2>6, <3>1, <3>3
  <2> QED BY <2>1, <2>4, <2>5, <2>6 DEF NextPoll
<1>9. CASE MPollReady
  <2>1. /\ pc \in Polling /\ i < numThreads
        /\ doneThreads' = doneThreads \cup {i}
        /\ numThreads' = numThreads
        /\ pc' = "idle" \/ NextPoll(allDone)
    BY <1>9 DEF MPollReady
  <2>2. allDone => \A v \in Active : v < i + 1 => v \in doneThreads'
    BY <2>1 DEF ScanInv
  <2>3. doneThreads' \subseteq Active
    BY <2>1
  <2>4. CASE pc' = "idle"
    BY <2>4
  <2>5. CASE i + 1 < numThreads /\ pc' = "poll" /\ i' = i + 1 /\ allDone' = allDone
    BY <2>1, <2>2, <2>5
  <2>6. CASE i + 1 = numThreads /\ pc' = (IF allDone THEN "pick" ELSE "poll") /\ i' = 0
    <3>1. \A v \in Active : v < i + 1 /\ ~(v < i')
      BY <2>6
    <3>2. allDone => Active \subseteq doneThreads'
      BY <3>1, <2>2
    <3>3. allDone => doneThreads' = Active'
      BY <3>2, <2>1, <2>3
    <3> QED BY <2>1, <2>6, <3>1, <3>3
  <2> QED BY <2>1, <2>4, <2>5, <2>6 DEF NextPoll
<1>10. CASE MPollBlock
  BY <1>10 DEF MPollBlock
<1>11. CASE MPollWake
  BY <1>11 DEF MPollWake
<1>12. CASE MPollTimeout
  BY <1>12 DEF MPollTimeout, NextPoll
<1>13. CASE MPick
  BY <1>13 DEF MPick
<1>14. CASE MDrainNext
  BY <1>14 DEF MDrainNext, BeginSolve
<1>15. CASE MDrainBlock
  BY <1>15 DEF MDrainBlock
<1>16. CASE MDrainWake
  BY <1>16 DEF MDrainWake
<1>17. CASE MDrainSpurious
  BY <1>17 DEF MDrainSpurious
<1>18. CASE MStopPost
  BY <1>18 DEF MStopPost
<1>19. CASE MStopNotify
  BY <1>19 DEF MStopNotify, NotifyOne
<1>20. CASE MJoin
  BY <1>20 DEF MJoin, Fresh
<1>21. CASE UNCHANGED vars
  BY <1>21 DEF vars
<1> QED BY <1>1, <1>2, <1>3, <1>4, <1>5, <1>6, <1>7, <1>8, <1>9,
           <1>10, <1>11, <1>12, <1>13, <1>14, <1>15, <1>16, <1>17, <1>18,
           <1>19, <1>20, <1>21
    DEF Next, Call, MainStep

\* The threads before i have the state, the others rest.
LEMMA PostStep == IInv /\ [Next]_vars => PostInv'
<1> SUFFICES ASSUME IInv, [Next]_vars PROVE PostInv'
  OBVIOUS
<1>1. ASSUME NEW w \in Worker, WorkerStep(w) \/ WSpurious(w) PROVE PostInv'
  <2>1. /\ pc' = pc /\ i' = i /\ doneSized' = doneSized /\ allDone' = allDone
        /\ Active' = Active /\ doneThreads' = doneThreads /\ request' = request
        /\ ret' = ret
    BY <1>1, WorkerKeeps DEF mainVars, Active
  <2>2. Active \subseteq Worker
    BY WorkerFacts DEF IInv, TypeOK, Active
  <2>3. \A v \in Active :
          /\ Quiet(v) => Quiet(v)'
          /\ Finished(v) => Finished(v)'
          /\ pc \notin Stopping /\ Busy(v) => Busy(v)' \/ Finished(v)'
          /\ pc \notin Stopping /\ Handed(v) => Handed(v)'
    BY <1>1, <2>2, WorkerKeeps
  <2> QED BY <2>1, <2>3 DEF IInv, PostInv, Polling, Draining, Stopping
<1> USE DEF threadVars, Unlocked, mainVars, IInv, TypeOK, IndexInv, Worker, Active, Returns, Enters,
             Polling, Draining, Stopping, Quiet, Finished, Busy, Current, Handed,
             PostInv, QuietWhenDrained, DrainInv
<1>2. ASSUME NEW n \in 0 .. MaxWorkers, MStart(n) PROVE PostInv'
  BY <1>2 DEF MStart
<1>3. ASSUME NEW c \in Cube, MSolve(c) PROVE PostInv'
  BY <1>3 DEF MSolve, BeginSolve
<1>4. CASE MWaitUntilAllDone
  BY <1>4 DEF MWaitUntilAllDone
<1>5. CASE MStop
  BY <1>5 DEF MStop
<1>6. CASE MPost
  BY <1>6 DEF MPost
<1>7. CASE MPostNotify
  BY <1>7 DEF MPostNotify, NotifyOne
<1>8. CASE MPollSkip
  BY <1>8 DEF MPollSkip, NextPoll
<1>9. CASE MPollReady
  BY <1>9 DEF MPollReady, NextPoll
<1>10. CASE MPollBlock
  BY <1>10 DEF MPollBlock
<1>11. CASE MPollWake
  BY <1>11 DEF MPollWake
<1>12. CASE MPollTimeout
  BY <1>12 DEF MPollTimeout, NextPoll
<1>13. CASE MPick
  BY <1>13 DEF MPick
<1>14. CASE MDrainNext
  <2>1. /\ i \in Active /\ pc = "drain"
        /\ \A v \in Active : v < i => Finished(v)
        /\ \A v \in Active : Busy(v) \/ Finished(v)
    BY <1>14 DEF MDrainNext, DrainInv
  <2>2. Finished(i)
    BY <1>14, <2>1 DEF MDrainNext, DrainInv
  <2>3. \A v \in Active : v < i + 1 => Finished(v)
    BY <2>1, <2>2
  <2>4. UNCHANGED <<inputReady, outputReady, wpc, numThreads, cubeState, solution, error>>
    BY <1>14 DEF MDrainNext
  <2>5. CASE i + 1 < numThreads
    BY <1>14, <2>5 DEF MDrainNext
  <2>6. CASE ~(i + 1 < numThreads)
    <3>1. (pc' = "post" /\ i' = 0) \/ pc' = "idle"
      BY <1>14, <2>6 DEF MDrainNext, BeginSolve
    <3>2. \A v \in Active : Quiet(v)
      BY <2>1, <2>3, <2>6
    <3> QED BY <2>4, <3>1, <3>2
  <2> QED BY <2>5, <2>6
<1>15. CASE MDrainBlock
  BY <1>15 DEF MDrainBlock
<1>16. CASE MDrainWake
  BY <1>16 DEF MDrainWake
<1>17. CASE MDrainSpurious
  BY <1>17 DEF MDrainSpurious
<1>18. CASE MStopPost
  BY <1>18 DEF MStopPost
<1>19. CASE MStopNotify
  BY <1>19 DEF MStopNotify, NotifyOne
<1>20. CASE MJoin
  BY <1>20 DEF MJoin, Fresh
<1>21. CASE UNCHANGED vars
  BY <1>21 DEF vars
<1> QED BY <1>1, <1>2, <1>3, <1>4, <1>5, <1>6, <1>7, <1>8, <1>9,
           <1>10, <1>11, <1>12, <1>13, <1>14, <1>15, <1>16, <1>17, <1>18,
           <1>19, <1>20, <1>21
    DEF Next, Call, MainStep

\* While results are collected each thread works on, or has solved, this state.
LEMMA PollStep == IInv /\ [Next]_vars => PollInv'
<1> SUFFICES ASSUME IInv, [Next]_vars PROVE PollInv'
  OBVIOUS
<1>1. ASSUME NEW w \in Worker, WorkerStep(w) \/ WSpurious(w) PROVE PollInv'
  <2>1. /\ pc' = pc /\ i' = i /\ doneSized' = doneSized /\ allDone' = allDone
        /\ Active' = Active /\ doneThreads' = doneThreads /\ request' = request
        /\ ret' = ret
    BY <1>1, WorkerKeeps DEF mainVars, Active
  <2>2. Active \subseteq Worker
    BY WorkerFacts DEF IInv, TypeOK, Active
  <2>3. \A v \in Active :
          /\ Quiet(v) => Quiet(v)'
          /\ Finished(v) => Finished(v)'
          /\ pc \notin Stopping /\ Busy(v) => Busy(v)' \/ Finished(v)'
          /\ pc \notin Stopping /\ Handed(v) => Handed(v)'
    BY <1>1, <2>2, WorkerKeeps
  <2> QED BY <2>1, <2>3 DEF IInv, PollInv, Polling, Draining, Stopping
<1> USE DEF threadVars, Unlocked, mainVars, IInv, TypeOK, IndexInv, Worker, Active, Returns, Enters,
             Polling, Draining, Stopping, Quiet, Finished, Busy, Current, Handed,
             PollInv, PostInv
<1>2. ASSUME NEW n \in 0 .. MaxWorkers, MStart(n) PROVE PollInv'
  BY <1>2 DEF MStart
<1>3. ASSUME NEW c \in Cube, MSolve(c) PROVE PollInv'
  BY <1>3 DEF MSolve, BeginSolve
<1>4. CASE MWaitUntilAllDone
  BY <1>4 DEF MWaitUntilAllDone
<1>5. CASE MStop
  BY <1>5 DEF MStop
<1>6. CASE MPost
  BY <1>6 DEF MPost
<1>7. CASE MPostNotify
  BY <1>7 DEF MPostNotify, NotifyOne
<1>8. CASE MPollSkip
  BY <1>8 DEF MPollSkip, NextPoll
<1>9. CASE MPollReady
  BY <1>9 DEF MPollReady, NextPoll
<1>10. CASE MPollBlock
  BY <1>10 DEF MPollBlock
<1>11. CASE MPollWake
  BY <1>11 DEF MPollWake
<1>12. CASE MPollTimeout
  BY <1>12 DEF MPollTimeout, NextPoll
<1>13. CASE MPick
  BY <1>13 DEF MPick
<1>14. CASE MDrainNext
  BY <1>14 DEF MDrainNext, BeginSolve
<1>15. CASE MDrainBlock
  BY <1>15 DEF MDrainBlock
<1>16. CASE MDrainWake
  BY <1>16 DEF MDrainWake
<1>17. CASE MDrainSpurious
  BY <1>17 DEF MDrainSpurious
<1>18. CASE MStopPost
  BY <1>18 DEF MStopPost
<1>19. CASE MStopNotify
  BY <1>19 DEF MStopNotify, NotifyOne
<1>20. CASE MJoin
  BY <1>20 DEF MJoin, Fresh
<1>21. CASE UNCHANGED vars
  BY <1>21 DEF vars
<1> QED BY <1>1, <1>2, <1>3, <1>4, <1>5, <1>6, <1>7, <1>8, <1>9,
           <1>10, <1>11, <1>12, <1>13, <1>14, <1>15, <1>16, <1>17, <1>18,
           <1>19, <1>20, <1>21
    DEF Next, Call, MainStep

\* What solve() returns was computed for its own state.
LEMMA AnswerStep == IInv /\ [Next]_vars => AnswersTheRequest'
<1> SUFFICES ASSUME IInv, [Next]_vars PROVE AnswersTheRequest'
  OBVIOUS
<1>1. ASSUME NEW w \in Worker, WorkerStep(w) \/ WSpurious(w) PROVE AnswersTheRequest'
  <2>1. /\ pc' = pc /\ i' = i /\ doneSized' = doneSized /\ allDone' = allDone
        /\ Active' = Active /\ doneThreads' = doneThreads /\ request' = request
        /\ ret' = ret
    BY <1>1, WorkerKeeps DEF mainVars, Active
  <2>2. Active \subseteq Worker
    BY WorkerFacts DEF IInv, TypeOK, Active
  <2>3. \A v \in Active :
          /\ Quiet(v) => Quiet(v)'
          /\ Finished(v) => Finished(v)'
          /\ pc \notin Stopping /\ Busy(v) => Busy(v)' \/ Finished(v)'
          /\ pc \notin Stopping /\ Handed(v) => Handed(v)'
    BY <1>1, <2>2, WorkerKeeps
  <2> QED BY <2>1, <2>3 DEF IInv, AnswersTheRequest, Polling, Draining, Stopping
<1> USE DEF threadVars, Unlocked, mainVars, IInv, TypeOK, IndexInv, Worker, Active, Returns, Enters,
             Polling, Draining, Stopping, Quiet, Finished, Busy, Current, Handed,
             PollInv, ScanInv, AnswersTheRequest, Sol, Empty
<1>2. ASSUME NEW n \in 0 .. MaxWorkers, MStart(n) PROVE AnswersTheRequest'
  BY <1>2 DEF MStart
<1>3. ASSUME NEW c \in Cube, MSolve(c) PROVE AnswersTheRequest'
  BY <1>3 DEF MSolve, BeginSolve
<1>4. CASE MWaitUntilAllDone
  BY <1>4 DEF MWaitUntilAllDone
<1>5. CASE MStop
  BY <1>5 DEF MStop
<1>6. CASE MPost
  BY <1>6 DEF MPost
<1>7. CASE MPostNotify
  BY <1>7 DEF MPostNotify, NotifyOne
<1>8. CASE MPollSkip
  BY <1>8 DEF MPollSkip, NextPoll
<1>9. CASE MPollReady
  BY <1>9 DEF MPollReady, NextPoll
<1>10. CASE MPollBlock
  BY <1>10 DEF MPollBlock
<1>11. CASE MPollWake
  BY <1>11 DEF MPollWake
<1>12. CASE MPollTimeout
  BY <1>12 DEF MPollTimeout, NextPoll
<1>13. CASE MPick
  BY <1>13 DEF MPick
<1>14. CASE MDrainNext
  BY <1>14 DEF MDrainNext, BeginSolve
<1>15. CASE MDrainBlock
  BY <1>15 DEF MDrainBlock
<1>16. CASE MDrainWake
  BY <1>16 DEF MDrainWake
<1>17. CASE MDrainSpurious
  BY <1>17 DEF MDrainSpurious
<1>18. CASE MStopPost
  BY <1>18 DEF MStopPost
<1>19. CASE MStopNotify
  BY <1>19 DEF MStopNotify, NotifyOne
<1>20. CASE MJoin
  BY <1>20 DEF MJoin, Fresh
<1>21. CASE UNCHANGED vars
  BY <1>21 DEF vars
<1> QED BY <1>1, <1>2, <1>3, <1>4, <1>5, <1>6, <1>7, <1>8, <1>9,
           <1>10, <1>11, <1>12, <1>13, <1>14, <1>15, <1>16, <1>17, <1>18,
           <1>19, <1>20, <1>21
    DEF Next, Call, MainStep

-----------------------------------------------------------------------------
LEMMA InvInit == Init => IInv
<1> SUFFICES ASSUME Init PROVE IInv
  OBVIOUS
<1>1. TypeOK
  BY TypeInit
<1>2. \A w \in Worker : ~inputReady[w] /\ ~die[w] /\ cvWait[w] = {} /\ wpc[w] = "none"
  BY DEF Init, Fresh
<1>3. pc = "idle" /\ numThreads = 0 /\ ~doneSized /\ doneThreads = {} /\ ret.kind = "none"
  BY DEF Init
<1> QED BY <1>1, <1>2, <1>3
    DEF IInv, IndexInv, DieInv, WaitInv, NoLostWakeup, SearchInv, PostInv, PollInv,
        ScanInv, DrainInv, QuietWhenDrained, AnswersTheRequest, Active, Polling, Draining

LEMMA InvStep == IInv /\ [Next]_vars => IInv'
<1>1. IInv /\ [Next]_vars => TypeOK'
  <2> SUFFICES ASSUME TypeOK, [Next]_vars PROVE TypeOK'
    BY DEF IInv
  <2> QED BY TypeStep
<1> QED BY <1>1, IndexStep, DieStep, WaitStep, WakeupStep, SearchStep, QuietStep,
           DrainStep, ScanStep, PostStep, PollStep, AnswerStep DEF IInv

LEMMA Invariant == Spec => []IInv
BY InvInit, InvStep, PTL DEF Spec

\* When solve() makes its choice, no thread is writing the results it reads
\* without their mutex.
THEOREM PickIsRaceFree == Spec => []NoPickRace
<1>1. IInv => NoPickRace
  BY DEF IInv, PollInv, ScanInv, NoPickRace, Polling, Finished, Quiet
<1> QED BY <1>1, Invariant, PTL

\* A returned solution was computed for the state of its own call.
THEOREM NoStaleAnswer == Spec => []AnswersTheRequest
<1>1. IInv => AnswersTheRequest
  BY DEF IInv
<1> QED BY <1>1, Invariant, PTL

\* A thread that sleeps although what it waits for has come is about to be
\* notified.
THEOREM WakeupsAreNotLost == Spec => []NoLostWakeup
<1>1. IInv => NoLostWakeup
  BY DEF IInv
<1> QED BY <1>1, Invariant, PTL

\* When waitUntilAllDone() has returned, no thread works.
THEOREM DrainedMeansQuiet == Spec => []QuietWhenDrained
<1>1. IInv => QuietWhenDrained
  BY DEF IInv
<1> QED BY <1>1, Invariant, PTL

\* The input of a thread is changed only when it has nothing left to do for the
\* one before.
THEOREM InputsAreStable == Spec => RequestsNotOverwritten
<1>1. IInv /\ [Next]_vars => [InputsKept]_vars
  <2> SUFFICES ASSUME IInv, Next PROVE InputsKept
    BY DEF vars
  <2> USE DEF InputsKept
  <2>1. CASE MPost
    <3>1. i \in Active /\ Quiet(i)
      BY <2>1 DEF MPost, IInv, PostInv, IndexInv, TypeOK, Active, Worker
    <3>2. \A w \in Worker : w # i => cubeState'[w] = cubeState[w]
      BY <2>1 DEF MPost, IInv, TypeOK
    <3> QED BY <3>1, <3>2 DEF Quiet
  <2>2. CASE MJoin
    BY <2>2 DEF MJoin, Fresh, threadVars
  <2>3. CASE UNCHANGED cubeState
    BY <2>3
  <2>4. MPost \/ MJoin \/ UNCHANGED cubeState
    BY DEF Next, Call, MainStep, WorkerStep, threadVars, mainVars,
           WTop, WWait, WTake, WWake, WSpurious, WSearchEnds, WNotify,
           MStart, MSolve, MWaitUntilAllDone, MStop, MPostNotify, MPollSkip,
           MPollReady, MPollBlock, MPollWake, MPollTimeout, MPick, MDrainNext,
           MDrainBlock, MDrainWake, MDrainSpurious, MStopPost, MStopNotify
  <2> QED BY <2>1, <2>2, <2>3, <2>4
<1> QED BY <1>1, Invariant, PTL DEF Spec, RequestsNotOverwritten

\* When no search fails, solve() returns a solution of its state, and after a
\* full wait one that no thread's solution beats.
THEOREM CleanRounds == Spec => CleanRoundSucceeds
<1>1. IInv /\ [Next]_vars => [CleanRound => BestAnswer]_vars
  <2> SUFFICES ASSUME IInv, Next, CleanRound PROVE BestAnswer
    BY DEF vars
  <2> USE DEF CleanRound, BestAnswer
  <2>1. \A w \in Active : w \in Worker
    BY WorkerFacts DEF IInv, TypeOK, Active
  <2>2. \A w \in Active : Handed(w)
    BY DEF IInv, PollInv, Polling
  <2>3. \A w \in Active : Finished(w) =>
          Sol(w) = solution[w] /\ solution[w].cube = request /\ solution[w].time > 0
    BY <2>2 DEF Handed, Current, Sol, Empty
  <2>4. CASE MPollReady
    <3>1. i \in Active /\ Unlocked(i) /\ outputReady[i] /\ ret' = [kind |-> "solution", sol |-> Sol(i)]
      BY <2>4, WorkerFacts
      DEF MPollReady, NextPoll, Returns, IInv, IndexInv, TypeOK, Active, Worker
    <3>2. Finished(i) /\ pc # "pick"
      BY <2>2, <2>4, <3>1 DEF Handed, Busy, Finished, Quiet, Unlocked, MPollReady
    <3> QED BY <2>3, <3>1, <3>2
  <2>5. CASE MPick
    <3>1. \A w \in Active : Finished(w)
      BY <2>5 DEF MPick, IInv, ScanInv, PollInv, Polling
    <3>2. PICK w \in Active :
            /\ Shortest(w)
            /\ IF Sol(w) = Empty THEN Returns("error", Empty)
                                 ELSE Returns("solution", Sol(w))
      BY <2>5 DEF MPick
    <3>3. Sol(w) # Empty /\ Sol(w).cube = request
      BY <2>3, <3>1 DEF Empty
    <3>4. ret' = [kind |-> "solution", sol |-> Sol(w)]
      BY <3>2, <3>3 DEF Returns
    <3>5. \A v \in Active : Sol(v).time \in Int
      BY <2>1, SolType DEF IInv, TypeOK, Text
    <3>6. \A v \in Active : Sol(w).time <= Sol(v).time
      BY <3>2, <3>5 DEF Shortest
    <3> QED BY <2>3, <3>1, <3>3, <3>4, <3>6
  <2>6. MPollReady \/ MPick
    <3>1. CASE Call
      BY <3>1 DEF Call, MStart, MSolve, MWaitUntilAllDone, MStop
    <3>2. CASE MainStep
      BY <3>2 DEF MainStep, MPost, MPostNotify, MPollSkip, MPollBlock, MPollWake,
                  MPollTimeout, NextPoll, MDrainNext, MDrainBlock, MDrainWake,
                  MStopPost, MStopNotify, MJoin
    <3>3. ASSUME NEW w \in Worker, WorkerStep(w) \/ WSpurious(w) PROVE FALSE
      BY <3>3, WorkerKeeps DEF mainVars
    <3> QED BY <3>1, <3>2, <3>3 DEF Next, MDrainSpurious
  <2> QED BY <2>4, <2>5, <2>6
<1> QED BY <1>1, Invariant, PTL DEF Spec, CleanRoundSucceeds

-----------------------------------------------------------------------------
\* Induction.

\* Induction over the natural numbers, with a set for the predicate: a number
\* outside it would have a least one with it.
LEMMA NatInd ==
  ASSUME NEW S, 0 \in S, \A n \in Nat : n \in S => n + 1 \in S
  PROVE  Nat \subseteq S
<1> SUFFICES ASSUME Nat \ S # {} PROVE FALSE
  OBVIOUS
<1>1. PICK x \in Nat \ S : \A y \in Nat \ S : <<y, x>> \notin OpToRel(<, Nat)
  BY WFMin, NatLessThanWellFounded
<1>2. x # 0 /\ x - 1 \in Nat /\ x - 1 < x /\ (x - 1) + 1 = x
  OBVIOUS
<1>3. <<x - 1, x>> \in OpToRel(<, Nat)
  BY <1>2 DEF OpToRel
<1>4. x - 1 \in Nat \ S
  BY <1>2
<1> QED BY <1>1, <1>3, <1>4

\* What a function defined by recursion computes: it exists, its values are
\* those the steps give, and they stay in a set the steps stay in.
IsRecursion(f, base, n, step) ==
  f[0] = base /\ \A k \in 0 .. n - 1 : f[k + 1] = step[k][f[k]]

LEMMA BoundedRecursion ==
  ASSUME NEW T, NEW base \in T, NEW n \in Nat, NEW step \in [0 .. n - 1 -> [T -> T]]
  PROVE  \E f \in [0 .. n -> T] : IsRecursion(f, base, n, step)
<1> DEFINE Good(m) == {f \in [0 .. m -> T] :
                         f[0] = base /\ \A k \in 0 .. m - 1 : f[k + 1] = step[k][f[k]]}
           S == {m \in Nat : m <= n => Good(m) # {}}
<1>1. 0 \in S
  <2>1. [k \in 0 .. 0 |-> base] \in Good(0)
    OBVIOUS
  <2> QED BY <2>1
<1>2. \A m \in Nat : m \in S => m + 1 \in S
  <2> SUFFICES ASSUME NEW m \in Nat, m + 1 <= n, m \in S PROVE Good(m + 1) # {}
    <3> HIDE DEF Good
    <3> QED OBVIOUS
  <2>0. PICK g : g \in Good(m)
    <3> HIDE DEF Good
    <3> QED OBVIOUS
  <2> DEFINE h == [k \in 0 .. m + 1 |-> IF k = m + 1 THEN step[m][g[m]] ELSE g[k]]
  <2>1. h \in [0 .. m + 1 -> T]
    <3>1. g[m] \in T /\ step[m] \in [T -> T]
      BY <2>0
    <3> QED BY <2>0, <3>1
  <2>2. h[0] = base
    BY <2>0
  <2>3. ASSUME NEW k \in 0 .. m PROVE h[k + 1] = step[k][h[k]]
    <3>1. CASE k = m
      <4>1. h[m + 1] = step[m][g[m]] /\ h[m] = g[m]
        OBVIOUS
      <4> QED BY <3>1, <4>1
    <3>2. CASE k # m
      <4>1. k \in 0 .. m - 1 /\ k + 1 \in 0 .. m /\ k + 1 # m + 1 /\ k # m + 1
        BY <3>2
      <4>2. g[k + 1] = step[k][g[k]]
        BY <2>0, <4>1
      <4> QED BY <4>1, <4>2
    <3> QED BY <3>1, <3>2
  <2>4. (m + 1) - 1 = m
    OBVIOUS
  <2> HIDE DEF h
  <2>5. h \in Good(m + 1)
    BY <2>1, <2>2, <2>3, <2>4
  <2> QED BY <2>5
<1>3. Nat \subseteq S
  <2> HIDE DEF S
  <2> QED BY <1>1, <1>2, NatInd
<1>4. n \in Nat /\ n \in S
  BY <1>3
<1>5. Good(n) # {}
  <2> HIDE DEF Good
  <2> QED BY <1>4
<1> QED BY <1>5 DEF IsRecursion

-----------------------------------------------------------------------------
\* The facelets in space.

\* The places of the facelets, coordinate by coordinate.
XAt == <<
  -2, 0, 2, -2, 0, 2, -2, 0, 2, 3, 3, 3, 3, 3, 3, 3, 3, 3, -2, 0, 2, -2,
  0, 2, -2, 0, 2, -2, 0, 2, -2, 0, 2, -2, 0, 2, -3, -3, -3, -3, -3, -3,
  -3, -3, -3, 2, 0, -2, 2, 0, -2, 2, 0, -2>>
YAt == <<
  3, 3, 3, 3, 3, 3, 3, 3, 3, 2, 2, 2, 0, 0, 0, -2, -2, -2, 2, 2, 2, 0, 0,
  0, -2, -2, -2, -3, -3, -3, -3, -3, -3, -3, -3, -3, 2, 2, 2, 0, 0, 0, -2,
  -2, -2, 2, 2, 2, 0, 0, 0, -2, -2, -2>>
ZAt == <<
  -2, -2, -2, 0, 0, 0, 2, 2, 2, 2, 0, -2, 2, 0, -2, 2, 0, -2, 3, 3, 3, 3,
  3, 3, 3, 3, 3, 2, 2, 2, 0, 0, 0, -2, -2, -2, -2, 0, 2, -2, 0, 2, -2, 0,
  2, -3, -3, -3, -3, -3, -3, -3, -3, -3>>
Vector == Int \X Int \X Int

\* A statement about all facelets is one about 54 numbers.
LEMMA Enumerated ==
  \A p \in Facelet : p \in
    {1, 2, 3, 4, 5, 6, 7, 8, 9, 10, 11, 12, 13, 14, 15, 16, 17, 18,
     19, 20, 21, 22, 23, 24, 25, 26, 27, 28, 29, 30, 31, 32, 33, 34, 35, 36,
     37, 38, 39, 40, 41, 42, 43, 44, 45, 46, 47, 48, 49, 50, 51, 52, 53, 54}
BY DEF Facelet

LEMMA HomeAt ==
  \A p \in Facelet : Home(p) = <<XAt[p], YAt[p], ZAt[p]>>
<1> DEFINE x(p) == 2 * (((p - 1) % 3) - 1)
           y(p) == 2 * ((((p - 1) \div 3) % 3) - 1)
<1>1. \A p \in 1 .. 9 : Home(p) = <<XAt[p], YAt[p], ZAt[p]>>
  <2>0. \A p \in 1 .. 9 : p \in {1, 2, 3, 4, 5, 6, 7, 8, 9}
    OBVIOUS
  <2>1. \A p \in 1 .. 9 : Home(p) = <<x(p), 3, y(p)>>
    <3>1. \A p \in 1 .. 9 : (p - 1) \div 9 = 0
      OBVIOUS
    <3> QED BY <3>1 DEF Home
  <2>2. \A p \in 1 .. 9 : x(p) = XAt[p]
    BY <2>0 DEF XAt
  <2>3. \A p \in 1 .. 9 : 3 = YAt[p]
    BY <2>0 DEF YAt
  <2>4. \A p \in 1 .. 9 : y(p) = ZAt[p]
    BY <2>0 DEF ZAt
  <2> HIDE DEF x, y
  <2> QED BY <2>1, <2>2, <2>3, <2>4
<1>2. \A p \in 10 .. 18 : Home(p) = <<XAt[p], YAt[p], ZAt[p]>>
  <2>0. \A p \in 10 .. 18 : p \in {10, 11, 12, 13, 14, 15, 16, 17, 18}
    OBVIOUS
  <2>1. \A p \in 10 .. 18 : Home(p) = <<3, -y(p), -x(p)>>
    <3>1. \A p \in 10 .. 18 : (p - 1) \div 9 = 1
      OBVIOUS
    <3> QED BY <3>1 DEF Home
  <2>2. \A p \in 10 .. 18 : 3 = XAt[p]
    BY <2>0 DEF XAt
  <2>3. \A p \in 10 .. 18 : -y(p) = YAt[p]
    BY <2>0 DEF YAt
  <2>4. \A p \in 10 .. 18 : -x(p) = ZAt[p]
    BY <2>0 DEF ZAt
  <2> HIDE DEF x, y
  <2> QED BY <2>1, <2>2, <2>3, <2>4
<1>3. \A p \in 19 .. 27 : Home(p) = <<XAt[p], YAt[p], ZAt[p]>>
  <2>0. \A p \in 19 .. 27 : p \in {19, 20, 21, 22, 23, 24, 25, 26, 27}
    OBVIOUS
  <2>1. \A p \in 19 .. 27 : Home(p) = <<x(p), -y(p), 3>>
    <3>1. \A p \in 19 .. 27 : (p - 1) \div 9 = 2
      OBVIOUS
    <3> QED BY <3>1 DEF Home
  <2>2. \A p \in 19 .. 27 : x(p) = XAt[p]
    BY <2>0 DEF XAt
  <2>3. \A p \in 19 .. 27 : -y(p) = YAt[p]
    BY <2>0 DEF YAt
  <2>4. \A p \in 19 .. 27 : 3 = ZAt[p]
    BY <2>0 DEF ZAt
  <2> HIDE DEF x, y
  <2> QED BY <2>1, <2>2, <2>3, <2>4
<1>4. \A p \in 28 .. 36 : Home(p) = <<XAt[p], YAt[p], ZAt[p]>>
  <2>0. \A p \in 28 .. 36 : p \in {28, 29, 30, 31, 32, 33, 34, 35, 36}
    OBVIOUS
  <2>1. \A p \in 28 .. 36 : Home(p) = <<x(p), -3, -y(p)>>
    <3>1. \A p \in 28 .. 36 : (p - 1) \div 9 = 3
      OBVIOUS
    <3> QED BY <3>1 DEF Home
  <2>2. \A p \in 28 .. 36 : x(p) = XAt[p]
    BY <2>0 DEF XAt
  <2>3. \A p \in 28 .. 36 : -3 = YAt[p]
    BY <2>0 DEF YAt
  <2>4. \A p \in 28 .. 36 : -y(p) = ZAt[p]
    BY <2>0 DEF ZAt
  <2> HIDE DEF x, y
  <2> QED BY <2>1, <2>2, <2>3, <2>4
<1>5. \A p \in 37 .. 45 : Home(p) = <<XAt[p], YAt[p], ZAt[p]>>
  <2>0. \A p \in 37 .. 45 : p \in {37, 38, 39, 40, 41, 42, 43, 44, 45}
    OBVIOUS
  <2>1. \A p \in 37 .. 45 : Home(p) = <<-3, -y(p), x(p)>>
    <3>1. \A p \in 37 .. 45 : (p - 1) \div 9 = 4
      OBVIOUS
    <3> QED BY <3>1 DEF Home
  <2>2. \A p \in 37 .. 45 : -3 = XAt[p]
    BY <2>0 DEF XAt
  <2>3. \A p \in 37 .. 45 : -y(p) = YAt[p]
    BY <2>0 DEF YAt
  <2>4. \A p \in 37 .. 45 : x(p) = ZAt[p]
    BY <2>0 DEF ZAt
  <2> HIDE DEF x, y
  <2> QED BY <2>1, <2>2, <2>3, <2>4
<1>6. \A p \in 46 .. 54 : Home(p) = <<XAt[p], YAt[p], ZAt[p]>>
  <2>0. \A p \in 46 .. 54 : p \in {46, 47, 48, 49, 50, 51, 52, 53, 54}
    OBVIOUS
  <2>1. \A p \in 46 .. 54 : Home(p) = <<-x(p), -y(p), -3>>
    <3>1. \A p \in 46 .. 54 : (p - 1) \div 9 = 5
      OBVIOUS
    <3> QED BY <3>1 DEF Home
  <2>2. \A p \in 46 .. 54 : -x(p) = XAt[p]
    BY <2>0 DEF XAt
  <2>3. \A p \in 46 .. 54 : -y(p) = YAt[p]
    BY <2>0 DEF YAt
  <2>4. \A p \in 46 .. 54 : -3 = ZAt[p]
    BY <2>0 DEF ZAt
  <2> HIDE DEF x, y
  <2> QED BY <2>1, <2>2, <2>3, <2>4
<1>7. \A p \in Facelet :
        \/ p \in 1 .. 9 \/ p \in 10 .. 18 \/ p \in 19 .. 27
        \/ p \in 28 .. 36 \/ p \in 37 .. 45 \/ p \in 46 .. 54
  BY DEF Facelet
<1> QED BY <1>1, <1>2, <1>3, <1>4, <1>5, <1>6, <1>7

LEMMA PlaceType == \A p \in Facelet : XAt[p] \in Int /\ YAt[p] \in Int /\ ZAt[p] \in Int
BY Enumerated DEF XAt, YAt, ZAt

LEMMA HomeType == \A p \in Facelet : Home(p) \in Vector
BY PlaceType, HomeAt DEF Vector

\* No two facelets are in one place.
LEMMA HomeInjective == \A p, j \in Facelet : Home(p) = Home(j) => p = j
<1>1. \A p, j \in Facelet : XAt[p] = XAt[j] /\ YAt[p] = YAt[j] /\ ZAt[p] = ZAt[j] => p = j
  <2> DEFINE code(p) == XAt[p] + 7 * YAt[p] + 49 * ZAt[p]
  <2>1. \A p, j \in Facelet : code(p) = code(j) => p = j
    BY Enumerated, SMTT(60) DEF XAt, YAt, ZAt
  <2> QED BY <2>1
<1> QED BY <1>1, HomeAt

-----------------------------------------------------------------------------
\* The tables in space.

\* What a turn of a face does to a sticker.
Turned(face, times, v) ==
  IF InLayer(Normal[face + 1], v) THEN Quarters(Normal[face + 1], times, v) ELSE v

\* A table is that of a turn: it takes a sticker from where the turn brings it
\* from.
TurnsIn(m, face, times) ==
  \A p \in Facelet : m[p] \in Facelet /\ Home(p) = Turned(face, times, Home(m[p]))

\* The quarter turns of a face, one after another.
LEMMA Repeated ==
  \A n, v : /\ Quarters(n, 1, v) = Quarter(n, v)
            /\ Quarters(n, 2, v) = Quarter(n, Quarters(n, 1, v))
            /\ Quarters(n, 3, v) = Quarter(n, Quarters(n, 2, v))
BY DEF Quarters

\* A quarter turn of a face, and its layer, in coordinates.
LEMMA QuarterU ==
  \A x, y, z \in Int :
    /\ Quarter(Normal[U_ + 1], <<x, y, z>>) = <<-z, y, x>>
    /\ InLayer(Normal[U_ + 1], <<x, y, z>>) <=> y >= 2
<1>1. Normal[U_ + 1] = <<0, 1, 0>>
  BY DEF Normal, U_
<1>2. \A x, y, z \in Int : InLayer(Normal[U_ + 1], <<x, y, z>>) <=> y >= 2
  BY <1>1 DEF InLayer, Dot
<1>3. \A x, y, z \in Int : Quarter(Normal[U_ + 1], <<x, y, z>>) = <<-z, y, x>>
  BY <1>1 DEF Quarter, Dot, Cross
<1> QED BY <1>2, <1>3

LEMMA QuarterR ==
  \A x, y, z \in Int :
    /\ Quarter(Normal[R_ + 1], <<x, y, z>>) = <<x, z, -y>>
    /\ InLayer(Normal[R_ + 1], <<x, y, z>>) <=> x >= 2
<1>1. Normal[R_ + 1] = <<1, 0, 0>>
  BY DEF Normal, R_
<1>2. \A x, y, z \in Int : InLayer(Normal[R_ + 1], <<x, y, z>>) <=> x >= 2
  BY <1>1 DEF InLayer, Dot
<1>3. \A x, y, z \in Int : Quarter(Normal[R_ + 1], <<x, y, z>>) = <<x, z, -y>>
  BY <1>1 DEF Quarter, Dot, Cross
<1> QED BY <1>2, <1>3

LEMMA QuarterF ==
  \A x, y, z \in Int :
    /\ Quarter(Normal[F_ + 1], <<x, y, z>>) = <<y, -x, z>>
    /\ InLayer(Normal[F_ + 1], <<x, y, z>>) <=> z >= 2
<1>1. Normal[F_ + 1] = <<0, 0, 1>>
  BY DEF Normal, F_
<1>2. \A x, y, z \in Int : InLayer(Normal[F_ + 1], <<x, y, z>>) <=> z >= 2
  BY <1>1 DEF InLayer, Dot
<1>3. \A x, y, z \in Int : Quarter(Normal[F_ + 1], <<x, y, z>>) = <<y, -x, z>>
  BY <1>1 DEF Quarter, Dot, Cross
<1> QED BY <1>2, <1>3

LEMMA QuarterD ==
  \A x, y, z \in Int :
    /\ Quarter(Normal[D_ + 1], <<x, y, z>>) = <<z, y, -x>>
    /\ InLayer(Normal[D_ + 1], <<x, y, z>>) <=> y <= -2
<1>1. Normal[D_ + 1] = <<0, -1, 0>>
  BY DEF Normal, D_
<1>2. \A x, y, z \in Int : InLayer(Normal[D_ + 1], <<x, y, z>>) <=> y <= -2
  BY <1>1 DEF InLayer, Dot
<1>3. \A x, y, z \in Int : Quarter(Normal[D_ + 1], <<x, y, z>>) = <<z, y, -x>>
  BY <1>1 DEF Quarter, Dot, Cross
<1> QED BY <1>2, <1>3

LEMMA QuarterL ==
  \A x, y, z \in Int :
    /\ Quarter(Normal[L_ + 1], <<x, y, z>>) = <<x, -z, y>>
    /\ InLayer(Normal[L_ + 1], <<x, y, z>>) <=> x <= -2
<1>1. Normal[L_ + 1] = <<-1, 0, 0>>
  BY DEF Normal, L_
<1>2. \A x, y, z \in Int : InLayer(Normal[L_ + 1], <<x, y, z>>) <=> x <= -2
  BY <1>1 DEF InLayer, Dot
<1>3. \A x, y, z \in Int : Quarter(Normal[L_ + 1], <<x, y, z>>) = <<x, -z, y>>
  BY <1>1 DEF Quarter, Dot, Cross
<1> QED BY <1>2, <1>3

LEMMA QuarterB ==
  \A x, y, z \in Int :
    /\ Quarter(Normal[B_ + 1], <<x, y, z>>) = <<-y, x, z>>
    /\ InLayer(Normal[B_ + 1], <<x, y, z>>) <=> z <= -2
<1>1. Normal[B_ + 1] = <<0, 0, -1>>
  BY DEF Normal, B_
<1>2. \A x, y, z \in Int : InLayer(Normal[B_ + 1], <<x, y, z>>) <=> z <= -2
  BY <1>1 DEF InLayer, Dot
<1>3. \A x, y, z \in Int : Quarter(Normal[B_ + 1], <<x, y, z>>) = <<-y, x, z>>
  BY <1>1 DEF Quarter, Dot, Cross
<1> QED BY <1>2, <1>3

\* The tables of the faces, each in space.
LEMMA TurnsOfU ==
  TurnsIn(U1_, U_, 1) /\ TurnsIn(U2_, U_, 2) /\ TurnsIn(U3_, U_, 3)
<1> DEFINE n == Normal[U_ + 1]
<1>1. \A x, y, z \in Int : Quarter(n, <<x, y, z>>) = <<-z, y, x>>
  BY QuarterU
<1>2. \A x, y, z \in Int : InLayer(n, <<x, y, z>>) <=> y >= 2
  BY QuarterU
<1> HIDE DEF n
<1>3. \A x, y, z \in Int : Quarters(n, 1, <<x, y, z>>) = <<-z, y, x>>
  <2> TAKE x, y, z \in Int
  <2> QED BY <1>1, Repeated
<1>4. \A x, y, z \in Int : Quarters(n, 2, <<x, y, z>>) = <<-x, y, -z>>
  <2> TAKE x, y, z \in Int
  <2>1. Quarters(n, 2, <<x, y, z>>) = Quarter(n, Quarters(n, 1, <<x, y, z>>))
    BY Repeated
  <2>2. Quarter(n, <<-z, y, x>>) = <<-x, y, -z>>
    BY <1>1
  <2> QED BY <1>3, <2>1, <2>2
<1>5. \A x, y, z \in Int : Quarters(n, 3, <<x, y, z>>) = <<z, y, -x>>
  <2> TAKE x, y, z \in Int
  <2>1. Quarters(n, 3, <<x, y, z>>) = Quarter(n, Quarters(n, 2, <<x, y, z>>))
    BY Repeated
  <2>2. Quarter(n, <<-x, y, -z>>) = <<z, y, -x>>
    BY <1>1
  <2> QED BY <1>4, <2>1, <2>2
<1>6. TurnsIn(U1_, U_, 1)
  <2>1. \A p \in Facelet : U1_[p] \in Facelet
    BY Enumerated DEF U1_, Table, Facelet
  <2>2. \A p \in Facelet : YAt[U1_[p]] < 2 => U1_[p] = p
    BY Enumerated DEF YAt, U1_, Table
  <2>3. \A p \in Facelet : YAt[U1_[p]] >= 2 => XAt[p] = -ZAt[U1_[p]]
    BY Enumerated DEF XAt, YAt, ZAt, U1_, Table
  <2>4. \A p \in Facelet : YAt[U1_[p]] >= 2 => YAt[p] = YAt[U1_[p]]
    BY Enumerated DEF XAt, YAt, ZAt, U1_, Table
  <2>5. \A p \in Facelet : YAt[U1_[p]] >= 2 => ZAt[p] = XAt[U1_[p]]
    BY Enumerated DEF XAt, YAt, ZAt, U1_, Table
  <2> QED BY <1>2, <1>3, <2>1, <2>2, <2>3, <2>4, <2>5, HomeAt, PlaceType, SMTT(30)
         DEF TurnsIn, Turned, n
<1>7. TurnsIn(U2_, U_, 2)
  <2>1. \A p \in Facelet : U2_[p] \in Facelet
    BY Enumerated DEF U2_, Table, Facelet
  <2>2. \A p \in Facelet : YAt[U2_[p]] < 2 => U2_[p] = p
    BY Enumerated DEF YAt, U2_, Table
  <2>3. \A p \in Facelet : YAt[U2_[p]] >= 2 => XAt[p] = -XAt[U2_[p]]
    BY Enumerated DEF XAt, YAt, ZAt, U2_, Table
  <2>4. \A p \in Facelet : YAt[U2_[p]] >= 2 => YAt[p] = YAt[U2_[p]]
    BY Enumerated DEF XAt, YAt, ZAt, U2_, Table
  <2>5. \A p \in Facelet : YAt[U2_[p]] >= 2 => ZAt[p] = -ZAt[U2_[p]]
    BY Enumerated DEF XAt, YAt, ZAt, U2_, Table
  <2> QED BY <1>2, <1>4, <2>1, <2>2, <2>3, <2>4, <2>5, HomeAt, PlaceType, SMTT(30)
         DEF TurnsIn, Turned, n
<1>8. TurnsIn(U3_, U_, 3)
  <2>1. \A p \in Facelet : U3_[p] \in Facelet
    BY Enumerated DEF U3_, Table, Facelet
  <2>2. \A p \in Facelet : YAt[U3_[p]] < 2 => U3_[p] = p
    BY Enumerated DEF YAt, U3_, Table
  <2>3. \A p \in Facelet : YAt[U3_[p]] >= 2 => XAt[p] = ZAt[U3_[p]]
    BY Enumerated DEF XAt, YAt, ZAt, U3_, Table
  <2>4. \A p \in Facelet : YAt[U3_[p]] >= 2 => YAt[p] = YAt[U3_[p]]
    BY Enumerated DEF XAt, YAt, ZAt, U3_, Table
  <2>5. \A p \in Facelet : YAt[U3_[p]] >= 2 => ZAt[p] = -XAt[U3_[p]]
    BY Enumerated DEF XAt, YAt, ZAt, U3_, Table
  <2> QED BY <1>2, <1>5, <2>1, <2>2, <2>3, <2>4, <2>5, HomeAt, PlaceType, SMTT(30)
         DEF TurnsIn, Turned, n
<1> QED BY <1>6, <1>7, <1>8

LEMMA TurnsOfR ==
  TurnsIn(R1_, R_, 1) /\ TurnsIn(R2_, R_, 2) /\ TurnsIn(R3_, R_, 3)
<1> DEFINE n == Normal[R_ + 1]
<1>1. \A x, y, z \in Int : Quarter(n, <<x, y, z>>) = <<x, z, -y>>
  BY QuarterR
<1>2. \A x, y, z \in Int : InLayer(n, <<x, y, z>>) <=> x >= 2
  BY QuarterR
<1> HIDE DEF n
<1>3. \A x, y, z \in Int : Quarters(n, 1, <<x, y, z>>) = <<x, z, -y>>
  <2> TAKE x, y, z \in Int
  <2> QED BY <1>1, Repeated
<1>4. \A x, y, z \in Int : Quarters(n, 2, <<x, y, z>>) = <<x, -y, -z>>
  <2> TAKE x, y, z \in Int
  <2>1. Quarters(n, 2, <<x, y, z>>) = Quarter(n, Quarters(n, 1, <<x, y, z>>))
    BY Repeated
  <2>2. Quarter(n, <<x, z, -y>>) = <<x, -y, -z>>
    BY <1>1
  <2> QED BY <1>3, <2>1, <2>2
<1>5. \A x, y, z \in Int : Quarters(n, 3, <<x, y, z>>) = <<x, -z, y>>
  <2> TAKE x, y, z \in Int
  <2>1. Quarters(n, 3, <<x, y, z>>) = Quarter(n, Quarters(n, 2, <<x, y, z>>))
    BY Repeated
  <2>2. Quarter(n, <<x, -y, -z>>) = <<x, -z, y>>
    BY <1>1
  <2> QED BY <1>4, <2>1, <2>2
<1>6. TurnsIn(R1_, R_, 1)
  <2>1. \A p \in Facelet : R1_[p] \in Facelet
    BY Enumerated DEF R1_, Table, Facelet
  <2>2. \A p \in Facelet : XAt[R1_[p]] < 2 => R1_[p] = p
    BY Enumerated DEF XAt, R1_, Table
  <2>3. \A p \in Facelet : XAt[R1_[p]] >= 2 => XAt[p] = XAt[R1_[p]]
    BY Enumerated DEF XAt, YAt, ZAt, R1_, Table
  <2>4. \A p \in Facelet : XAt[R1_[p]] >= 2 => YAt[p] = ZAt[R1_[p]]
    BY Enumerated DEF XAt, YAt, ZAt, R1_, Table
  <2>5. \A p \in Facelet : XAt[R1_[p]] >= 2 => ZAt[p] = -YAt[R1_[p]]
    BY Enumerated DEF XAt, YAt, ZAt, R1_, Table
  <2> QED BY <1>2, <1>3, <2>1, <2>2, <2>3, <2>4, <2>5, HomeAt, PlaceType, SMTT(30)
         DEF TurnsIn, Turned, n
<1>7. TurnsIn(R2_, R_, 2)
  <2>1. \A p \in Facelet : R2_[p] \in Facelet
    BY Enumerated DEF R2_, Table, Facelet
  <2>2. \A p \in Facelet : XAt[R2_[p]] < 2 => R2_[p] = p
    BY Enumerated DEF XAt, R2_, Table
  <2>3. \A p \in Facelet : XAt[R2_[p]] >= 2 => XAt[p] = XAt[R2_[p]]
    BY Enumerated DEF XAt, YAt, ZAt, R2_, Table
  <2>4. \A p \in Facelet : XAt[R2_[p]] >= 2 => YAt[p] = -YAt[R2_[p]]
    BY Enumerated DEF XAt, YAt, ZAt, R2_, Table
  <2>5. \A p \in Facelet : XAt[R2_[p]] >= 2 => ZAt[p] = -ZAt[R2_[p]]
    BY Enumerated DEF XAt, YAt, ZAt, R2_, Table
  <2> QED BY <1>2, <1>4, <2>1, <2>2, <2>3, <2>4, <2>5, HomeAt, PlaceType, SMTT(30)
         DEF TurnsIn, Turned, n
<1>8. TurnsIn(R3_, R_, 3)
  <2>1. \A p \in Facelet : R3_[p] \in Facelet
    BY Enumerated DEF R3_, Table, Facelet
  <2>2. \A p \in Facelet : XAt[R3_[p]] < 2 => R3_[p] = p
    BY Enumerated DEF XAt, R3_, Table
  <2>3. \A p \in Facelet : XAt[R3_[p]] >= 2 => XAt[p] = XAt[R3_[p]]
    BY Enumerated DEF XAt, YAt, ZAt, R3_, Table
  <2>4. \A p \in Facelet : XAt[R3_[p]] >= 2 => YAt[p] = -ZAt[R3_[p]]
    BY Enumerated DEF XAt, YAt, ZAt, R3_, Table
  <2>5. \A p \in Facelet : XAt[R3_[p]] >= 2 => ZAt[p] = YAt[R3_[p]]
    BY Enumerated DEF XAt, YAt, ZAt, R3_, Table
  <2> QED BY <1>2, <1>5, <2>1, <2>2, <2>3, <2>4, <2>5, HomeAt, PlaceType, SMTT(30)
         DEF TurnsIn, Turned, n
<1> QED BY <1>6, <1>7, <1>8

LEMMA TurnsOfF ==
  TurnsIn(F1_, F_, 1) /\ TurnsIn(F2_, F_, 2) /\ TurnsIn(F3_, F_, 3)
<1> DEFINE n == Normal[F_ + 1]
<1>1. \A x, y, z \in Int : Quarter(n, <<x, y, z>>) = <<y, -x, z>>
  BY QuarterF
<1>2. \A x, y, z \in Int : InLayer(n, <<x, y, z>>) <=> z >= 2
  BY QuarterF
<1> HIDE DEF n
<1>3. \A x, y, z \in Int : Quarters(n, 1, <<x, y, z>>) = <<y, -x, z>>
  <2> TAKE x, y, z \in Int
  <2> QED BY <1>1, Repeated
<1>4. \A x, y, z \in Int : Quarters(n, 2, <<x, y, z>>) = <<-x, -y, z>>
  <2> TAKE x, y, z \in Int
  <2>1. Quarters(n, 2, <<x, y, z>>) = Quarter(n, Quarters(n, 1, <<x, y, z>>))
    BY Repeated
  <2>2. Quarter(n, <<y, -x, z>>) = <<-x, -y, z>>
    BY <1>1
  <2> QED BY <1>3, <2>1, <2>2
<1>5. \A x, y, z \in Int : Quarters(n, 3, <<x, y, z>>) = <<-y, x, z>>
  <2> TAKE x, y, z \in Int
  <2>1. Quarters(n, 3, <<x, y, z>>) = Quarter(n, Quarters(n, 2, <<x, y, z>>))
    BY Repeated
  <2>2. Quarter(n, <<-x, -y, z>>) = <<-y, x, z>>
    BY <1>1
  <2> QED BY <1>4, <2>1, <2>2
<1>6. TurnsIn(F1_, F_, 1)
  <2>1. \A p \in Facelet : F1_[p] \in Facelet
    BY Enumerated DEF F1_, Table, Facelet
  <2>2. \A p \in Facelet : ZAt[F1_[p]] < 2 => F1_[p] = p
    BY Enumerated DEF ZAt, F1_, Table
  <2>3. \A p \in Facelet : ZAt[F1_[p]] >= 2 => XAt[p] = YAt[F1_[p]]
    BY Enumerated DEF XAt, YAt, ZAt, F1_, Table
  <2>4. \A p \in Facelet : ZAt[F1_[p]] >= 2 => YAt[p] = -XAt[F1_[p]]
    BY Enumerated DEF XAt, YAt, ZAt, F1_, Table
  <2>5. \A p \in Facelet : ZAt[F1_[p]] >= 2 => ZAt[p] = ZAt[F1_[p]]
    BY Enumerated DEF XAt, YAt, ZAt, F1_, Table
  <2> QED BY <1>2, <1>3, <2>1, <2>2, <2>3, <2>4, <2>5, HomeAt, PlaceType, SMTT(30)
         DEF TurnsIn, Turned, n
<1>7. TurnsIn(F2_, F_, 2)
  <2>1. \A p \in Facelet : F2_[p] \in Facelet
    BY Enumerated DEF F2_, Table, Facelet
  <2>2. \A p \in Facelet : ZAt[F2_[p]] < 2 => F2_[p] = p
    BY Enumerated DEF ZAt, F2_, Table
  <2>3. \A p \in Facelet : ZAt[F2_[p]] >= 2 => XAt[p] = -XAt[F2_[p]]
    BY Enumerated DEF XAt, YAt, ZAt, F2_, Table
  <2>4. \A p \in Facelet : ZAt[F2_[p]] >= 2 => YAt[p] = -YAt[F2_[p]]
    BY Enumerated DEF XAt, YAt, ZAt, F2_, Table
  <2>5. \A p \in Facelet : ZAt[F2_[p]] >= 2 => ZAt[p] = ZAt[F2_[p]]
    BY Enumerated DEF XAt, YAt, ZAt, F2_, Table
  <2> QED BY <1>2, <1>4, <2>1, <2>2, <2>3, <2>4, <2>5, HomeAt, PlaceType, SMTT(30)
         DEF TurnsIn, Turned, n
<1>8. TurnsIn(F3_, F_, 3)
  <2>1. \A p \in Facelet : F3_[p] \in Facelet
    BY Enumerated DEF F3_, Table, Facelet
  <2>2. \A p \in Facelet : ZAt[F3_[p]] < 2 => F3_[p] = p
    BY Enumerated DEF ZAt, F3_, Table
  <2>3. \A p \in Facelet : ZAt[F3_[p]] >= 2 => XAt[p] = -YAt[F3_[p]]
    BY Enumerated DEF XAt, YAt, ZAt, F3_, Table
  <2>4. \A p \in Facelet : ZAt[F3_[p]] >= 2 => YAt[p] = XAt[F3_[p]]
    BY Enumerated DEF XAt, YAt, ZAt, F3_, Table
  <2>5. \A p \in Facelet : ZAt[F3_[p]] >= 2 => ZAt[p] = ZAt[F3_[p]]
    BY Enumerated DEF XAt, YAt, ZAt, F3_, Table
  <2> QED BY <1>2, <1>5, <2>1, <2>2, <2>3, <2>4, <2>5, HomeAt, PlaceType, SMTT(30)
         DEF TurnsIn, Turned, n
<1> QED BY <1>6, <1>7, <1>8

LEMMA TurnsOfD ==
  TurnsIn(D1_, D_, 1) /\ TurnsIn(D2_, D_, 2) /\ TurnsIn(D3_, D_, 3)
<1> DEFINE n == Normal[D_ + 1]
<1>1. \A x, y, z \in Int : Quarter(n, <<x, y, z>>) = <<z, y, -x>>
  BY QuarterD
<1>2. \A x, y, z \in Int : InLayer(n, <<x, y, z>>) <=> y <= -2
  BY QuarterD
<1> HIDE DEF n
<1>3. \A x, y, z \in Int : Quarters(n, 1, <<x, y, z>>) = <<z, y, -x>>
  <2> TAKE x, y, z \in Int
  <2> QED BY <1>1, Repeated
<1>4. \A x, y, z \in Int : Quarters(n, 2, <<x, y, z>>) = <<-x, y, -z>>
  <2> TAKE x, y, z \in Int
  <2>1. Quarters(n, 2, <<x, y, z>>) = Quarter(n, Quarters(n, 1, <<x, y, z>>))
    BY Repeated
  <2>2. Quarter(n, <<z, y, -x>>) = <<-x, y, -z>>
    BY <1>1
  <2> QED BY <1>3, <2>1, <2>2
<1>5. \A x, y, z \in Int : Quarters(n, 3, <<x, y, z>>) = <<-z, y, x>>
  <2> TAKE x, y, z \in Int
  <2>1. Quarters(n, 3, <<x, y, z>>) = Quarter(n, Quarters(n, 2, <<x, y, z>>))
    BY Repeated
  <2>2. Quarter(n, <<-x, y, -z>>) = <<-z, y, x>>
    BY <1>1
  <2> QED BY <1>4, <2>1, <2>2
<1>6. TurnsIn(D1_, D_, 1)
  <2>1. \A p \in Facelet : D1_[p] \in Facelet
    BY Enumerated DEF D1_, Table, Facelet
  <2>2. \A p \in Facelet : YAt[D1_[p]] > -2 => D1_[p] = p
    BY Enumerated DEF YAt, D1_, Table
  <2>3. \A p \in Facelet : YAt[D1_[p]] <= -2 => XAt[p] = ZAt[D1_[p]]
    BY Enumerated DEF XAt, YAt, ZAt, D1_, Table
  <2>4. \A p \in Facelet : YAt[D1_[p]] <= -2 => YAt[p] = YAt[D1_[p]]
    BY Enumerated DEF XAt, YAt, ZAt, D1_, Table
  <2>5. \A p \in Facelet : YAt[D1_[p]] <= -2 => ZAt[p] = -XAt[D1_[p]]
    BY Enumerated DEF XAt, YAt, ZAt, D1_, Table
  <2> QED BY <1>2, <1>3, <2>1, <2>2, <2>3, <2>4, <2>5, HomeAt, PlaceType, SMTT(30)
         DEF TurnsIn, Turned, n
<1>7. TurnsIn(D2_, D_, 2)
  <2>1. \A p \in Facelet : D2_[p] \in Facelet
    BY Enumerated DEF D2_, Table, Facelet
  <2>2. \A p \in Facelet : YAt[D2_[p]] > -2 => D2_[p] = p
    BY Enumerated DEF YAt, D2_, Table
  <2>3. \A p \in Facelet : YAt[D2_[p]] <= -2 => XAt[p] = -XAt[D2_[p]]
    BY Enumerated DEF XAt, YAt, ZAt, D2_, Table
  <2>4. \A p \in Facelet : YAt[D2_[p]] <= -2 => YAt[p] = YAt[D2_[p]]
    BY Enumerated DEF XAt, YAt, ZAt, D2_, Table
  <2>5. \A p \in Facelet : YAt[D2_[p]] <= -2 => ZAt[p] = -ZAt[D2_[p]]
    BY Enumerated DEF XAt, YAt, ZAt, D2_, Table
  <2> QED BY <1>2, <1>4, <2>1, <2>2, <2>3, <2>4, <2>5, HomeAt, PlaceType, SMTT(30)
         DEF TurnsIn, Turned, n
<1>8. TurnsIn(D3_, D_, 3)
  <2>1. \A p \in Facelet : D3_[p] \in Facelet
    BY Enumerated DEF D3_, Table, Facelet
  <2>2. \A p \in Facelet : YAt[D3_[p]] > -2 => D3_[p] = p
    BY Enumerated DEF YAt, D3_, Table
  <2>3. \A p \in Facelet : YAt[D3_[p]] <= -2 => XAt[p] = -ZAt[D3_[p]]
    BY Enumerated DEF XAt, YAt, ZAt, D3_, Table
  <2>4. \A p \in Facelet : YAt[D3_[p]] <= -2 => YAt[p] = YAt[D3_[p]]
    BY Enumerated DEF XAt, YAt, ZAt, D3_, Table
  <2>5. \A p \in Facelet : YAt[D3_[p]] <= -2 => ZAt[p] = XAt[D3_[p]]
    BY Enumerated DEF XAt, YAt, ZAt, D3_, Table
  <2> QED BY <1>2, <1>5, <2>1, <2>2, <2>3, <2>4, <2>5, HomeAt, PlaceType, SMTT(30)
         DEF TurnsIn, Turned, n
<1> QED BY <1>6, <1>7, <1>8

LEMMA TurnsOfL ==
  TurnsIn(L1_, L_, 1) /\ TurnsIn(L2_, L_, 2) /\ TurnsIn(L3_, L_, 3)
<1> DEFINE n == Normal[L_ + 1]
<1>1. \A x, y, z \in Int : Quarter(n, <<x, y, z>>) = <<x, -z, y>>
  BY QuarterL
<1>2. \A x, y, z \in Int : InLayer(n, <<x, y, z>>) <=> x <= -2
  BY QuarterL
<1> HIDE DEF n
<1>3. \A x, y, z \in Int : Quarters(n, 1, <<x, y, z>>) = <<x, -z, y>>
  <2> TAKE x, y, z \in Int
  <2> QED BY <1>1, Repeated
<1>4. \A x, y, z \in Int : Quarters(n, 2, <<x, y, z>>) = <<x, -y, -z>>
  <2> TAKE x, y, z \in Int
  <2>1. Quarters(n, 2, <<x, y, z>>) = Quarter(n, Quarters(n, 1, <<x, y, z>>))
    BY Repeated
  <2>2. Quarter(n, <<x, -z, y>>) = <<x, -y, -z>>
    BY <1>1
  <2> QED BY <1>3, <2>1, <2>2
<1>5. \A x, y, z \in Int : Quarters(n, 3, <<x, y, z>>) = <<x, z, -y>>
  <2> TAKE x, y, z \in Int
  <2>1. Quarters(n, 3, <<x, y, z>>) = Quarter(n, Quarters(n, 2, <<x, y, z>>))
    BY Repeated
  <2>2. Quarter(n, <<x, -y, -z>>) = <<x, z, -y>>
    BY <1>1
  <2> QED BY <1>4, <2>1, <2>2
<1>6. TurnsIn(L1_, L_, 1)
  <2>1. \A p \in Facelet : L1_[p] \in Facelet
    BY Enumerated DEF L1_, Table, Facelet
  <2>2. \A p \in Facelet : XAt[L1_[p]] > -2 => L1_[p] = p
    BY Enumerated DEF XAt, L1_, Table
  <2>3. \A p \in Facelet : XAt[L1_[p]] <= -2 => XAt[p] = XAt[L1_[p]]
    BY Enumerated DEF XAt, YAt, ZAt, L1_, Table
  <2>4. \A p \in Facelet : XAt[L1_[p]] <= -2 => YAt[p] = -ZAt[L1_[p]]
    BY Enumerated DEF XAt, YAt, ZAt, L1_, Table
  <2>5. \A p \in Facelet : XAt[L1_[p]] <= -2 => ZAt[p] = YAt[L1_[p]]
    BY Enumerated DEF XAt, YAt, ZAt, L1_, Table
  <2> QED BY <1>2, <1>3, <2>1, <2>2, <2>3, <2>4, <2>5, HomeAt, PlaceType, SMTT(30)
         DEF TurnsIn, Turned, n
<1>7. TurnsIn(L2_, L_, 2)
  <2>1. \A p \in Facelet : L2_[p] \in Facelet
    BY Enumerated DEF L2_, Table, Facelet
  <2>2. \A p \in Facelet : L2_[p] = p \/ XAt[L2_[p]] <= -2
    BY Enumerated DEF XAt, YAt, ZAt, L2_, Table
  <2>3. \A p \in Facelet : XAt[L2_[p]] <= -2 => XAt[p] = XAt[L2_[p]]
    BY Enumerated DEF XAt, YAt, ZAt, L2_, Table
  <2>4. \A p \in Facelet : XAt[L2_[p]] <= -2 => YAt[p] = -YAt[L2_[p]]
    BY Enumerated DEF XAt, YAt, ZAt, L2_, Table
  <2>5. \A p \in Facelet : XAt[L2_[p]] <= -2 => ZAt[p] = -ZAt[L2_[p]]
    BY Enumerated DEF XAt, YAt, ZAt, L2_, Table
  <2> QED BY <1>2, <1>4, <2>1, <2>2, <2>3, <2>4, <2>5, HomeAt, PlaceType, SMTT(30)
         DEF TurnsIn, Turned, n
<1>8. TurnsIn(L3_, L_, 3)
  <2>1. \A p \in Facelet : L3_[p] \in Facelet
    BY Enumerated DEF L3_, Table, Facelet
  <2>2. \A p \in Facelet : XAt[L3_[p]] > -2 => L3_[p] = p
    BY Enumerated DEF XAt, L3_, Table
  <2>3. \A p \in Facelet : XAt[L3_[p]] <= -2 => XAt[p] = XAt[L3_[p]]
    BY Enumerated DEF XAt, YAt, ZAt, L3_, Table
  <2>4. \A p \in Facelet : XAt[L3_[p]] <= -2 => YAt[p] = ZAt[L3_[p]]
    BY Enumerated DEF XAt, YAt, ZAt, L3_, Table
  <2>5. \A p \in Facelet : XAt[L3_[p]] <= -2 => ZAt[p] = -YAt[L3_[p]]
    BY Enumerated DEF XAt, YAt, ZAt, L3_, Table
  <2> QED BY <1>2, <1>5, <2>1, <2>2, <2>3, <2>4, <2>5, HomeAt, PlaceType, SMTT(30)
         DEF TurnsIn, Turned, n
<1> QED BY <1>6, <1>7, <1>8

LEMMA TurnsOfB ==
  TurnsIn(B1_, B_, 1) /\ TurnsIn(B2_, B_, 2) /\ TurnsIn(B3_, B_, 3)
<1> DEFINE n == Normal[B_ + 1]
<1>1. \A x, y, z \in Int : Quarter(n, <<x, y, z>>) = <<-y, x, z>>
  BY QuarterB
<1>2. \A x, y, z \in Int : InLayer(n, <<x, y, z>>) <=> z <= -2
  BY QuarterB
<1> HIDE DEF n
<1>3. \A x, y, z \in Int : Quarters(n, 1, <<x, y, z>>) = <<-y, x, z>>
  <2> TAKE x, y, z \in Int
  <2> QED BY <1>1, Repeated
<1>4. \A x, y, z \in Int : Quarters(n, 2, <<x, y, z>>) = <<-x, -y, z>>
  <2> TAKE x, y, z \in Int
  <2>1. Quarters(n, 2, <<x, y, z>>) = Quarter(n, Quarters(n, 1, <<x, y, z>>))
    BY Repeated
  <2>2. Quarter(n, <<-y, x, z>>) = <<-x, -y, z>>
    BY <1>1
  <2> QED BY <1>3, <2>1, <2>2
<1>5. \A x, y, z \in Int : Quarters(n, 3, <<x, y, z>>) = <<y, -x, z>>
  <2> TAKE x, y, z \in Int
  <2>1. Quarters(n, 3, <<x, y, z>>) = Quarter(n, Quarters(n, 2, <<x, y, z>>))
    BY Repeated
  <2>2. Quarter(n, <<-x, -y, z>>) = <<y, -x, z>>
    BY <1>1
  <2> QED BY <1>4, <2>1, <2>2
<1>6. TurnsIn(B1_, B_, 1)
  <2>1. \A p \in Facelet : B1_[p] \in Facelet
    BY Enumerated DEF B1_, Table, Facelet
  <2>2. \A p \in Facelet : ZAt[B1_[p]] > -2 => B1_[p] = p
    BY Enumerated DEF ZAt, B1_, Table
  <2>3. \A p \in Facelet : ZAt[B1_[p]] <= -2 => XAt[p] = -YAt[B1_[p]]
    BY Enumerated DEF XAt, YAt, ZAt, B1_, Table
  <2>4. \A p \in Facelet : ZAt[B1_[p]] <= -2 => YAt[p] = XAt[B1_[p]]
    BY Enumerated DEF XAt, YAt, ZAt, B1_, Table
  <2>5. \A p \in Facelet : ZAt[B1_[p]] <= -2 => ZAt[p] = ZAt[B1_[p]]
    BY Enumerated DEF XAt, YAt, ZAt, B1_, Table
  <2> QED BY <1>2, <1>3, <2>1, <2>2, <2>3, <2>4, <2>5, HomeAt, PlaceType, SMTT(30)
         DEF TurnsIn, Turned, n
<1>7. TurnsIn(B2_, B_, 2)
  <2>1. \A p \in Facelet : B2_[p] \in Facelet
    BY Enumerated DEF B2_, Table, Facelet
  <2>2. \A p \in Facelet : ZAt[B2_[p]] > -2 => B2_[p] = p
    BY Enumerated DEF ZAt, B2_, Table
  <2>3. \A p \in Facelet : ZAt[B2_[p]] <= -2 => XAt[p] = -XAt[B2_[p]]
    BY Enumerated DEF XAt, YAt, ZAt, B2_, Table
  <2>4. \A p \in Facelet : ZAt[B2_[p]] <= -2 => YAt[p] = -YAt[B2_[p]]
    BY Enumerated DEF XAt, YAt, ZAt, B2_, Table
  <2>5. \A p \in Facelet : ZAt[B2_[p]] <= -2 => ZAt[p] = ZAt[B2_[p]]
    BY Enumerated DEF XAt, YAt, ZAt, B2_, Table
  <2> QED BY <1>2, <1>4, <2>1, <2>2, <2>3, <2>4, <2>5, HomeAt, PlaceType, SMTT(30)
         DEF TurnsIn, Turned, n
<1>8. TurnsIn(B3_, B_, 3)
  <2>1. \A p \in Facelet : B3_[p] \in Facelet
    BY Enumerated DEF B3_, Table, Facelet
  <2>2. \A p \in Facelet : B3_[p] = p \/ ZAt[B3_[p]] <= -2
    BY Enumerated DEF XAt, YAt, ZAt, B3_, Table
  <2>3. \A p \in Facelet : ZAt[B3_[p]] <= -2 => XAt[p] = YAt[B3_[p]]
    BY Enumerated DEF XAt, YAt, ZAt, B3_, Table
  <2>4. \A p \in Facelet : ZAt[B3_[p]] <= -2 => YAt[p] = -XAt[B3_[p]]
    BY Enumerated DEF XAt, YAt, ZAt, B3_, Table
  <2>5. \A p \in Facelet : ZAt[B3_[p]] <= -2 => ZAt[p] = ZAt[B3_[p]]
    BY Enumerated DEF XAt, YAt, ZAt, B3_, Table
  <2> QED BY <1>2, <1>5, <2>1, <2>2, <2>3, <2>4, <2>5, HomeAt, PlaceType, SMTT(30)
         DEF TurnsIn, Turned, n
<1> QED BY <1>6, <1>7, <1>8

LEMMA RotatesByLR_90 ==
  \A p \in Facelet : LR_90_[p] \in Facelet /\ Home(p) = Quarter(Normal[R_ + 1], Home(LR_90_[p]))
<1>1. \A p \in Facelet : LR_90_[p] \in Facelet
  BY Enumerated DEF LR_90_, Table, Facelet
<1>2. \A p \in Facelet : XAt[p] = XAt[LR_90_[p]]
  BY Enumerated DEF XAt, YAt, ZAt, LR_90_, Table
<1>3. \A p \in Facelet : YAt[p] = ZAt[LR_90_[p]]
  BY Enumerated DEF XAt, YAt, ZAt, LR_90_, Table
<1>4. \A p \in Facelet : ZAt[p] = -YAt[LR_90_[p]]
  BY Enumerated DEF XAt, YAt, ZAt, LR_90_, Table
<1> QED BY <1>1, <1>2, <1>3, <1>4, HomeAt, PlaceType, QuarterR

LEMMA RotatesByFB_90 ==
  \A p \in Facelet : FB_90_[p] \in Facelet /\ Home(p) = Quarter(Normal[F_ + 1], Home(FB_90_[p]))
<1>1. \A p \in Facelet : FB_90_[p] \in Facelet
  BY Enumerated DEF FB_90_, Table, Facelet
<1>2. \A p \in Facelet : XAt[p] = YAt[FB_90_[p]]
  BY Enumerated DEF XAt, YAt, ZAt, FB_90_, Table
<1>3. \A p \in Facelet : YAt[p] = -XAt[FB_90_[p]]
  BY Enumerated DEF XAt, YAt, ZAt, FB_90_, Table
<1>4. \A p \in Facelet : ZAt[p] = ZAt[FB_90_[p]]
  BY Enumerated DEF XAt, YAt, ZAt, FB_90_, Table
<1> QED BY <1>1, <1>2, <1>3, <1>4, HomeAt, PlaceType, QuarterF

LEMMA RotatesByURF ==
  \A p \in Facelet : /\ URF_[p] \in Facelet
                     /\ Home(p) = <<Home(URF_[p])[2], Home(URF_[p])[3], Home(URF_[p])[1]>>
<1>1. \A p \in Facelet : URF_[p] \in Facelet
  BY Enumerated DEF URF_, Table, Facelet
<1>2. \A p \in Facelet : XAt[p] = YAt[URF_[p]]
  BY Enumerated DEF XAt, YAt, ZAt, URF_, Table
<1>3. \A p \in Facelet : YAt[p] = ZAt[URF_[p]]
  BY Enumerated DEF XAt, YAt, ZAt, URF_, Table
<1>4. \A p \in Facelet : ZAt[p] = XAt[URF_[p]]
  BY Enumerated DEF XAt, YAt, ZAt, URF_, Table
<1> QED BY <1>1, <1>2, <1>3, <1>4, HomeAt, PlaceType
\* Every table of a turn is the one of its face and amount.
LEMMA TableOfTurn ==
  ASSUME NEW face \in FaceSet, NEW times \in 1 .. 3
  PROVE  /\ TurnsIn(MovesTable[face + 1][times], face, times)
         /\ MovesTable[face + 1][times] \in [Facelet -> Facelet]
<1> DEFINE Right(m, f, t) == TurnsIn(m, f, t) /\ m \in [Facelet -> Facelet]
<1>1. ASSUME NEW names, NEW f, NEW t, TurnsIn(Table(names), f, t)
      PROVE  Right(Table(names), f, t)
  <2>1. \A p \in Facelet : Table(names)[p] \in Facelet
    BY <1>1 DEF TurnsIn
  <2> QED BY <1>1, <2>1 DEF Table
<1>2. Right(U1_, U_, 1) /\ Right(U2_, U_, 2) /\ Right(U3_, U_, 3)
  <2> HIDE DEF Right
  <2> QED BY <1>1, TurnsOfU DEF U1_, U2_, U3_
<1>3. Right(R1_, R_, 1) /\ Right(R2_, R_, 2) /\ Right(R3_, R_, 3)
  <2> HIDE DEF Right
  <2> QED BY <1>1, TurnsOfR DEF R1_, R2_, R3_
<1>4. Right(F1_, F_, 1) /\ Right(F2_, F_, 2) /\ Right(F3_, F_, 3)
  <2> HIDE DEF Right
  <2> QED BY <1>1, TurnsOfF DEF F1_, F2_, F3_
<1>5. Right(D1_, D_, 1) /\ Right(D2_, D_, 2) /\ Right(D3_, D_, 3)
  <2> HIDE DEF Right
  <2> QED BY <1>1, TurnsOfD DEF D1_, D2_, D3_
<1>6. Right(L1_, L_, 1) /\ Right(L2_, L_, 2) /\ Right(L3_, L_, 3)
  <2> HIDE DEF Right
  <2> QED BY <1>1, TurnsOfL DEF L1_, L2_, L3_
<1>7. Right(B1_, B_, 1) /\ Right(B2_, B_, 2) /\ Right(B3_, B_, 3)
  <2> HIDE DEF Right
  <2> QED BY <1>1, TurnsOfB DEF B1_, B2_, B3_
<1>8. times \in {1, 2, 3} /\ face \in {0, 1, 2, 3, 4, 5}
  BY DEF FaceSet
<1>9. Right(MovesTable[face + 1][times], face, times)
  <2> HIDE DEF Right
  <2> QED BY <1>2, <1>3, <1>4, <1>5, <1>6, <1>7, <1>8
          DEF MovesTable, U_, R_, F_, D_, L_, B_
<1> QED BY <1>9

LEMMA RotationType ==
  LR_90_ \in [Facelet -> Facelet] /\ FB_90_ \in [Facelet -> Facelet] /\ URF_ \in [Facelet -> Facelet]
<1>1. ASSUME NEW names, \A p \in Facelet : Table(names)[p] \in Facelet
      PROVE  Table(names) \in [Facelet -> Facelet]
  BY <1>1 DEF Table
<1>2. LR_90_ \in [Facelet -> Facelet]
  BY <1>1, RotatesByLR_90 DEF LR_90_
<1>3. FB_90_ \in [Facelet -> Facelet]
  BY <1>1, RotatesByFB_90 DEF FB_90_
<1>4. URF_ \in [Facelet -> Facelet]
  BY <1>1, RotatesByURF DEF URF_
<1> QED BY <1>2, <1>3, <1>4

\* A map of the facelets that keeps them apart reaches all of them.
LEMMA Onto ==
  ASSUME NEW f \in [Facelet -> Facelet], \A p, j \in Facelet : f[p] = f[j] => p = j
  PROVE  \A s \in Facelet : \E p \in Facelet : f[p] = s
<1>1. f \in Injection(Facelet, Facelet)
  BY DEF Injection, IsInjective
<1>2. IsFiniteSet(Facelet)
  <2>0. 1 \in Int /\ 54 \in Int
    OBVIOUS
  <2>1. IsFiniteSet(1 .. 54)
    BY <2>0, FS_Interval, Zenon
  <2> QED BY <2>1 DEF Facelet
<1>3. f \in Surjection(Facelet, Facelet)
  BY <1>1, <1>2, FS_Injection
<1> QED BY <1>3 DEF Surjection

LEMMA TurnInjective ==
  ASSUME NEW face \in FaceSet, NEW times \in 1 .. 3, NEW p \in Facelet, NEW j \in Facelet,
         MovesTable[face + 1][times][p] = MovesTable[face + 1][times][j]
  PROVE  p = j
BY TableOfTurn, HomeInjective DEF TurnsIn

-----------------------------------------------------------------------------
\* Sequences of turns.

Turnings == FaceSet \X (1 .. 3)
Painting(colours) == [Facelet -> colours]

LEMMA TurnFaceType ==
  ASSUME NEW colours, NEW s \in Painting(colours), NEW turn \in Turnings
  PROVE  TurnFace(s, turn) \in Painting(colours)
<1>1. turn[1] \in FaceSet /\ turn[2] \in 1 .. 3
  BY DEF Turnings
<1> DEFINE m == MovesTable[turn[1] + 1][turn[2]]
<1>2. m \in [Facelet -> Facelet]
  BY <1>1, TableOfTurn
<1> HIDE DEF m
<1>3. [p \in Facelet |-> s[m[p]]] \in [Facelet -> colours]
  BY <1>2 DEF Painting
<1> QED BY <1>3 DEF TurnFace, MakeMove, Painting, m

\* The states f on the way through a sequence of turns.
Through(f, s, ts) ==
  /\ f[0] = s /\ MakeMoves(s, ts) = f[Len(ts)]
  /\ \A k \in 0 .. Len(ts) - 1 : f[k + 1] = TurnFace(f[k], ts[k + 1])

LEMMA MakeMovesSteps ==
  ASSUME NEW colours, NEW s \in Painting(colours), NEW ts \in Seq(Turnings)
  PROVE  \E f \in [0 .. Len(ts) -> Painting(colours)] : Through(f, s, ts)
<1> DEFINE n == Len(ts)
           Paints == Painting(colours)
           after == CHOOSE f : f = [k \in 0 .. n |-> IF k = 0 THEN s ELSE TurnFace(f[k - 1], ts[k])]
           step == [k \in 0 .. n - 1 |-> [r \in Paints |-> TurnFace(r, ts[k + 1])]]
<1>0. n \in Nat
  OBVIOUS
<1>1. \A k \in 0 .. n - 1 : ts[k + 1] \in Turnings
  BY <1>0
<1>2. step \in [0 .. n - 1 -> [Paints -> Paints]]
  <2> HIDE DEF Paints, n
  <2> SUFFICES ASSUME NEW k \in 0 .. n - 1, NEW r \in Paints PROVE TurnFace(r, ts[k + 1]) \in Paints
    OBVIOUS
  <2> QED BY <1>1, TurnFaceType DEF Paints
<1>3. PICK f \in [0 .. n -> Paints] : IsRecursion(f, s, n, step)
  <2> HIDE DEF step, n, Paints
  <2>1. s \in Paints
    BY DEF Paints
  <2> QED BY <1>0, <1>2, <2>1, BoundedRecursion
<1>4. ASSUME NEW k \in 0 .. n - 1 PROVE f[k + 1] = TurnFace(f[k], ts[k + 1])
  <2> HIDE DEF Paints, n
  <2>1. f[k] \in Paints
    BY <1>0
  <2>2. f[k + 1] = step[k][f[k]]
    BY <1>3 DEF IsRecursion
  <2> QED BY <2>1, <2>2
<1>5. f = [k \in 0 .. n |-> IF k = 0 THEN s ELSE TurnFace(f[k - 1], ts[k])]
  <2> HIDE DEF Paints, n
  <2> SUFFICES ASSUME NEW k \in 0 .. n PROVE f[k] = IF k = 0 THEN s ELSE TurnFace(f[k - 1], ts[k])
    OBVIOUS
  <2>1. CASE k = 0
    BY <2>1, <1>3 DEF IsRecursion
  <2>2. CASE k # 0
    <3>1. k - 1 \in 0 .. n - 1 /\ (k - 1) + 1 = k
      BY <2>2, <1>0
    <3>2. f[(k - 1) + 1] = TurnFace(f[k - 1], ts[(k - 1) + 1])
      BY <3>1, <1>4
    <3> QED BY <2>2, <3>1, <3>2
  <2> QED BY <2>1, <2>2
<1>6. after = [k \in 0 .. n |-> IF k = 0 THEN s ELSE TurnFace(after[k - 1], ts[k])]
  <2> HIDE DEF n, Paints
  <2> QED BY <1>5
<1>7. after[0] = s /\ \A k \in 0 .. n - 1 : after[k + 1] = TurnFace(after[k], ts[k + 1])
  <2> HIDE DEF after, n
  <2>1. 0 \in 0 .. n /\ \A k \in 0 .. n - 1 : k + 1 \in 0 .. n /\ k + 1 # 0 /\ (k + 1) - 1 = k
    BY <1>0
  <2>2. after[0] = s
    BY <1>6, <2>1
  <2>3. ASSUME NEW k \in 0 .. n - 1 PROVE after[k + 1] = TurnFace(after[k], ts[k + 1])
    <3>1. after[k + 1] = IF k + 1 = 0 THEN s ELSE TurnFace(after[(k + 1) - 1], ts[k + 1])
      BY <1>6, <2>1
    <3> QED BY <2>1, <3>1
  <2> QED BY <2>2, <2>3
<1>8. \A k \in 0 .. n : after[k] \in Paints
  <2> DEFINE E == {k \in Nat : k <= n => after[k] \in Paints}
  <2>1. 0 \in E
    <3> HIDE DEF after
    <3> QED BY <1>7 DEF Paints
  <2>2. \A k \in Nat : k \in E => k + 1 \in E
    <3> HIDE DEF after, n, Paints
    <3> SUFFICES ASSUME NEW k \in Nat, k + 1 <= n, after[k] \in Paints PROVE after[k + 1] \in Paints
      BY <1>0
    <3>1. k \in 0 .. n - 1
      BY <1>0
    <3> QED BY <3>1, <1>1, <1>7, TurnFaceType DEF Paints
  <2>3. Nat \subseteq E
    <3> HIDE DEF E
    <3> QED BY <2>1, <2>2, NatInd
  <2> HIDE DEF after, n, Paints
  <2> QED BY <2>3, <1>0
<1>9. after \in [0 .. n -> Paints]
  <2> HIDE DEF after, n, Paints
  <2>1. [k \in 0 .. n |-> IF k = 0 THEN s ELSE TurnFace(after[k - 1], ts[k])]
          = [k \in 0 .. n |-> after[k]]
    BY <1>6
  <2> QED BY <1>6, <1>8, <2>1
<1>10. MakeMoves(s, ts) = after[n]
  BY DEF MakeMoves
<1> HIDE DEF after
<1>11. Through(after, s, ts)
  BY <1>7, <1>10 DEF Through
<1> QED BY <1>9, <1>11

-----------------------------------------------------------------------------
\* The cube of the tables is a cube in space.

\* Where the facelets of c are.
PlaceIn(c) == [s \in Facelet |-> Home(CHOOSE p \in Facelet : c[p] = s)]

LEMMA PlaceInType == \A c : PlaceIn(c) = [s \in Facelet |-> PlaceIn(c)[s]]
<1> TAKE c
<1> DEFINE Spot(s) == CHOOSE p \in Facelet : c[p] = s
<1>1. PlaceIn(c) = [s \in Facelet |-> Home(Spot(s))]
  BY Zenon DEF PlaceIn
<1> HIDE DEF Spot
<1> QED BY <1>1

\* Every sticker is at one facelet.
Whole(c) ==
  /\ c \in [Facelet -> Facelet]
  /\ \A p, j \in Facelet : c[p] = c[j] => p = j

LEMMA MovedWhole ==
  ASSUME NEW c, Whole(c), NEW m, Whole(m)
  PROVE  /\ Whole(MakeMove(c, m))
         /\ \A s \in Facelet : \E p \in Facelet :
              PlaceIn(c)[s] = Home(m[p]) /\ PlaceIn(MakeMove(c, m))[s] = Home(p)
<1> DEFINE d == MakeMove(c, m)
<1>1. Whole(d)
  BY DEF Whole, MakeMove
<1>2. ASSUME NEW s \in Facelet
      PROVE  \E p \in Facelet : PlaceIn(c)[s] = Home(m[p]) /\ PlaceIn(d)[s] = Home(p)
  <2> DEFINE p == CHOOSE k \in Facelet : d[k] = s
             j == CHOOSE k \in Facelet : c[k] = s
  <2>1. p \in Facelet /\ d[p] = s
    <3>1. \E k \in Facelet : d[k] = s
      BY <1>1, Onto DEF Whole
    <3> HIDE DEF d
    <3> QED BY <3>1
  <2>2. j \in Facelet /\ c[j] = s
    <3>1. \E k \in Facelet : c[k] = s
      BY Onto DEF Whole
    <3> QED BY <3>1
  <2>3. d[p] = c[m[p]] /\ m[p] \in Facelet
    <3> HIDE DEF p
    <3> QED BY <2>1 DEF MakeMove, Whole
  <2>4. m[p] = j
    <3> HIDE DEF p, j, d
    <3> QED BY <2>1, <2>2, <2>3 DEF Whole
  <2>5. PlaceIn(d)[s] = Home(p) /\ PlaceIn(c)[s] = Home(j)
    BY Zenon DEF PlaceIn
  <2> HIDE DEF p, j, d
  <2> QED BY <2>1, <2>4, <2>5
<1> QED BY <1>1, <1>2

\* A turn of the cube.
LEMMA TurnMoves ==
  ASSUME NEW c, Whole(c), NEW turn \in Turnings
  PROVE  /\ Whole(TurnFace(c, turn))
         /\ PlaceIn(TurnFace(c, turn)) =
              [s \in Facelet |-> Turned(turn[1], turn[2], PlaceIn(c)[s])]
<1>1. turn[1] \in FaceSet /\ turn[2] \in 1 .. 3
  BY DEF Turnings
<1> DEFINE m == MovesTable[turn[1] + 1][turn[2]]
<1>2. Whole(m)
  BY <1>1, TableOfTurn, TurnInjective DEF Whole
<1>3. \A p \in Facelet : Home(p) = Turned(turn[1], turn[2], Home(m[p]))
  BY <1>1, TableOfTurn DEF TurnsIn
<1> HIDE DEF m
<1>4. /\ Whole(MakeMove(c, m))
      /\ \A s \in Facelet : \E p \in Facelet :
           PlaceIn(c)[s] = Home(m[p]) /\ PlaceIn(MakeMove(c, m))[s] = Home(p)
  BY <1>2, MovedWhole
<1>5. \A s \in Facelet : PlaceIn(MakeMove(c, m))[s] = Turned(turn[1], turn[2], PlaceIn(c)[s])
  BY <1>3, <1>4
<1>6. PlaceIn(MakeMove(c, m)) = [s \in Facelet |-> PlaceIn(MakeMove(c, m))[s]]
  BY PlaceInType
<1> QED BY <1>4, <1>5, <1>6 DEF TurnFace, m

\* What each rotation does to every sticker.
LEMMA RotationMoves ==
  ASSUME NEW c, Whole(c)
  PROVE  /\ Whole(MakeMove(c, LR_90_)) /\ Whole(MakeMove(c, FB_90_)) /\ Whole(MakeMove(c, URF_))
         /\ PlaceIn(MakeMove(c, LR_90_)) =
              [s \in Facelet |-> Quarter(Normal[R_ + 1], PlaceIn(c)[s])]
         /\ PlaceIn(MakeMove(c, FB_90_)) =
              [s \in Facelet |-> Quarter(Normal[F_ + 1], PlaceIn(c)[s])]
         /\ PlaceIn(MakeMove(c, URF_)) =
              [s \in Facelet |-> <<PlaceIn(c)[s][2], PlaceIn(c)[s][3], PlaceIn(c)[s][1]>>]
<1>0. \A m : PlaceIn(MakeMove(c, m)) = [s \in Facelet |-> PlaceIn(MakeMove(c, m))[s]]
  BY PlaceInType
<1>1. /\ Whole(MakeMove(c, LR_90_))
      /\ \A s \in Facelet : PlaceIn(MakeMove(c, LR_90_))[s] = Quarter(Normal[R_ + 1], PlaceIn(c)[s])
  <2>1. Whole(LR_90_)
    BY RotatesByLR_90, RotationType, HomeInjective DEF Whole
  <2>2. /\ Whole(MakeMove(c, LR_90_))
        /\ \A s \in Facelet : \E p \in Facelet :
             PlaceIn(c)[s] = Home(LR_90_[p]) /\ PlaceIn(MakeMove(c, LR_90_))[s] = Home(p)
    BY <2>1, MovedWhole
  <2> QED BY <2>2, RotatesByLR_90
<1>2. /\ Whole(MakeMove(c, FB_90_))
      /\ \A s \in Facelet : PlaceIn(MakeMove(c, FB_90_))[s] = Quarter(Normal[F_ + 1], PlaceIn(c)[s])
  <2>1. Whole(FB_90_)
    BY RotatesByFB_90, RotationType, HomeInjective DEF Whole
  <2>2. /\ Whole(MakeMove(c, FB_90_))
        /\ \A s \in Facelet : \E p \in Facelet :
             PlaceIn(c)[s] = Home(FB_90_[p]) /\ PlaceIn(MakeMove(c, FB_90_))[s] = Home(p)
    BY <2>1, MovedWhole
  <2> QED BY <2>2, RotatesByFB_90
<1>3. /\ Whole(MakeMove(c, URF_))
      /\ \A s \in Facelet : PlaceIn(MakeMove(c, URF_))[s]
           = <<PlaceIn(c)[s][2], PlaceIn(c)[s][3], PlaceIn(c)[s][1]>>
  <2>1. Whole(URF_)
    BY RotatesByURF, RotationType, HomeInjective DEF Whole
  <2>2. /\ Whole(MakeMove(c, URF_))
        /\ \A s \in Facelet : \E p \in Facelet :
             PlaceIn(c)[s] = Home(URF_[p]) /\ PlaceIn(MakeMove(c, URF_))[s] = Home(p)
    BY <2>1, MovedWhole
  <2> QED BY <2>2, RotatesByURF
<1> QED BY <1>0, <1>1, <1>2, <1>3

-----------------------------------------------------------------------------
\* The turns of the calibration program.

LEMMA FlattenType ==
  ASSUME NEW T, NEW seqs \in Seq(Seq(T)), seqs # <<>>
  PROVE  FlattenSeq(seqs) \in Seq(T)
<1> DEFINE n == Len(seqs)
           flatten == CHOOSE f : f = [p \in 1 .. n |-> IF p = 1 THEN seqs[p] ELSE f[p - 1] \o seqs[p]]
           step == [k \in 0 .. (n - 1) - 1 |-> [r \in Seq(T) |-> r \o seqs[k + 2]]]
<1>1. n \in Nat /\ n # 0 /\ n - 1 \in Nat /\ \A p \in 1 .. n : seqs[p] \in Seq(T)
  OBVIOUS
<1> HIDE DEF n
<1>2. step \in [0 .. (n - 1) - 1 -> [Seq(T) -> Seq(T)]]
  <2> SUFFICES ASSUME NEW k \in 0 .. (n - 1) - 1, NEW r \in Seq(T) PROVE r \o seqs[k + 2] \in Seq(T)
    OBVIOUS
  <2>1. seqs[k + 2] \in Seq(T)
    BY <1>1
  <2> QED BY <2>1
<1>3. PICK g \in [0 .. n - 1 -> Seq(T)] : IsRecursion(g, seqs[1], n - 1, step)
  <2>1. seqs[1] \in Seq(T)
    BY <1>1
  <2> HIDE DEF step
  <2> QED BY <1>1, <1>2, <2>1, BoundedRecursion
<1> DEFINE f == [p \in 1 .. n |-> g[p - 1]]
<1>4. f = [p \in 1 .. n |-> IF p = 1 THEN seqs[p] ELSE f[p - 1] \o seqs[p]]
  <2>1. ASSUME NEW p \in 1 .. n PROVE f[p] = IF p = 1 THEN seqs[p] ELSE f[p - 1] \o seqs[p]
    <3>1. CASE p = 1
      BY <3>1, <1>3 DEF IsRecursion
    <3>2. CASE p # 1
      <4>1. p - 2 \in 0 .. (n - 1) - 1 /\ (p - 2) + 1 = p - 1 /\ (p - 2) + 2 = p
            /\ p - 1 \in 1 .. n /\ (p - 1) - 1 = p - 2 /\ p - 2 \in 0 .. n - 1
        BY <3>2, <1>1
      <4>2. g[(p - 2) + 1] = step[p - 2][g[p - 2]]
        <5> HIDE DEF step
        <5> QED BY <4>1, <1>3 DEF IsRecursion
      <4>3. g[p - 2] \in Seq(T)
        BY <4>1
      <4>4. step[p - 2][g[p - 2]] = g[p - 2] \o seqs[(p - 2) + 2]
        BY <4>1, <4>3
      <4> HIDE DEF step
      <4>5. f[p] = g[p - 1] /\ f[p - 1] = g[p - 2]
        BY <4>1
      <4> QED BY <3>2, <4>1, <4>2, <4>4, <4>5
    <3> QED BY <3>1, <3>2
  <2>2. f = [p \in 1 .. n |-> f[p]]
    OBVIOUS
  <2> HIDE DEF f
  <2> QED BY <2>1, <2>2
<1>5. flatten = [p \in 1 .. n |-> IF p = 1 THEN seqs[p] ELSE flatten[p - 1] \o seqs[p]]
  <2> HIDE DEF f
  <2> QED BY <1>4
<1>6. \A k \in 1 .. n : flatten[k] = IF k = 1 THEN seqs[k] ELSE flatten[k - 1] \o seqs[k]
  <2> HIDE DEF flatten
  <2> QED BY <1>5
<1> HIDE DEF flatten
<1> DEFINE E == {k \in Nat : k + 1 <= n => flatten[k + 1] \in Seq(T)}
<1>7. 0 \in E
  <2>1. 0 + 1 = 1 /\ 1 \in 1 .. n
    BY <1>1
  <2>2. flatten[1] = seqs[1] /\ seqs[1] \in Seq(T)
    BY <2>1, <1>1, <1>6
  <2> QED BY <2>1, <2>2
<1>8. \A k \in Nat : k \in E => k + 1 \in E
  <2> SUFFICES ASSUME NEW k \in Nat, (k + 1) + 1 <= n, flatten[k + 1] \in Seq(T)
               PROVE  flatten[(k + 1) + 1] \in Seq(T)
    BY <1>1
  <2>1. (k + 1) + 1 \in 1 .. n /\ (k + 1) + 1 # 1 /\ ((k + 1) + 1) - 1 = k + 1
    BY <1>1
  <2>2. flatten[(k + 1) + 1] = flatten[((k + 1) + 1) - 1] \o seqs[(k + 1) + 1]
    BY <2>1, <1>6
  <2>3. seqs[(k + 1) + 1] \in Seq(T)
    BY <2>1, <1>1
  <2> QED BY <2>1, <2>2, <2>3
<1>9. Nat \subseteq E
  <2> HIDE DEF E
  <2> QED BY <1>7, <1>8, NatInd
<1>10. flatten[n] \in Seq(T)
  <2>1. (n - 1) + 1 = n /\ n <= n
    BY <1>1
  <2>2. n - 1 \in E
    <3> HIDE DEF E
    <3> QED BY <1>9, <1>1
  <2>3. (n - 1) + 1 <= n => flatten[(n - 1) + 1] \in Seq(T)
    BY <2>2
  <2> QED BY <2>1, <2>3
<1>11. FlattenSeq(seqs) = flatten[n]
  BY <1>1 DEF FlattenSeq, flatten, n
<1> QED BY <1>10, <1>11

LEMMA ProgramType == ProgramTurns \in Seq(Turnings)
<1>1. U_ \in FaceSet /\ R_ \in FaceSet /\ F_ \in FaceSet /\ D_ \in FaceSet /\ L_ \in FaceSet /\ B_ \in FaceSet
  BY DEF U_, R_, F_, D_, L_, B_, FaceSet
<1>2. P \in Seq(Turnings) /\ RLi \in Seq(Turnings) /\ RiL \in Seq(Turnings) /\ FBi \in Seq(Turnings)
  BY <1>1 DEF P, RLi, RiL, FBi, Turnings
<1>3. Rotate_URF \in Seq(Seq(Turnings)) /\ Rotate_UFL \in Seq(Seq(Turnings))
  BY <1>2 DEF Rotate_URF, Rotate_UFL
<1>4. Rotations \in Seq(Seq(Seq(Turnings))) /\ Rotations # <<>>
  BY <1>3 DEF Rotations
<1>5. FlattenSeq(Rotations) \in Seq(Seq(Turnings))
  BY <1>4, FlattenType
<1>6. ProgramTurns \in Seq(Turnings)
  <2>1. CASE FlattenSeq(Rotations) = <<>>
    <3>1. FlattenSeq(<<>>) = <<>>
      BY DEF FlattenSeq
    <3>2. ProgramTurns = <<>>
      BY <2>1, <3>1, Zenon DEF ProgramTurns
    <3> QED BY <3>2
  <2>2. CASE FlattenSeq(Rotations) # <<>>
    BY <2>2, <1>5, FlattenType DEF ProgramTurns
  <2> QED BY <2>1, <2>2
<1> QED BY <1>6

-----------------------------------------------------------------------------
\* The refinement.

\* What is known of every state: each sticker is at one facelet, and the turns
\* are turns of faces.
CubeIInv == Whole(cube) /\ turns \in Seq(Turnings) /\ played \in Nat

LEMMA CubeInvInit == CubeInit => CubeIInv
BY DEF CubeInit, CubeIInv, Whole

LEMMA PlayTurns ==
  ASSUME played \in Nat, played < Len(ProgramTurns)
  PROVE  ProgramTurns[played + 1] \in Turnings
<1>1. Len(ProgramTurns) \in Nat /\ \A k \in 1 .. Len(ProgramTurns) : ProgramTurns[k] \in Turnings
  BY ProgramType
<1> QED BY <1>1

LEMMA CubeInvNext == CubeIInv /\ [CubeNext]_cubeVars => CubeIInv'
<1> SUFFICES ASSUME CubeIInv, [CubeNext]_cubeVars PROVE CubeIInv'
  OBVIOUS
<1>1. ASSUME NEW face \in FaceSet, NEW times \in 1 .. 3, Turn(face, times) PROVE CubeIInv'
  <2>1. <<face, times>> \in Turnings
    BY DEF Turnings
  <2>2. /\ cube' = TurnFace(cube, <<face, times>>)
        /\ turns' = Append(turns, <<face, times>>) /\ played' = played
    BY <1>1 DEF Turn, TurnAll, Use, TurnFace
  <2>3. Whole(cube')
    BY <2>1, <2>2, TurnMoves DEF CubeIInv
  <2> QED BY <2>1, <2>2, <2>3 DEF CubeIInv
<1>2. CASE Rotate
  <2>1. turns' = turns /\ played' = played
    BY <1>2 DEF Rotate
  <2>2. \/ cube' = MakeMove(cube, LR_90_)
        \/ cube' = MakeMove(cube, FB_90_)
        \/ cube' = MakeMove(cube, URF_)
    BY <1>2 DEF Rotate, Use
  <2> QED BY <2>1, <2>2, RotationMoves DEF CubeIInv
<1>3. CASE Play
  <2>1. turns' = turns /\ played' = played + 1
    BY <1>3 DEF Play
  <2>2. ProgramTurns[played + 1] \in Turnings
    BY <1>3, PlayTurns DEF Play, CubeIInv
  <2>3. cube' = TurnFace(cube, ProgramTurns[played + 1])
    BY <1>3 DEF Play, TurnAll, Use, TurnFace
  <2>4. Whole(cube')
    BY <2>2, <2>3, TurnMoves DEF CubeIInv
  <2> QED BY <2>1, <2>4 DEF CubeIInv
<1>4. CASE UNCHANGED cubeVars
  BY <1>4 DEF cubeVars, CubeIInv
<1> QED BY <1>1, <1>2, <1>3, <1>4 DEF CubeNext

LEMMA SpecCubeIInv == CubeSpec => []CubeIInv
BY CubeInvInit, CubeInvNext, PTL DEF CubeSpec

LEMMA SameGeometry ==
  /\ \A p : Physical!Home(p) = Home(p)
  /\ Physical!Normal = Normal
  /\ \A n, v : Physical!InLayer(n, v) <=> InLayer(n, v)
  /\ \A n, v : Physical!Quarter(n, v) = Quarter(n, v)
  /\ \A n, t, v : Physical!Quarters(n, t, v) = Quarters(n, t, v)
<1>1. \A p : Physical!Home(p) = Home(p)
  BY Zenon DEF Physical!Home, Home
<1>2. Physical!Normal = Normal
  BY Zenon DEF Physical!Normal, Normal
<1>3. \A v, w : Physical!Dot(v, w) = Dot(v, w) /\ Physical!Cross(v, w) = Cross(v, w)
  BY Zenon DEF Physical!Dot, Dot, Physical!Cross, Cross
<1>4. \A n, v : Physical!InLayer(n, v) <=> InLayer(n, v)
  BY <1>3, Zenon DEF Physical!InLayer, InLayer
<1>5. \A n, v : Physical!Quarter(n, v) = Quarter(n, v)
  BY <1>3 DEF Physical!Quarter, Quarter
<1>6. \A n, t, v : Physical!Quarters(n, t, v) = Quarters(n, t, v)
  BY <1>5 DEF Physical!Quarters, Quarters
<1> QED BY <1>1, <1>2, <1>4, <1>5, <1>6

LEMMA PhysicalInit == CubeInit => Physical!Init
<1> SUFFICES ASSUME CubeInit PROVE Physical!Init
  OBVIOUS
<1>1. ASSUME NEW s \in Facelet PROVE (CHOOSE p \in Facelet : cube[p] = s) = s
  BY DEF CubeInit
<1>2. Placed = [s \in Facelet |-> Home(s)]
  <2> DEFINE Spot(s) == CHOOSE p \in Facelet : cube[p] = s
  <2>1. Placed = [s \in Facelet |-> Home(Spot(s))]
    BY Zenon DEF Placed
  <2> HIDE DEF Spot
  <2>2. \A s \in Facelet : Spot(s) = s
    BY <1>1 DEF Spot
  <2> QED BY <2>1, <2>2
<1> QED BY <1>2, SameGeometry DEF Physical!Init, CubeInit

LEMMA PhysicalStep ==
  ASSUME NEW turn \in Turnings, Whole(cube), cube' = TurnFace(cube, turn)
  PROVE  \E face \in 0 .. 5, times \in 1 .. 3 : Physical!Turn(face, times)
<1>1. Placed = PlaceIn(cube) /\ Placed' = PlaceIn(cube')
  BY Zenon DEF Placed, PlaceIn
<1>2. Placed' = [s \in Facelet |-> Turned(turn[1], turn[2], Placed[s])]
  BY <1>1, TurnMoves
<1>3. Physical!Turn(turn[1], turn[2])
  BY <1>2, SameGeometry DEF Physical!Turn, Turned
<1>4. turn[1] \in 0 .. 5 /\ turn[2] \in 1 .. 3
  BY DEF Turnings, FaceSet
<1> QED BY <1>3, <1>4

LEMMA PhysicalRotation ==
  ASSUME Whole(cube),
         \/ cube' = MakeMove(cube, LR_90_) \/ cube' = MakeMove(cube, FB_90_) \/ cube' = MakeMove(cube, URF_)
  PROVE  (\E face \in 0 .. 5 : Physical!Rotate(face)) \/ Physical!RotateURF
<1>1. Placed = PlaceIn(cube) /\ Placed' = PlaceIn(cube')
  BY Zenon DEF Placed, PlaceIn
<1>2. CASE cube' = MakeMove(cube, LR_90_)
  <2>1. Placed' = [s \in Facelet |-> Quarter(Normal[R_ + 1], Placed[s])]
    BY <1>1, <1>2, RotationMoves
  <2>2. Physical!Rotate(R_)
    BY <2>1, SameGeometry DEF Physical!Rotate
  <2> QED BY <2>2 DEF R_
<1>3. CASE cube' = MakeMove(cube, FB_90_)
  <2>1. Placed' = [s \in Facelet |-> Quarter(Normal[F_ + 1], Placed[s])]
    BY <1>1, <1>3, RotationMoves
  <2>2. Physical!Rotate(F_)
    BY <2>1, SameGeometry DEF Physical!Rotate
  <2> QED BY <2>2 DEF F_
<1>4. CASE cube' = MakeMove(cube, URF_)
  <2>1. Placed' = [s \in Facelet |-> <<Placed[s][2], Placed[s][3], Placed[s][1]>>]
    BY <1>1, <1>4, RotationMoves
  <2>2. Physical!RotateURF
    BY <2>1 DEF Physical!RotateURF
  <2> QED BY <2>2
<1> QED BY <1>2, <1>3, <1>4

LEMMA PhysicalNext == CubeIInv /\ [CubeNext]_cubeVars => [Physical!Next]_<<Placed, turned>>
<1> SUFFICES ASSUME CubeIInv, [CubeNext]_cubeVars PROVE [Physical!Next]_<<Placed, turned>>
  OBVIOUS
<1>1. ASSUME NEW face \in FaceSet, NEW times \in 1 .. 3, Turn(face, times) PROVE Physical!Next
  <2>1. <<face, times>> \in Turnings
    BY DEF Turnings
  <2>2. cube' = TurnFace(cube, <<face, times>>) /\ turned' = turned + 1
    BY <1>1 DEF Turn, TurnAll, Use, TurnFace
  <2> QED BY <2>1, <2>2, PhysicalStep DEF Physical!Next, CubeIInv
<1>2. CASE Rotate
  <2>1. /\ turned' = turned + 1
        /\ \/ cube' = MakeMove(cube, LR_90_) \/ cube' = MakeMove(cube, FB_90_) \/ cube' = MakeMove(cube, URF_)
    BY <1>2 DEF Rotate, Use
  <2> QED BY <2>1, PhysicalRotation DEF Physical!Next, CubeIInv
<1>3. CASE Play
  <2>1. ProgramTurns[played + 1] \in Turnings
    BY <1>3, PlayTurns DEF Play, CubeIInv
  <2>2. cube' = TurnFace(cube, ProgramTurns[played + 1]) /\ turned' = turned + 1
    BY <1>3 DEF Play, TurnAll, Use, TurnFace
  <2> QED BY <2>1, <2>2, PhysicalStep DEF Physical!Next, CubeIInv
<1>4. CASE UNCHANGED cubeVars
  BY <1>4 DEF cubeVars, Placed
<1> QED BY <1>1, <1>2, <1>3, <1>4 DEF CubeNext

\* The tables turn and rotate a cube in space, in every order of any number of
\* turns, and the calibration program does.
THEOREM TurnsACubeCorrect == CubeSpec => TurnsACube
<1>1. CubeInit => Physical!Init
  BY PhysicalInit
<1>2. CubeIInv /\ [CubeNext]_cubeVars => [Physical!Next]_<<Placed, turned>>
  BY PhysicalNext
<1> QED BY <1>1, <1>2, SpecCubeIInv, PTL DEF CubeSpec, TurnsACube, Physical!Spec

-----------------------------------------------------------------------------
\* A thread's problem is the cube in a disguise.

\* Rotating the cube by a quarter turn of face by makes of a turn of face g
\* one of face f.
RenamesAt(by, g, f, v) ==
  /\ InLayer(Normal[g + 1], v) <=> InLayer(Normal[f + 1], Quarter(Normal[by + 1], v))
  /\ Quarter(Normal[by + 1], Quarter(Normal[g + 1], v))
       = Quarter(Normal[f + 1], Quarter(Normal[by + 1], v))
Renames(by, g, f) == \A x, y, z \in Int : RenamesAt(by, g, f, <<x, y, z>>)

LEMMA LRRenames == \A f \in FaceSet : Renames(R_, LR_90_transform_rev[f + 1], f)
<1>1. Renames(R_, F_, U_)
  <2>1. ASSUME NEW x \in Int, NEW y \in Int, NEW z \in Int PROVE RenamesAt(R_, F_, U_, <<x, y, z>>)
    <3>1. Quarter(Normal[R_ + 1], <<x, y, z>>) = <<x, z, -y>>
      BY QuarterR
    <3>2. InLayer(Normal[F_ + 1], <<x, y, z>>) <=> InLayer(Normal[U_ + 1], <<x, z, -y>>)
      BY QuarterF, QuarterU
    <3>3. Quarter(Normal[U_ + 1], <<x, z, -y>>) = <<y, z, x>>
      BY QuarterU
    <3>4. Quarter(Normal[R_ + 1], Quarter(Normal[F_ + 1], <<x, y, z>>)) = <<y, z, x>>
      BY QuarterR, QuarterF
    <3> QED BY <3>1, <3>2, <3>3, <3>4 DEF RenamesAt
  <2> QED BY <2>1 DEF Renames
<1>2. Renames(R_, R_, R_)
  <2>1. ASSUME NEW x \in Int, NEW y \in Int, NEW z \in Int PROVE RenamesAt(R_, R_, R_, <<x, y, z>>)
    <3>1. Quarter(Normal[R_ + 1], <<x, y, z>>) = <<x, z, -y>>
      BY QuarterR
    <3>2. InLayer(Normal[R_ + 1], <<x, y, z>>) <=> InLayer(Normal[R_ + 1], <<x, z, -y>>)
      BY QuarterR
    <3>3. Quarter(Normal[R_ + 1], <<x, z, -y>>) = <<x, -y, -z>>
      BY QuarterR
    <3>4. Quarter(Normal[R_ + 1], Quarter(Normal[R_ + 1], <<x, y, z>>)) = <<x, -y, -z>>
      BY QuarterR
    <3> QED BY <3>1, <3>2, <3>3, <3>4 DEF RenamesAt
  <2> QED BY <2>1 DEF Renames
<1>3. Renames(R_, D_, F_)
  <2>1. ASSUME NEW x \in Int, NEW y \in Int, NEW z \in Int PROVE RenamesAt(R_, D_, F_, <<x, y, z>>)
    <3>1. Quarter(Normal[R_ + 1], <<x, y, z>>) = <<x, z, -y>>
      BY QuarterR
    <3>2. InLayer(Normal[D_ + 1], <<x, y, z>>) <=> InLayer(Normal[F_ + 1], <<x, z, -y>>)
      BY QuarterD, QuarterF
    <3>3. Quarter(Normal[F_ + 1], <<x, z, -y>>) = <<z, -x, -y>>
      BY QuarterF
    <3>4. Quarter(Normal[R_ + 1], Quarter(Normal[D_ + 1], <<x, y, z>>)) = <<z, -x, -y>>
      BY QuarterR, QuarterD
    <3> QED BY <3>1, <3>2, <3>3, <3>4 DEF RenamesAt
  <2> QED BY <2>1 DEF Renames
<1>4. Renames(R_, B_, D_)
  <2>1. ASSUME NEW x \in Int, NEW y \in Int, NEW z \in Int PROVE RenamesAt(R_, B_, D_, <<x, y, z>>)
    <3>1. Quarter(Normal[R_ + 1], <<x, y, z>>) = <<x, z, -y>>
      BY QuarterR
    <3>2. InLayer(Normal[B_ + 1], <<x, y, z>>) <=> InLayer(Normal[D_ + 1], <<x, z, -y>>)
      BY QuarterB, QuarterD
    <3>3. Quarter(Normal[D_ + 1], <<x, z, -y>>) = <<-y, z, -x>>
      BY QuarterD
    <3>4. Quarter(Normal[R_ + 1], Quarter(Normal[B_ + 1], <<x, y, z>>)) = <<-y, z, -x>>
      BY QuarterR, QuarterB
    <3> QED BY <3>1, <3>2, <3>3, <3>4 DEF RenamesAt
  <2> QED BY <2>1 DEF Renames
<1>5. Renames(R_, L_, L_)
  <2>1. ASSUME NEW x \in Int, NEW y \in Int, NEW z \in Int PROVE RenamesAt(R_, L_, L_, <<x, y, z>>)
    <3>1. Quarter(Normal[R_ + 1], <<x, y, z>>) = <<x, z, -y>>
      BY QuarterR
    <3>2. InLayer(Normal[L_ + 1], <<x, y, z>>) <=> InLayer(Normal[L_ + 1], <<x, z, -y>>)
      BY QuarterL
    <3>3. Quarter(Normal[L_ + 1], <<x, z, -y>>) = <<x, y, z>>
      BY QuarterL
    <3>4. Quarter(Normal[R_ + 1], Quarter(Normal[L_ + 1], <<x, y, z>>)) = <<x, y, z>>
      BY QuarterR, QuarterL
    <3> QED BY <3>1, <3>2, <3>3, <3>4 DEF RenamesAt
  <2> QED BY <2>1 DEF Renames
<1>6. Renames(R_, U_, B_)
  <2>1. ASSUME NEW x \in Int, NEW y \in Int, NEW z \in Int PROVE RenamesAt(R_, U_, B_, <<x, y, z>>)
    <3>1. Quarter(Normal[R_ + 1], <<x, y, z>>) = <<x, z, -y>>
      BY QuarterR
    <3>2. InLayer(Normal[U_ + 1], <<x, y, z>>) <=> InLayer(Normal[B_ + 1], <<x, z, -y>>)
      BY QuarterU, QuarterB
    <3>3. Quarter(Normal[B_ + 1], <<x, z, -y>>) = <<-z, x, -y>>
      BY QuarterB
    <3>4. Quarter(Normal[R_ + 1], Quarter(Normal[U_ + 1], <<x, y, z>>)) = <<-z, x, -y>>
      BY QuarterR, QuarterU
    <3> QED BY <3>1, <3>2, <3>3, <3>4 DEF RenamesAt
  <2> QED BY <2>1 DEF Renames
<1>7. \A f \in FaceSet : f \in {U_, R_, F_, D_, L_, B_}
  BY DEF FaceSet, U_, R_, F_, D_, L_, B_
<1>8. /\ LR_90_transform_rev[U_ + 1] = F_ /\ LR_90_transform_rev[R_ + 1] = R_
      /\ LR_90_transform_rev[F_ + 1] = D_ /\ LR_90_transform_rev[D_ + 1] = B_
      /\ LR_90_transform_rev[L_ + 1] = L_ /\ LR_90_transform_rev[B_ + 1] = U_
  BY DEF LR_90_transform_rev, U_, R_, F_, D_, L_, B_
<1> QED BY <1>1, <1>2, <1>3, <1>4, <1>5, <1>6, <1>7, <1>8, Zenon

LEMMA FBRenames == \A f \in FaceSet : Renames(F_, FB_90_transform_rev[f + 1], f)
<1>1. Renames(F_, L_, U_)
  <2>1. ASSUME NEW x \in Int, NEW y \in Int, NEW z \in Int PROVE RenamesAt(F_, L_, U_, <<x, y, z>>)
    <3>1. Quarter(Normal[F_ + 1], <<x, y, z>>) = <<y, -x, z>>
      BY QuarterF
    <3>2. InLayer(Normal[L_ + 1], <<x, y, z>>) <=> InLayer(Normal[U_ + 1], <<y, -x, z>>)
      BY -x \in Int, QuarterL, QuarterU
    <3>3. Quarter(Normal[U_ + 1], <<y, -x, z>>) = <<-z, -x, y>>
      BY QuarterU
    <3>4. Quarter(Normal[F_ + 1], Quarter(Normal[L_ + 1], <<x, y, z>>)) = <<-z, -x, y>>
      BY QuarterF, QuarterL
    <3> QED BY <3>1, <3>2, <3>3, <3>4 DEF RenamesAt
  <2> QED BY <2>1 DEF Renames
<1>2. Renames(F_, U_, R_)
  <2>1. ASSUME NEW x \in Int, NEW y \in Int, NEW z \in Int PROVE RenamesAt(F_, U_, R_, <<x, y, z>>)
    <3>1. Quarter(Normal[F_ + 1], <<x, y, z>>) = <<y, -x, z>>
      BY QuarterF
    <3>2. InLayer(Normal[U_ + 1], <<x, y, z>>) <=> InLayer(Normal[R_ + 1], <<y, -x, z>>)
      BY -x \in Int, QuarterU, QuarterR
    <3>3. Quarter(Normal[R_ + 1], <<y, -x, z>>) = <<y, z, x>>
      BY QuarterR
    <3>4. Quarter(Normal[F_ + 1], Quarter(Normal[U_ + 1], <<x, y, z>>)) = <<y, z, x>>
      BY QuarterF, QuarterU
    <3> QED BY <3>1, <3>2, <3>3, <3>4 DEF RenamesAt
  <2> QED BY <2>1 DEF Renames
<1>3. Renames(F_, F_, F_)
  <2>1. ASSUME NEW x \in Int, NEW y \in Int, NEW z \in Int PROVE RenamesAt(F_, F_, F_, <<x, y, z>>)
    <3>1. Quarter(Normal[F_ + 1], <<x, y, z>>) = <<y, -x, z>>
      BY QuarterF
    <3>2. InLayer(Normal[F_ + 1], <<x, y, z>>) <=> InLayer(Normal[F_ + 1], <<y, -x, z>>)
      BY -x \in Int, QuarterF
    <3>3. Quarter(Normal[F_ + 1], <<y, -x, z>>) = <<-x, -y, z>>
      BY QuarterF
    <3>4. Quarter(Normal[F_ + 1], Quarter(Normal[F_ + 1], <<x, y, z>>)) = <<-x, -y, z>>
      BY QuarterF
    <3> QED BY <3>1, <3>2, <3>3, <3>4 DEF RenamesAt
  <2> QED BY <2>1 DEF Renames
<1>4. Renames(F_, R_, D_)
  <2>1. ASSUME NEW x \in Int, NEW y \in Int, NEW z \in Int PROVE RenamesAt(F_, R_, D_, <<x, y, z>>)
    <3>1. Quarter(Normal[F_ + 1], <<x, y, z>>) = <<y, -x, z>>
      BY QuarterF
    <3>2. InLayer(Normal[R_ + 1], <<x, y, z>>) <=> InLayer(Normal[D_ + 1], <<y, -x, z>>)
      BY -x \in Int, QuarterR, QuarterD
    <3>3. Quarter(Normal[D_ + 1], <<y, -x, z>>) = <<z, -x, -y>>
      BY QuarterD
    <3>4. Quarter(Normal[F_ + 1], Quarter(Normal[R_ + 1], <<x, y, z>>)) = <<z, -x, -y>>
      BY QuarterF, QuarterR
    <3> QED BY <3>1, <3>2, <3>3, <3>4 DEF RenamesAt
  <2> QED BY <2>1 DEF Renames
<1>5. Renames(F_, D_, L_)
  <2>1. ASSUME NEW x \in Int, NEW y \in Int, NEW z \in Int PROVE RenamesAt(F_, D_, L_, <<x, y, z>>)
    <3>1. Quarter(Normal[F_ + 1], <<x, y, z>>) = <<y, -x, z>>
      BY QuarterF
    <3>2. InLayer(Normal[D_ + 1], <<x, y, z>>) <=> InLayer(Normal[L_ + 1], <<y, -x, z>>)
      BY -x \in Int, QuarterD, QuarterL
    <3>3. Quarter(Normal[L_ + 1], <<y, -x, z>>) = <<y, -z, -x>>
      BY QuarterL
    <3>4. Quarter(Normal[F_ + 1], Quarter(Normal[D_ + 1], <<x, y, z>>)) = <<y, -z, -x>>
      BY QuarterF, QuarterD
    <3> QED BY <3>1, <3>2, <3>3, <3>4 DEF RenamesAt
  <2> QED BY <2>1 DEF Renames
<1>6. Renames(F_, B_, B_)
  <2>1. ASSUME NEW x \in Int, NEW y \in Int, NEW z \in Int PROVE RenamesAt(F_, B_, B_, <<x, y, z>>)
    <3>1. Quarter(Normal[F_ + 1], <<x, y, z>>) = <<y, -x, z>>
      BY QuarterF
    <3>2. InLayer(Normal[B_ + 1], <<x, y, z>>) <=> InLayer(Normal[B_ + 1], <<y, -x, z>>)
      BY -x \in Int, QuarterB
    <3>3. Quarter(Normal[B_ + 1], <<y, -x, z>>) = <<x, y, z>>
      BY QuarterB
    <3>4. Quarter(Normal[F_ + 1], Quarter(Normal[B_ + 1], <<x, y, z>>)) = <<x, y, z>>
      BY QuarterF, QuarterB
    <3> QED BY <3>1, <3>2, <3>3, <3>4 DEF RenamesAt
  <2> QED BY <2>1 DEF Renames
<1>7. \A f \in FaceSet : f \in {U_, R_, F_, D_, L_, B_}
  BY DEF FaceSet, U_, R_, F_, D_, L_, B_
<1>8. /\ FB_90_transform_rev[U_ + 1] = L_ /\ FB_90_transform_rev[R_ + 1] = U_
      /\ FB_90_transform_rev[F_ + 1] = F_ /\ FB_90_transform_rev[D_ + 1] = R_
      /\ FB_90_transform_rev[L_ + 1] = D_ /\ FB_90_transform_rev[B_ + 1] = B_
  BY DEF FB_90_transform_rev, U_, R_, F_, D_, L_, B_
<1> QED BY <1>1, <1>2, <1>3, <1>4, <1>5, <1>6, <1>7, <1>8, Zenon

LEMMA RenamesTurned ==
  ASSUME NEW by, NEW g, NEW f, Renames(by, g, f), NEW times \in 1 .. 3, NEW v \in Vector,
         \A u \in Vector : Quarter(Normal[g + 1], u) \in Vector
  PROVE  Quarter(Normal[by + 1], Turned(g, times, v))
           = Turned(f, times, Quarter(Normal[by + 1], v))
<1> DEFINE r(u) == Quarter(Normal[by + 1], u)
           q(u) == Quarter(Normal[g + 1], u)
<1>1. \A u \in Vector : u[1] \in Int /\ u[2] \in Int /\ u[3] \in Int /\ u = <<u[1], u[2], u[3]>>
  BY DEF Vector
<1>2. ASSUME NEW u \in Vector
      PROVE  /\ InLayer(Normal[g + 1], u) <=> InLayer(Normal[f + 1], r(u))
             /\ r(q(u)) = Quarter(Normal[f + 1], r(u))
  <2>1. RenamesAt(by, g, f, <<u[1], u[2], u[3]>>)
    BY <1>1 DEF Renames
  <2>2. RenamesAt(by, g, f, u)
    BY <2>1, <1>1, Zenon
  <2> QED BY <2>2, Zenon DEF RenamesAt
<1>3. /\ Quarters(Normal[g + 1], 1, v) = q(v) /\ Quarters(Normal[g + 1], 2, v) = q(q(v))
      /\ Quarters(Normal[g + 1], 3, v) = q(q(q(v)))
      /\ q(v) \in Vector /\ q(q(v)) \in Vector
  BY Repeated
<1>4. r(Quarters(Normal[g + 1], times, v)) = Quarters(Normal[f + 1], times, r(v))
  <2>1. r(q(v)) = Quarters(Normal[f + 1], 1, r(v))
    BY <1>2, Repeated
  <2>2. r(q(q(v))) = Quarters(Normal[f + 1], 2, r(v))
    BY <2>1, <1>2, <1>3, Repeated
  <2>3. r(q(q(q(v)))) = Quarters(Normal[f + 1], 3, r(v))
    BY <2>2, <1>2, <1>3, Repeated
  <2>4. times = 1 \/ times = 2 \/ times = 3
    OBVIOUS
  <2> HIDE DEF r, q
  <2> QED BY <2>1, <2>2, <2>3, <2>4, <1>3
<1> QED BY <1>2, <1>4 DEF Turned

LEMMA QuarterType ==
  ASSUME NEW f \in FaceSet, NEW v \in Vector
  PROVE  Quarter(Normal[f + 1], v) \in Vector
<1>1. f \in {U_, R_, F_, D_, L_, B_}
  BY DEF FaceSet, U_, R_, F_, D_, L_, B_
<1>2. v[1] \in Int /\ v[2] \in Int /\ v[3] \in Int /\ v = <<v[1], v[2], v[3]>>
  BY DEF Vector
<1>3. Quarter(Normal[U_ + 1], v) \in Vector
  BY <1>2, QuarterU DEF Vector
<1>4. Quarter(Normal[R_ + 1], v) \in Vector
  BY <1>2, QuarterR DEF Vector
<1>5. Quarter(Normal[F_ + 1], v) \in Vector
  BY <1>2, QuarterF DEF Vector
<1>6. Quarter(Normal[D_ + 1], v) \in Vector
  BY <1>2, QuarterD DEF Vector
<1>7. Quarter(Normal[L_ + 1], v) \in Vector
  BY <1>2, QuarterL DEF Vector
<1>8. Quarter(Normal[B_ + 1], v) \in Vector
  BY <1>2, QuarterB DEF Vector
<1> QED BY <1>1, <1>3, <1>4, <1>5, <1>6, <1>7, <1>8

\* A table of the facelets of the cube rotated by a quarter turn of face by,
\* and the old names of the faces.
Disguise(m, by, rev) ==
  /\ Whole(m) /\ by \in FaceSet
  /\ \A f \in FaceSet : rev[f + 1] \in FaceSet /\ Renames(by, rev[f + 1], f)
  /\ \A p \in Facelet : Home(p) = Quarter(Normal[by + 1], Home(m[p]))

\* In the disguise a turn of the renamed face is that of the face.
LEMMA DisguisedTurn ==
  ASSUME NEW m, NEW by, NEW rev, Disguise(m, by, rev),
         NEW f \in FaceSet, NEW times \in 1 .. 3, NEW p \in Facelet
  PROVE  MovesTable[rev[f + 1] + 1][times][m[p]] = m[MovesTable[f + 1][times][p]]
<1> DEFINE g == rev[f + 1]
           T == MovesTable[f + 1][times]
           S == MovesTable[g + 1][times]
           r(v) == Quarter(Normal[by + 1], v)
<1>1. g \in FaceSet /\ Renames(by, g, f) /\ by \in FaceSet /\ Whole(m)
  BY DEF Disguise
<1>2. TurnsIn(T, f, times) /\ T \in [Facelet -> Facelet]
  BY TableOfTurn
<1>3. TurnsIn(S, g, times) /\ S \in [Facelet -> Facelet]
  BY <1>1, TableOfTurn
<1>4. m \in [Facelet -> Facelet] /\ \A k \in Facelet : Home(k) = r(Home(m[k]))
  BY DEF Disguise, Whole
<1>5. \A k \in Facelet : Home(k) = Turned(f, times, Home(T[k]))
  BY <1>2 DEF TurnsIn
<1>6. \A k \in Facelet : Home(k) = Turned(g, times, Home(S[k]))
  BY <1>3 DEF TurnsIn
<1>7. \A v \in Vector : r(Turned(g, times, v)) = Turned(f, times, r(v))
  BY <1>1, QuarterType, RenamesTurned
<1> DEFINE c == S[m[p]]
<1>8. c \in Facelet /\ m[p] \in Facelet
  <2> HIDE DEF S
  <2> QED BY <1>3, <1>4
<1>9. PICK a \in Facelet : m[a] = c
  <2> HIDE DEF c
  <2> QED BY <1>1, <1>8, Onto DEF Whole
<1>10. PICK j \in Facelet : T[j] = a
  <2>1. \A k, l \in Facelet : T[k] = T[l] => k = l
    BY TurnInjective
  <2> HIDE DEF T
  <2> QED BY <1>2, <2>1, Onto
<1>11. Home(p) = Turned(f, times, Home(a))
  <2> HIDE DEF S, T, r
  <2>1. Home(p) = r(Home(m[p])) /\ Home(m[p]) = Turned(g, times, Home(c))
    BY <1>4, <1>6, <1>8
  <2>2. Home(c) \in Vector
    <3> HIDE DEF c
    <3> QED BY <1>8, HomeType
  <2>3. Home(p) = Turned(f, times, r(Home(c)))
    <3> HIDE DEF c
    <3> QED BY <2>1, <2>2, <1>7
  <2>4. Home(a) = r(Home(c))
    <3> HIDE DEF c
    <3> QED BY <1>4, <1>9
  <2> QED BY <2>3, <2>4
<1>12. Home(j) = Home(p)
  <2> HIDE DEF T
  <2> QED BY <1>5, <1>10, <1>11
<1>13. j = p
  BY <1>12, HomeInjective
<1> QED BY <1>9, <1>10, <1>13

LEMMA LRDisguise == Disguise(LR_90_, R_, LR_90_transform_rev)
<1>1. Whole(LR_90_)
  BY RotatesByLR_90, RotationType, HomeInjective DEF Whole
<1>2. \A f \in FaceSet : LR_90_transform_rev[f + 1] \in FaceSet
  BY DEF LR_90_transform_rev, U_, R_, F_, D_, L_, B_, FaceSet
<1>3. R_ \in FaceSet
  BY DEF R_, FaceSet
<1> QED BY <1>1, <1>2, <1>3, LRRenames, RotatesByLR_90 DEF Disguise

LEMMA FBDisguise == Disguise(FB_90_, F_, FB_90_transform_rev)
<1>1. Whole(FB_90_)
  BY RotatesByFB_90, RotationType, HomeInjective DEF Whole
<1>2. \A f \in FaceSet : FB_90_transform_rev[f + 1] \in FaceSet
  BY DEF FB_90_transform_rev, U_, R_, F_, D_, L_, B_, FaceSet
<1>3. F_ \in FaceSet
  BY DEF F_, FaceSet
<1> QED BY <1>1, <1>2, <1>3, FBRenames, RotatesByFB_90 DEF Disguise

-----------------------------------------------------------------------------
\* What a thread searches.

Colourings == Painting(FaceSet)

LEMMA SolvedType == Solved \in Colourings
<1>1. \A p \in Facelet : FaceOf(p) \in FaceSet
  BY DEF Facelet, FaceOf, FaceSet
<1> QED BY <1>1 DEF Solved, Colourings, Painting

LEMMA UnchangedNames ==
  /\ \A c \in FaceSet : Unchanged[c + 1] = c
  /\ \A s \in Colourings : RemapState(s, Unchanged) = s
  /\ \A ts \in Seq(Turnings) : RemapSolution(ts, Unchanged) = ts
<1>1. \A c \in FaceSet : Unchanged[c + 1] = c
  BY DEF Unchanged, FaceSet, U_, R_, F_, D_, L_, B_
<1>2. ASSUME NEW s \in Colourings PROVE RemapState(s, Unchanged) = s
  <2>1. \A p \in Facelet : s[p] \in FaceSet
    BY DEF Colourings, Painting
  <2>2. s = [p \in Facelet |-> s[p]]
    BY DEF Colourings, Painting
  <2> QED BY <1>1, <2>1, <2>2 DEF RemapState
<1>3. ASSUME NEW ts \in Seq(Turnings) PROVE RemapSolution(ts, Unchanged) = ts
  <2>1. \A k \in DOMAIN ts : ts[k][1] \in FaceSet /\ ts[k] = <<ts[k][1], ts[k][2]>>
    BY DEF Turnings
  <2>2. ts = [k \in DOMAIN ts |-> ts[k]]
    OBVIOUS
  <2>3. \A k \in DOMAIN ts : <<Unchanged[ts[k][1] + 1], ts[k][2]>> = ts[k]
    BY <1>1, <2>1
  <2> QED BY <2>2, <2>3 DEF RemapSolution
<1> QED BY <1>1, <1>2, <1>3

\* A turn before the others.
LEMMA MakeMovesFirst ==
  ASSUME NEW s \in Colourings, NEW t \in Turnings, NEW ts \in Seq(Turnings)
  PROVE  MakeMoves(s, <<t>> \o ts) = MakeMoves(TurnFace(s, t), ts)
<1> DEFINE n == Len(ts)
           us == <<t>> \o ts
           Paints == Painting(FaceSet)
<1>1. /\ n \in Nat /\ us \in Seq(Turnings) /\ Len(us) = n + 1 /\ us[1] = t
      /\ \A k \in 1 .. n : us[k + 1] = ts[k]
  OBVIOUS
<1> HIDE DEF us
<1>2. PICK f \in [0 .. Len(us) -> Paints] : Through(f, s, us)
  <2>1. s \in Paints
    BY DEF Colourings
  <2>2. us \in Seq(Turnings)
    BY <1>1
  <2> QED BY <2>1, <2>2, MakeMovesSteps, Zenon
<1>3. PICK g \in [0 .. n -> Paints] : Through(g, TurnFace(s, t), ts)
  <2>1. TurnFace(s, t) \in Paints
    BY TurnFaceType DEF Colourings
  <2> QED BY <2>1, MakeMovesSteps
<1> HIDE DEF n, Paints
<1>0. n \in Nat
  BY <1>1
<1> DEFINE E == {k \in Nat : k <= n => f[k + 1] = g[k]}
<1>4. 0 \in E
  <2>1. f[0 + 1] = TurnFace(f[0], us[0 + 1])
    BY <1>1, <1>2 DEF Through
  <2> QED BY <2>1, <1>1, <1>2, <1>3 DEF Through
<1>5. \A k \in Nat : k \in E => k + 1 \in E
  <2> SUFFICES ASSUME NEW k \in Nat, k + 1 <= n, f[k + 1] = g[k]
               PROVE  f[(k + 1) + 1] = g[k + 1]
    BY <1>0
  <2>1. k + 1 \in 0 .. Len(us) - 1 /\ k \in 0 .. n - 1 /\ k + 1 \in 1 .. n
    BY <1>1
  <2>2. f[(k + 1) + 1] = TurnFace(f[k + 1], us[(k + 1) + 1])
    BY <2>1, <1>2 DEF Through
  <2>3. g[k + 1] = TurnFace(g[k], ts[k + 1])
    BY <2>1, <1>3 DEF Through, n
  <2> QED BY <2>1, <2>2, <2>3, <1>1
<1>6. Nat \subseteq E
  <2> HIDE DEF E
  <2> QED BY <1>4, <1>5, NatInd
<1>7. f[n + 1] = g[n]
  BY <1>6, <1>1
<1> QED BY <1>1, <1>2, <1>3, <1>7 DEF us, n, Through

\* A state rotated and with its colours renamed.
Disguised(s, m, fwd) == RemapState(MakeMove(s, m), fwd)

\* Turning the disguised state is turning the state as the answer says and then
\* disguising it.
LEMMA DisguisedTurns ==
  ASSUME NEW m, NEW by, NEW rev, Disguise(m, by, rev), NEW fwd,
         \A c \in FaceSet : fwd[c + 1] \in FaceSet,
         NEW s \in Colourings, NEW ts \in Seq(Turnings)
  PROVE  /\ RemapSolution(ts, rev) \in Seq(Turnings)
         /\ MakeMoves(Disguised(s, m, fwd), ts)
              = Disguised(MakeMoves(s, RemapSolution(ts, rev)), m, fwd)
<1> DEFINE n == Len(ts)
           us == RemapSolution(ts, rev)
           d == Disguised(s, m, fwd)
<1>1. n \in Nat /\ \A k \in 1 .. n : ts[k] \in Turnings
  OBVIOUS
<1>2. us \in Seq(Turnings) /\ Len(us) = n
      /\ \A k \in 1 .. n : us[k] = <<rev[ts[k][1] + 1], ts[k][2]>>
  <2>1. us = [k \in 1 .. n |-> <<rev[ts[k][1] + 1], ts[k][2]>>]
    BY DEF RemapSolution
  <2>2. \A k \in 1 .. n : <<rev[ts[k][1] + 1], ts[k][2]>> \in Turnings
    BY <1>1 DEF Disguise, Turnings
  <2> HIDE DEF us, n
  <2>3. us \in [1 .. n -> Turnings]
    BY <2>1, <2>2
  <2>4. us \in Seq(Turnings) /\ Len(us) = n
    BY <1>1, <2>3, SeqDef
  <2> QED BY <2>1, <2>4
<1>3. d \in Colourings
  <2>1. \A p \in Facelet : m[p] \in Facelet
    BY DEF Disguise, Whole
  <2>2. \A p \in Facelet : s[m[p]] \in FaceSet
    BY <2>1 DEF Colourings, Painting
  <2> QED BY <2>2 DEF Disguised, RemapState, MakeMove, Colourings, Painting
<1> HIDE DEF us, d, n
<1>4. PICK f \in [0 .. n -> Painting(FaceSet)] : Through(f, d, ts)
  BY <1>3, MakeMovesSteps DEF Colourings, n
<1>5. PICK g \in [0 .. n -> Painting(FaceSet)] : Through(g, s, us)
  <2>1. s \in Painting(FaceSet) /\ us \in Seq(Turnings) /\ Len(us) = n
    BY <1>2 DEF Colourings
  <2> QED BY <2>1, MakeMovesSteps
<1>6. ASSUME NEW r \in Painting(FaceSet), NEW k \in 1 .. n
      PROVE  TurnFace(Disguised(r, m, fwd), ts[k]) = Disguised(TurnFace(r, us[k]), m, fwd)
  <2>1. ts[k][1] \in FaceSet /\ ts[k][2] \in 1 .. 3
    BY <1>1 DEF Turnings
  <2>2. us[k][1] = rev[ts[k][1] + 1] /\ us[k][2] = ts[k][2]
    BY <1>2
  <2> DEFINE T == MovesTable[ts[k][1] + 1][ts[k][2]]
             S == MovesTable[rev[ts[k][1] + 1] + 1][ts[k][2]]
  <2>3. \A p \in Facelet : S[m[p]] = m[T[p]]
    <3> SUFFICES ASSUME NEW p \in Facelet PROVE S[m[p]] = m[T[p]]
      OBVIOUS
    <3> DEFINE a == ts[k][1]
               t == ts[k][2]
    <3>1. a \in FaceSet /\ t \in 1 .. 3
      BY <2>1
    <3> HIDE DEF a, t
    <3>2. MovesTable[rev[a + 1] + 1][t][m[p]] = m[MovesTable[a + 1][t][p]]
      BY <3>1, DisguisedTurn
    <3> QED BY <3>2 DEF a, t
  <2>4. \A p \in Facelet : T[p] \in Facelet /\ m[p] \in Facelet
    <3>1. T \in [Facelet -> Facelet]
      BY <2>1, TableOfTurn
    <3>2. m \in [Facelet -> Facelet]
      BY DEF Disguise, Whole
    <3> HIDE DEF T
    <3> QED BY <3>1, <3>2
  <2>5. TurnFace(Disguised(r, m, fwd), ts[k]) = [p \in Facelet |-> fwd[r[m[T[p]]] + 1]]
    <3>1. TurnFace(Disguised(r, m, fwd), ts[k]) = [p \in Facelet |-> Disguised(r, m, fwd)[T[p]]]
      BY Zenon DEF TurnFace, MakeMove
    <3>2. \A p \in Facelet : Disguised(r, m, fwd)[p] = fwd[r[m[p]] + 1]
      BY DEF Disguised, RemapState, MakeMove
    <3> HIDE DEF T
    <3> QED BY <2>4, <3>1, <3>2
  <2>6. Disguised(TurnFace(r, us[k]), m, fwd) = [p \in Facelet |-> fwd[r[S[m[p]]] + 1]]
    <3>1. TurnFace(r, us[k]) = [p \in Facelet |-> r[S[p]]]
      BY <2>2, Zenon DEF TurnFace, MakeMove
    <3> HIDE DEF S
    <3>2. \A p \in Facelet : TurnFace(r, us[k])[m[p]] = r[S[m[p]]]
      BY <2>4, <3>1
    <3>3. Disguised(TurnFace(r, us[k]), m, fwd)
            = [p \in Facelet |-> fwd[TurnFace(r, us[k])[m[p]] + 1]]
      BY DEF Disguised, RemapState, MakeMove
    <3> QED BY <3>2, <3>3
  <2> HIDE DEF T, S
  <2> QED BY <2>3, <2>5, <2>6
<1> DEFINE E == {k \in Nat : k <= n => f[k] = Disguised(g[k], m, fwd)}
<1>7. 0 \in E
  BY <1>4, <1>5 DEF d, Through
<1>8. \A k \in Nat : k \in E => k + 1 \in E
  <2> SUFFICES ASSUME NEW k \in Nat, k + 1 <= n, f[k] = Disguised(g[k], m, fwd)
               PROVE  f[k + 1] = Disguised(g[k + 1], m, fwd)
    BY <1>1
  <2>1. k \in 0 .. n - 1 /\ k + 1 \in 1 .. n /\ k \in 0 .. n
    BY <1>1
  <2>2. f[k + 1] = TurnFace(f[k], ts[k + 1]) /\ g[k + 1] = TurnFace(g[k], us[k + 1])
    BY <2>1, <1>2, <1>4, <1>5 DEF Through, n
  <2>3. g[k] \in Painting(FaceSet)
    BY <2>1
  <2> QED BY <2>1, <2>2, <2>3, <1>6
<1>9. Nat \subseteq E
  <2> HIDE DEF E
  <2> QED BY <1>7, <1>8, NatInd
<1>10. f[n] = Disguised(g[n], m, fwd)
  BY <1>9, <1>1
<1>11. MakeMoves(d, ts) = Disguised(MakeMoves(s, us), m, fwd)
  BY <1>2, <1>4, <1>5, <1>10 DEF Through, n
<1> QED BY <1>2, <1>11 DEF us, d

\* The configurations of the threads.
LEMMA Configurations ==
  \A p \in DOMAIN AllMoves :
    \/ AllMoves[p] = Config(<<>>, [k \in Facelet |-> k], Unchanged, Unchanged)
    \/ AllMoves[p] = Config(<<>>, LR_90_, LR_90_transform_fwd, LR_90_transform_rev)
    \/ AllMoves[p] = Config(<<>>, FB_90_, FB_90_transform_fwd, FB_90_transform_rev)
    \/ \E f \in FaceSet, t \in 1 .. 3 : AllMoves[p] = Prefixed(f, t)
<1>1. \A f \in {U_, R_, F_, D_, L_, B_} : f \in FaceSet
  BY DEF FaceSet, U_, R_, F_, D_, L_, B_
<1>2. 1 \in 1 .. 3 /\ 2 \in 1 .. 3 /\ 3 \in 1 .. 3
  OBVIOUS
<1>3. \A p \in DOMAIN AllMoves : p \in
        {1, 2, 3, 4, 5, 6, 7, 8, 9, 10, 11, 12, 13, 14, 15, 16, 17, 18, 19, 20, 21}
  BY DEF AllMoves
<1>4. \A p \in DOMAIN AllMoves : p \notin {1, 2, 3} =>
        \E f \in {U_, R_, F_, D_, L_, B_}, t \in {1, 2, 3} : AllMoves[p] = Prefixed(f, t)
  BY <1>3 DEF AllMoves
<1>5. /\ AllMoves[1] = Config(<<>>, [k \in Facelet |-> k], Unchanged, Unchanged)
      /\ AllMoves[2] = Config(<<>>, LR_90_, LR_90_transform_fwd, LR_90_transform_rev)
      /\ AllMoves[3] = Config(<<>>, FB_90_, FB_90_transform_fwd, FB_90_transform_rev)
  BY DEF AllMoves
<1> QED BY <1>1, <1>2, <1>4, <1>5

\* What SearchMirrorsTheCube says of a state, a solution and a thread.
Mirrors(state, sol, p) ==
  LET problem == MakeMoves(Problem(state, p), sol)
      answered == MakeMoves(state, Answer(sol, p))
  IN /\ problem = IF AllMoves[p].prefix # <<>> THEN answered ELSE Problem(answered, p)
     /\ problem = Solved <=> ValidateSolution(state, Answer(sol, p))

LEMMA PrefixMirrors ==
  ASSUME NEW s \in Colourings, NEW sol \in Seq(Turnings), NEW p,
         NEW f \in FaceSet, NEW t \in 1 .. 3, AllMoves[p] = Prefixed(f, t)
  PROVE  Mirrors(s, sol, p)
<1> DEFINE turn == <<f, t>>
<1>1. /\ AllMoves[p].prefix = <<turn>> /\ AllMoves[p].map = MovesTable[f + 1][t]
      /\ AllMoves[p].fwd = Unchanged /\ AllMoves[p].rev = Unchanged
  BY DEF Prefixed, Config
<1>2. turn \in Turnings /\ turn[1] = f /\ turn[2] = t
  BY DEF Turnings
<1> HIDE DEF turn
<1>3. <<turn>> # <<>> /\ <<turn>> \o sol \in Seq(Turnings)
  BY <1>2
<1>4. TurnFace(s, turn) \in Colourings
  BY <1>2, TurnFaceType DEF Colourings
<1>5. Problem(s, p) = TurnFace(s, turn)
  <2>1. Problem(s, p) = RemapState(MakeMove(s, MovesTable[f + 1][t]), Unchanged)
    BY <1>1 DEF Problem
  <2>2. MakeMove(s, MovesTable[f + 1][t]) = TurnFace(s, turn)
    BY <1>2 DEF TurnFace
  <2> QED BY <2>1, <2>2, <1>4, UnchangedNames
<1>6. Answer(sol, p) = <<turn>> \o sol
  BY <1>1, <1>3, UnchangedNames DEF Answer
<1>7. MakeMoves(s, <<turn>> \o sol) = MakeMoves(TurnFace(s, turn), sol)
  BY <1>2, MakeMovesFirst
<1> QED BY <1>1, <1>3, <1>5, <1>6, <1>7 DEF Mirrors, ValidateSolution

LEMMA MakeMovesType ==
  ASSUME NEW s \in Colourings, NEW ts \in Seq(Turnings)
  PROVE  MakeMoves(s, ts) \in Colourings
<1>1. s \in Painting(FaceSet)
  BY DEF Colourings
<1>2. PICK f \in [0 .. Len(ts) -> Painting(FaceSet)] : Through(f, s, ts)
  BY <1>1, MakeMovesSteps
<1>3. Len(ts) \in 0 .. Len(ts)
  OBVIOUS
<1> QED BY <1>2, <1>3 DEF Through, Colourings

LEMMA SameMirrors ==
  ASSUME NEW s \in Colourings, NEW sol \in Seq(Turnings), NEW p,
         AllMoves[p] = Config(<<>>, [k \in Facelet |-> k], Unchanged, Unchanged)
  PROVE  Mirrors(s, sol, p)
<1>1. /\ AllMoves[p].prefix = <<>> /\ AllMoves[p].map = [k \in Facelet |-> k]
      /\ AllMoves[p].fwd = Unchanged /\ AllMoves[p].rev = Unchanged
  BY DEF Config
<1>2. ASSUME NEW r \in Colourings PROVE Problem(r, p) = r
  <2>1. MakeMove(r, [k \in Facelet |-> k]) = r
    BY DEF MakeMove, Colourings, Painting
  <2> QED BY <1>1, <2>1, UnchangedNames DEF Problem
<1>3. Answer(sol, p) = sol
  <2>1. <<>> \o sol = sol
    OBVIOUS
  <2> QED BY <1>1, <2>1, UnchangedNames DEF Answer
<1>4. MakeMoves(s, sol) \in Colourings
  BY MakeMovesType
<1> QED BY <1>1, <1>2, <1>3, <1>4 DEF Mirrors, ValidateSolution

LEMMA DisguisedMirrors ==
  ASSUME NEW s \in Colourings, NEW sol \in Seq(Turnings), NEW p,
         NEW m, NEW by, NEW rev, Disguise(m, by, rev), NEW fwd,
         \A c \in FaceSet : fwd[c + 1] \in FaceSet,
         \A c, d \in FaceSet : fwd[c + 1] = fwd[d + 1] => c = d,
         Disguised(Solved, m, fwd) = Solved,
         AllMoves[p] = Config(<<>>, m, fwd, rev)
  PROVE  Mirrors(s, sol, p)
<1>1. /\ AllMoves[p].prefix = <<>> /\ AllMoves[p].map = m
      /\ AllMoves[p].fwd = fwd /\ AllMoves[p].rev = rev
  BY DEF Config
<1>2. \A r : Problem(r, p) = Disguised(r, m, fwd)
  BY <1>1 DEF Problem, Disguised
<1>3. Answer(sol, p) = RemapSolution(sol, rev)
  <2>1. <<>> \o sol = sol
    OBVIOUS
  <2> QED BY <1>1, <2>1 DEF Answer
<1> DEFINE a == MakeMoves(s, RemapSolution(sol, rev))
<1>4. MakeMoves(Disguised(s, m, fwd), sol) = Disguised(a, m, fwd) /\ a \in Colourings
  BY DisguisedTurns, MakeMovesType
<1>5. Disguised(a, m, fwd) = Solved => a = Solved
  <2> SUFFICES ASSUME Disguised(a, m, fwd) = Disguised(Solved, m, fwd) PROVE a = Solved
    OBVIOUS
  <2> HIDE DEF a
  <2>1. ASSUME NEW k \in Facelet PROVE a[k] = Solved[k]
    <3>1. PICK j \in Facelet : m[j] = k
      BY Onto DEF Disguise, Whole
    <3>2. Disguised(a, m, fwd)[j] = fwd[a[k] + 1] /\ Disguised(Solved, m, fwd)[j] = fwd[Solved[k] + 1]
      BY <3>1 DEF Disguised, RemapState, MakeMove
    <3>3. a[k] \in FaceSet /\ Solved[k] \in FaceSet
      BY <1>4, SolvedType DEF Colourings, Painting
    <3> QED BY <3>2, <3>3
  <2> QED BY <2>1, <1>4, SolvedType DEF Colourings, Painting
<1> HIDE DEF a
<1> QED BY <1>1, <1>2, <1>3, <1>4, <1>5 DEF Mirrors, ValidateSolution, a

LEMMA LRColours ==
  /\ \A c \in FaceSet : LR_90_transform_fwd[c + 1] \in FaceSet
  /\ \A c, d \in FaceSet : LR_90_transform_fwd[c + 1] = LR_90_transform_fwd[d + 1] => c = d
  /\ Disguised(Solved, LR_90_, LR_90_transform_fwd) = Solved
<1>1. \A c \in FaceSet : LR_90_transform_fwd[c + 1] \in FaceSet
  BY DEF LR_90_transform_fwd, FaceSet, U_, R_, F_, D_, L_, B_
<1>2. \A c, d \in FaceSet : LR_90_transform_fwd[c + 1] = LR_90_transform_fwd[d + 1] => c = d
  BY DEF LR_90_transform_fwd, FaceSet, U_, R_, F_, D_, L_, B_
<1>3. \A p \in Facelet : LR_90_[p] \in Facelet /\ LR_90_transform_fwd[FaceOf(LR_90_[p]) + 1] = FaceOf(p)
  <2>1. \A p \in Facelet : LR_90_[p] \in Facelet
    BY RotatesByLR_90
  <2>2. \A p \in Facelet : LR_90_transform_fwd[FaceOf(LR_90_[p]) + 1] = FaceOf(p)
    BY Enumerated, SMTT(30) DEF LR_90_transform_fwd, FaceOf, LR_90_, Table, U_, R_, F_, D_, L_, B_
  <2> QED BY <2>1, <2>2
<1> QED BY <1>1, <1>2, <1>3 DEF Disguised, RemapState, MakeMove, Solved

LEMMA FBColours ==
  /\ \A c \in FaceSet : FB_90_transform_fwd[c + 1] \in FaceSet
  /\ \A c, d \in FaceSet : FB_90_transform_fwd[c + 1] = FB_90_transform_fwd[d + 1] => c = d
  /\ Disguised(Solved, FB_90_, FB_90_transform_fwd) = Solved
<1>1. \A c \in FaceSet : FB_90_transform_fwd[c + 1] \in FaceSet
  BY DEF FB_90_transform_fwd, FaceSet, U_, R_, F_, D_, L_, B_
<1>2. \A c, d \in FaceSet : FB_90_transform_fwd[c + 1] = FB_90_transform_fwd[d + 1] => c = d
  BY DEF FB_90_transform_fwd, FaceSet, U_, R_, F_, D_, L_, B_
<1>3. \A p \in Facelet : FB_90_[p] \in Facelet /\ FB_90_transform_fwd[FaceOf(FB_90_[p]) + 1] = FaceOf(p)
  <2>1. \A p \in Facelet : FB_90_[p] \in Facelet
    BY RotatesByFB_90
  <2>2. \A p \in Facelet : FB_90_transform_fwd[FaceOf(FB_90_[p]) + 1] = FaceOf(p)
    BY Enumerated, SMTT(30) DEF FB_90_transform_fwd, FaceOf, FB_90_, Table, U_, R_, F_, D_, L_, B_
  <2> QED BY <2>1, <2>2
<1> QED BY <1>1, <1>2, <1>3 DEF Disguised, RemapState, MakeMove, Solved

LEMMA ThreadMirrors ==
  ASSUME NEW s \in Colourings, NEW sol \in Seq(Turnings), NEW p \in DOMAIN AllMoves
  PROVE  Mirrors(s, sol, p)
<1>1. CASE AllMoves[p] = Config(<<>>, [k \in Facelet |-> k], Unchanged, Unchanged)
  BY <1>1, SameMirrors
<1>2. CASE AllMoves[p] = Config(<<>>, LR_90_, LR_90_transform_fwd, LR_90_transform_rev)
  BY <1>2, LRDisguise, LRColours, DisguisedMirrors
<1>3. CASE AllMoves[p] = Config(<<>>, FB_90_, FB_90_transform_fwd, FB_90_transform_rev)
  BY <1>3, FBDisguise, FBColours, DisguisedMirrors
<1>4. CASE \E f \in FaceSet, t \in 1 .. 3 : AllMoves[p] = Prefixed(f, t)
  BY <1>4, PrefixMirrors
<1> QED BY <1>1, <1>2, <1>3, <1>4, Configurations

\* After any number of turns, cut in two at any place, each thread's search
\* mirrors the cube.
THEOREM SearchMirrorsTheCubeCorrect == CubeSpec => []SearchMirrorsTheCube
<1>1. CubeIInv => SearchMirrorsTheCube
  <2> SUFFICES ASSUME CubeIInv, NEW n \in 0 .. Len(turns), NEW p \in DOMAIN AllMoves
               PROVE  Mirrors(MakeMoves(Solved, SubSeq(turns, 1, n)),
                              SubSeq(turns, n + 1, Len(turns)), p)
    BY Zenon DEF SearchMirrorsTheCube, Mirrors
  <2>1. SubSeq(turns, 1, n) \in Seq(Turnings) /\ SubSeq(turns, n + 1, Len(turns)) \in Seq(Turnings)
    BY DEF CubeIInv
  <2>2. MakeMoves(Solved, SubSeq(turns, 1, n)) \in Colourings
    BY <2>1, SolvedType, MakeMovesType
  <2> QED BY <2>1, <2>2, ThreadMirrors
<1> QED BY <1>1, SpecCubeIInv, PTL

-----------------------------------------------------------------------------
\* A quarter turn keeps the layer it turns, so two and three are one after another.
LEMMA QuarterInLayer ==
  ASSUME NEW face \in FaceSet, NEW v \in Vector, InLayer(Normal[face + 1], v)
  PROVE  InLayer(Normal[face + 1], Quarter(Normal[face + 1], v))
<1>1. PICK x \in Int, y \in Int, z \in Int : v = <<x, y, z>>
  BY DEF Vector
<1>2. face \in {U_, R_, F_, D_, L_, B_}
  BY DEF FaceSet, U_, R_, F_, D_, L_, B_
<1>3. -x \in Int /\ -y \in Int /\ -z \in Int
  BY <1>1
<1>4. CASE face = U_
  BY <1>1, <1>3, <1>4, QuarterU
<1>5. CASE face = R_
  BY <1>1, <1>3, <1>5, QuarterR
<1>6. CASE face = F_
  BY <1>1, <1>3, <1>6, QuarterF
<1>7. CASE face = D_
  BY <1>1, <1>3, <1>7, QuarterD
<1>8. CASE face = L_
  BY <1>1, <1>3, <1>8, QuarterL
<1>9. CASE face = B_
  BY <1>1, <1>3, <1>9, QuarterB
<1> QED BY <1>2, <1>4, <1>5, <1>6, <1>7, <1>8, <1>9

LEMMA TurnedRepeated ==
  ASSUME NEW face \in FaceSet, NEW v \in Vector
  PROVE  /\ Turned(face, 2, v) = Turned(face, 1, Turned(face, 1, v))
         /\ Turned(face, 3, v) = Turned(face, 1, Turned(face, 2, v))
<1> DEFINE n == Normal[face + 1]
<1>1. CASE ~InLayer(n, v)
  BY <1>1 DEF Turned
<1>2. CASE InLayer(n, v)
  <2>1. InLayer(n, Quarter(n, v)) /\ Quarter(n, v) \in Vector
    BY <1>2, QuarterInLayer, QuarterType
  <2>2. InLayer(n, Quarter(n, Quarter(n, v)))
    BY <2>1, QuarterInLayer
  <2> HIDE DEF n
  <2> QED BY <1>2, <2>1, <2>2, Repeated DEF Turned, n
<1> QED BY <1>1, <1>2

\* So the tables of those turns are the first one applied two and three times.
LEMMA RepeatedTable ==
  ASSUME NEW face \in FaceSet, NEW p \in Facelet
  PROVE  LET T == MovesTable[face + 1]
         IN T[2][p] = T[1][T[1][p]] /\ T[3][p] = T[2][T[1][p]]
<1> DEFINE T == MovesTable[face + 1]
<1>1. /\ TurnsIn(T[1], face, 1) /\ TurnsIn(T[2], face, 2) /\ TurnsIn(T[3], face, 3)
      /\ T[1] \in [Facelet -> Facelet] /\ T[2] \in [Facelet -> Facelet]
      /\ T[3] \in [Facelet -> Facelet]
  BY TableOfTurn
<1>2. /\ \A s \in Facelet : \E j \in Facelet : T[1][j] = s
      /\ \A s \in Facelet : \E j \in Facelet : T[2][j] = s
  <2>1. /\ \A j, k \in Facelet : T[1][j] = T[1][k] => j = k
        /\ \A j, k \in Facelet : T[2][j] = T[2][k] => j = k
    BY TurnInjective
  <2> HIDE DEF T
  <2> QED BY <1>1, <2>1, Onto
<1> HIDE DEF T
<1>3. T[2][p] = T[1][T[1][p]]
  <2>1. PICK j \in Facelet : T[1][j] = T[2][p]
    BY <1>1, <1>2
  <2>2. PICK k \in Facelet : T[1][k] = j
    BY <1>2
  <2>3. Home(k) = Turned(face, 1, Turned(face, 1, Home(T[2][p])))
    BY <1>1, <2>1, <2>2 DEF TurnsIn
  <2>4. Home(k) = Home(p)
    BY <1>1, <2>3, TurnedRepeated, HomeType DEF TurnsIn
  <2> QED BY <2>1, <2>2, <2>4, HomeInjective
<1>4. T[3][p] = T[2][T[1][p]]
  <2>1. PICK j \in Facelet : T[2][j] = T[3][p]
    BY <1>1, <1>2
  <2>2. PICK k \in Facelet : T[1][k] = j
    BY <1>2
  <2>3. Home(k) = Turned(face, 1, Turned(face, 2, Home(T[3][p])))
    BY SMTT(30), <1>1, <2>1, <2>2 DEF TurnsIn
  <2>4. Home(k) = Home(p)
    BY <1>1, <2>3, TurnedRepeated, HomeType DEF TurnsIn
  <2> QED BY <2>1, <2>2, <2>4, HomeInjective
<1> QED BY <1>3, <1>4 DEF T

-----------------------------------------------------------------------------
\* The cubies.

\* The table m brings the corner at position n, or the edge, to position j and
\* turns it by t.
CarriesCorner(m, j, t, n) ==
  \A k \in 0 .. 2 : m[CornerFacelet[j][((k + t) % 3) + 1]] = CornerFacelet[n][k + 1]
CarriesEdge(m, j, t, n) ==
  \A k \in 0 .. 1 : m[EdgeFacelet[j][((k + t) % 2) + 1]] = EdgeFacelet[n][k + 1]

\* It does with the facelets what b does with the cubies.
CornersTurn(m, b) == \A j \in Corners : CarriesCorner(m, j, b.co[j], b.cp[j] + 1)
EdgesTurn(m, b) == \A j \in Edges : CarriesEdge(m, j, b.eo[j], b.ep[j] + 1)
CubiesTurn(m, b) ==
  CornersTurn(m, b) /\ EdgesTurn(m, b) /\ \A p \in Facelet : IsCenter(p) => m[p] = p

\* The tables of threaded_solver2.cpp against the arrays of cubiecube.h.
LEMMA CubiesOfU == CubiesTurn(U1_, MoveCube[1])
<1> DEFINE b == MoveCube[1]
<1>1. /\ CarriesCorner(U1_, 1, 0, 4) /\ CarriesCorner(U1_, 2, 0, 1)
      /\ CarriesCorner(U1_, 3, 0, 2) /\ CarriesCorner(U1_, 4, 0, 3)
      /\ CarriesCorner(U1_, 5, 0, 5) /\ CarriesCorner(U1_, 6, 0, 6)
      /\ CarriesCorner(U1_, 7, 0, 7) /\ CarriesCorner(U1_, 8, 0, 8)
  BY DEF CarriesCorner, CornerFacelet, U1_, Table, Facelet
<1>2. /\ CarriesEdge(U1_, 1, 0, 4) /\ CarriesEdge(U1_, 2, 0, 1)
      /\ CarriesEdge(U1_, 3, 0, 2) /\ CarriesEdge(U1_, 4, 0, 3)
      /\ CarriesEdge(U1_, 5, 0, 5) /\ CarriesEdge(U1_, 6, 0, 6)
      /\ CarriesEdge(U1_, 7, 0, 7) /\ CarriesEdge(U1_, 8, 0, 8)
      /\ CarriesEdge(U1_, 9, 0, 9) /\ CarriesEdge(U1_, 10, 0, 10)
      /\ CarriesEdge(U1_, 11, 0, 11) /\ CarriesEdge(U1_, 12, 0, 12)
  BY DEF CarriesEdge, EdgeFacelet, U1_, Table, Facelet
<1>3. /\ b.cp[1] = 3 /\ b.co[1] = 0 /\ b.cp[2] = 0 /\ b.co[2] = 0
      /\ b.cp[3] = 1 /\ b.co[3] = 0 /\ b.cp[4] = 2 /\ b.co[4] = 0
      /\ b.cp[5] = 4 /\ b.co[5] = 0 /\ b.cp[6] = 5 /\ b.co[6] = 0
      /\ b.cp[7] = 6 /\ b.co[7] = 0 /\ b.cp[8] = 7 /\ b.co[8] = 0
  BY DEF MoveCube, Cubies, NoTwist, Corners, URF, UFL, ULB, UBR, DFR, DLF, DBL, DRB
<1>4. /\ b.ep[1] = 3 /\ b.eo[1] = 0 /\ b.ep[2] = 0 /\ b.eo[2] = 0
      /\ b.ep[3] = 1 /\ b.eo[3] = 0 /\ b.ep[4] = 2 /\ b.eo[4] = 0
      /\ b.ep[5] = 4 /\ b.eo[5] = 0 /\ b.ep[6] = 5 /\ b.eo[6] = 0
      /\ b.ep[7] = 6 /\ b.eo[7] = 0 /\ b.ep[8] = 7 /\ b.eo[8] = 0
      /\ b.ep[9] = 8 /\ b.eo[9] = 0 /\ b.ep[10] = 9 /\ b.eo[10] = 0
      /\ b.ep[11] = 10 /\ b.eo[11] = 0 /\ b.ep[12] = 11 /\ b.eo[12] = 0
  BY SMTT(30) DEF MoveCube, Cubies, NoFlip, Edges, UR, UF, UL, UB, DR, DF, DL, DB, FR, FL, BL, BR
<1> HIDE DEF b
<1>5. CornersTurn(U1_, b)
  BY <1>1, <1>3 DEF CornersTurn, Corners
<1>6. EdgesTurn(U1_, b)
  BY <1>2, <1>4 DEF EdgesTurn, Edges
<1>7. \A p \in Facelet : IsCenter(p) => U1_[p] = p
  BY Enumerated DEF IsCenter, U1_, Table
<1> QED BY <1>5, <1>6, <1>7 DEF CubiesTurn, b

LEMMA CubiesOfR == CubiesTurn(R1_, MoveCube[2])
<1> DEFINE b == MoveCube[2]
<1>1. /\ CarriesCorner(R1_, 1, 2, 5) /\ CarriesCorner(R1_, 2, 0, 2)
      /\ CarriesCorner(R1_, 3, 0, 3) /\ CarriesCorner(R1_, 4, 1, 1)
      /\ CarriesCorner(R1_, 5, 1, 8) /\ CarriesCorner(R1_, 6, 0, 6)
      /\ CarriesCorner(R1_, 7, 0, 7) /\ CarriesCorner(R1_, 8, 2, 4)
  BY DEF CarriesCorner, CornerFacelet, R1_, Table, Facelet
<1>2. /\ CarriesEdge(R1_, 1, 0, 9) /\ CarriesEdge(R1_, 2, 0, 2)
      /\ CarriesEdge(R1_, 3, 0, 3) /\ CarriesEdge(R1_, 4, 0, 4)
      /\ CarriesEdge(R1_, 5, 0, 12) /\ CarriesEdge(R1_, 6, 0, 6)
      /\ CarriesEdge(R1_, 7, 0, 7) /\ CarriesEdge(R1_, 8, 0, 8)
      /\ CarriesEdge(R1_, 9, 0, 5) /\ CarriesEdge(R1_, 10, 0, 10)
      /\ CarriesEdge(R1_, 11, 0, 11) /\ CarriesEdge(R1_, 12, 0, 1)
  BY DEF CarriesEdge, EdgeFacelet, R1_, Table, Facelet
<1>3. /\ b.cp[1] = 4 /\ b.co[1] = 2 /\ b.cp[2] = 1 /\ b.co[2] = 0
      /\ b.cp[3] = 2 /\ b.co[3] = 0 /\ b.cp[4] = 0 /\ b.co[4] = 1
      /\ b.cp[5] = 7 /\ b.co[5] = 1 /\ b.cp[6] = 5 /\ b.co[6] = 0
      /\ b.cp[7] = 6 /\ b.co[7] = 0 /\ b.cp[8] = 3 /\ b.co[8] = 2
  BY DEF MoveCube, Cubies, NoTwist, Corners, URF, UFL, ULB, UBR, DFR, DLF, DBL, DRB
<1>4. /\ b.ep[1] = 8 /\ b.eo[1] = 0 /\ b.ep[2] = 1 /\ b.eo[2] = 0
      /\ b.ep[3] = 2 /\ b.eo[3] = 0 /\ b.ep[4] = 3 /\ b.eo[4] = 0
      /\ b.ep[5] = 11 /\ b.eo[5] = 0 /\ b.ep[6] = 5 /\ b.eo[6] = 0
      /\ b.ep[7] = 6 /\ b.eo[7] = 0 /\ b.ep[8] = 7 /\ b.eo[8] = 0
      /\ b.ep[9] = 4 /\ b.eo[9] = 0 /\ b.ep[10] = 9 /\ b.eo[10] = 0
      /\ b.ep[11] = 10 /\ b.eo[11] = 0 /\ b.ep[12] = 0 /\ b.eo[12] = 0
  BY SMTT(30) DEF MoveCube, Cubies, NoFlip, Edges, UR, UF, UL, UB, DR, DF, DL, DB, FR, FL, BL, BR
<1> HIDE DEF b
<1>5. CornersTurn(R1_, b)
  BY <1>1, <1>3 DEF CornersTurn, Corners
<1>6. EdgesTurn(R1_, b)
  BY <1>2, <1>4 DEF EdgesTurn, Edges
<1>7. \A p \in Facelet : IsCenter(p) => R1_[p] = p
  BY Enumerated DEF IsCenter, R1_, Table
<1> QED BY <1>5, <1>6, <1>7 DEF CubiesTurn, b

LEMMA CubiesOfF == CubiesTurn(F1_, MoveCube[3])
<1> DEFINE b == MoveCube[3]
<1>1. /\ CarriesCorner(F1_, 1, 1, 2) /\ CarriesCorner(F1_, 2, 2, 6)
      /\ CarriesCorner(F1_, 3, 0, 3) /\ CarriesCorner(F1_, 4, 0, 4)
      /\ CarriesCorner(F1_, 5, 2, 1) /\ CarriesCorner(F1_, 6, 1, 5)
      /\ CarriesCorner(F1_, 7, 0, 7) /\ CarriesCorner(F1_, 8, 0, 8)
  BY DEF CarriesCorner, CornerFacelet, F1_, Table, Facelet
<1>2. /\ CarriesEdge(F1_, 1, 0, 1) /\ CarriesEdge(F1_, 2, 1, 10)
      /\ CarriesEdge(F1_, 3, 0, 3) /\ CarriesEdge(F1_, 4, 0, 4)
      /\ CarriesEdge(F1_, 5, 0, 5) /\ CarriesEdge(F1_, 6, 1, 9)
      /\ CarriesEdge(F1_, 7, 0, 7) /\ CarriesEdge(F1_, 8, 0, 8)
      /\ CarriesEdge(F1_, 9, 1, 2) /\ CarriesEdge(F1_, 10, 1, 6)
      /\ CarriesEdge(F1_, 11, 0, 11) /\ CarriesEdge(F1_, 12, 0, 12)
  BY DEF CarriesEdge, EdgeFacelet, F1_, Table, Facelet
<1>3. /\ b.cp[1] = 1 /\ b.co[1] = 1 /\ b.cp[2] = 5 /\ b.co[2] = 2
      /\ b.cp[3] = 2 /\ b.co[3] = 0 /\ b.cp[4] = 3 /\ b.co[4] = 0
      /\ b.cp[5] = 0 /\ b.co[5] = 2 /\ b.cp[6] = 4 /\ b.co[6] = 1
      /\ b.cp[7] = 6 /\ b.co[7] = 0 /\ b.cp[8] = 7 /\ b.co[8] = 0
  BY DEF MoveCube, Cubies, NoTwist, Corners, URF, UFL, ULB, UBR, DFR, DLF, DBL, DRB
<1>4. /\ b.ep[1] = 0 /\ b.eo[1] = 0 /\ b.ep[2] = 9 /\ b.eo[2] = 1
      /\ b.ep[3] = 2 /\ b.eo[3] = 0 /\ b.ep[4] = 3 /\ b.eo[4] = 0
      /\ b.ep[5] = 4 /\ b.eo[5] = 0 /\ b.ep[6] = 8 /\ b.eo[6] = 1
      /\ b.ep[7] = 6 /\ b.eo[7] = 0 /\ b.ep[8] = 7 /\ b.eo[8] = 0
      /\ b.ep[9] = 1 /\ b.eo[9] = 1 /\ b.ep[10] = 5 /\ b.eo[10] = 1
      /\ b.ep[11] = 10 /\ b.eo[11] = 0 /\ b.ep[12] = 11 /\ b.eo[12] = 0
  BY SMTT(30) DEF MoveCube, Cubies, NoFlip, Edges, UR, UF, UL, UB, DR, DF, DL, DB, FR, FL, BL, BR
<1> HIDE DEF b
<1>5. CornersTurn(F1_, b)
  BY <1>1, <1>3 DEF CornersTurn, Corners
<1>6. EdgesTurn(F1_, b)
  BY <1>2, <1>4 DEF EdgesTurn, Edges
<1>7. \A p \in Facelet : IsCenter(p) => F1_[p] = p
  BY Enumerated DEF IsCenter, F1_, Table
<1> QED BY <1>5, <1>6, <1>7 DEF CubiesTurn, b

LEMMA CubiesOfD == CubiesTurn(D1_, MoveCube[4])
<1> DEFINE b == MoveCube[4]
<1>1. /\ CarriesCorner(D1_, 1, 0, 1) /\ CarriesCorner(D1_, 2, 0, 2)
      /\ CarriesCorner(D1_, 3, 0, 3) /\ CarriesCorner(D1_, 4, 0, 4)
      /\ CarriesCorner(D1_, 5, 0, 6) /\ CarriesCorner(D1_, 6, 0, 7)
      /\ CarriesCorner(D1_, 7, 0, 8) /\ CarriesCorner(D1_, 8, 0, 5)
  BY DEF CarriesCorner, CornerFacelet, D1_, Table, Facelet
<1>2. /\ CarriesEdge(D1_, 1, 0, 1) /\ CarriesEdge(D1_, 2, 0, 2)
      /\ CarriesEdge(D1_, 3, 0, 3) /\ CarriesEdge(D1_, 4, 0, 4)
      /\ CarriesEdge(D1_, 5, 0, 6) /\ CarriesEdge(D1_, 6, 0, 7)
      /\ CarriesEdge(D1_, 7, 0, 8) /\ CarriesEdge(D1_, 8, 0, 5)
      /\ CarriesEdge(D1_, 9, 0, 9) /\ CarriesEdge(D1_, 10, 0, 10)
      /\ CarriesEdge(D1_, 11, 0, 11) /\ CarriesEdge(D1_, 12, 0, 12)
  BY DEF CarriesEdge, EdgeFacelet, D1_, Table, Facelet
<1>3. /\ b.cp[1] = 0 /\ b.co[1] = 0 /\ b.cp[2] = 1 /\ b.co[2] = 0
      /\ b.cp[3] = 2 /\ b.co[3] = 0 /\ b.cp[4] = 3 /\ b.co[4] = 0
      /\ b.cp[5] = 5 /\ b.co[5] = 0 /\ b.cp[6] = 6 /\ b.co[6] = 0
      /\ b.cp[7] = 7 /\ b.co[7] = 0 /\ b.cp[8] = 4 /\ b.co[8] = 0
  BY DEF MoveCube, Cubies, NoTwist, Corners, URF, UFL, ULB, UBR, DFR, DLF, DBL, DRB
<1>4. /\ b.ep[1] = 0 /\ b.eo[1] = 0 /\ b.ep[2] = 1 /\ b.eo[2] = 0
      /\ b.ep[3] = 2 /\ b.eo[3] = 0 /\ b.ep[4] = 3 /\ b.eo[4] = 0
      /\ b.ep[5] = 5 /\ b.eo[5] = 0 /\ b.ep[6] = 6 /\ b.eo[6] = 0
      /\ b.ep[7] = 7 /\ b.eo[7] = 0 /\ b.ep[8] = 4 /\ b.eo[8] = 0
      /\ b.ep[9] = 8 /\ b.eo[9] = 0 /\ b.ep[10] = 9 /\ b.eo[10] = 0
      /\ b.ep[11] = 10 /\ b.eo[11] = 0 /\ b.ep[12] = 11 /\ b.eo[12] = 0
  BY SMTT(30) DEF MoveCube, Cubies, NoFlip, Edges, UR, UF, UL, UB, DR, DF, DL, DB, FR, FL, BL, BR
<1> HIDE DEF b
<1>5. CornersTurn(D1_, b)
  BY <1>1, <1>3 DEF CornersTurn, Corners
<1>6. EdgesTurn(D1_, b)
  BY <1>2, <1>4 DEF EdgesTurn, Edges
<1>7. \A p \in Facelet : IsCenter(p) => D1_[p] = p
  BY Enumerated DEF IsCenter, D1_, Table
<1> QED BY <1>5, <1>6, <1>7 DEF CubiesTurn, b

LEMMA CubiesOfL == CubiesTurn(L1_, MoveCube[5])
<1> DEFINE b == MoveCube[5]
<1>1. /\ CarriesCorner(L1_, 1, 0, 1) /\ CarriesCorner(L1_, 2, 1, 3)
      /\ CarriesCorner(L1_, 3, 2, 7) /\ CarriesCorner(L1_, 4, 0, 4)
      /\ CarriesCorner(L1_, 5, 0, 5) /\ CarriesCorner(L1_, 6, 2, 2)
      /\ CarriesCorner(L1_, 7, 1, 6) /\ CarriesCorner(L1_, 8, 0, 8)
  BY DEF CarriesCorner, CornerFacelet, L1_, Table, Facelet
<1>2. /\ CarriesEdge(L1_, 1, 0, 1) /\ CarriesEdge(L1_, 2, 0, 2)
      /\ CarriesEdge(L1_, 3, 0, 11) /\ CarriesEdge(L1_, 4, 0, 4)
      /\ CarriesEdge(L1_, 5, 0, 5) /\ CarriesEdge(L1_, 6, 0, 6)
      /\ CarriesEdge(L1_, 7, 0, 10) /\ CarriesEdge(L1_, 8, 0, 8)
      /\ CarriesEdge(L1_, 9, 0, 9) /\ CarriesEdge(L1_, 10, 0, 3)
      /\ CarriesEdge(L1_, 11, 0, 7) /\ CarriesEdge(L1_, 12, 0, 12)
  BY DEF CarriesEdge, EdgeFacelet, L1_, Table, Facelet
<1>3. /\ b.cp[1] = 0 /\ b.co[1] = 0 /\ b.cp[2] = 2 /\ b.co[2] = 1
      /\ b.cp[3] = 6 /\ b.co[3] = 2 /\ b.cp[4] = 3 /\ b.co[4] = 0
      /\ b.cp[5] = 4 /\ b.co[5] = 0 /\ b.cp[6] = 1 /\ b.co[6] = 2
      /\ b.cp[7] = 5 /\ b.co[7] = 1 /\ b.cp[8] = 7 /\ b.co[8] = 0
  BY DEF MoveCube, Cubies, NoTwist, Corners, URF, UFL, ULB, UBR, DFR, DLF, DBL, DRB
<1>4. /\ b.ep[1] = 0 /\ b.eo[1] = 0 /\ b.ep[2] = 1 /\ b.eo[2] = 0
      /\ b.ep[3] = 10 /\ b.eo[3] = 0 /\ b.ep[4] = 3 /\ b.eo[4] = 0
      /\ b.ep[5] = 4 /\ b.eo[5] = 0 /\ b.ep[6] = 5 /\ b.eo[6] = 0
      /\ b.ep[7] = 9 /\ b.eo[7] = 0 /\ b.ep[8] = 7 /\ b.eo[8] = 0
      /\ b.ep[9] = 8 /\ b.eo[9] = 0 /\ b.ep[10] = 2 /\ b.eo[10] = 0
      /\ b.ep[11] = 6 /\ b.eo[11] = 0 /\ b.ep[12] = 11 /\ b.eo[12] = 0
  BY SMTT(30) DEF MoveCube, Cubies, NoFlip, Edges, UR, UF, UL, UB, DR, DF, DL, DB, FR, FL, BL, BR
<1> HIDE DEF b
<1>5. CornersTurn(L1_, b)
  BY <1>1, <1>3 DEF CornersTurn, Corners
<1>6. EdgesTurn(L1_, b)
  BY <1>2, <1>4 DEF EdgesTurn, Edges
<1>7. \A p \in Facelet : IsCenter(p) => L1_[p] = p
  BY Enumerated DEF IsCenter, L1_, Table
<1> QED BY <1>5, <1>6, <1>7 DEF CubiesTurn, b

LEMMA CubiesOfB == CubiesTurn(B1_, MoveCube[6])
<1> DEFINE b == MoveCube[6]
<1>1. /\ CarriesCorner(B1_, 1, 0, 1) /\ CarriesCorner(B1_, 2, 0, 2)
      /\ CarriesCorner(B1_, 3, 1, 4) /\ CarriesCorner(B1_, 4, 2, 8)
      /\ CarriesCorner(B1_, 5, 0, 5) /\ CarriesCorner(B1_, 6, 0, 6)
      /\ CarriesCorner(B1_, 7, 2, 3) /\ CarriesCorner(B1_, 8, 1, 7)
  BY DEF CarriesCorner, CornerFacelet, B1_, Table, Facelet
<1>2. /\ CarriesEdge(B1_, 1, 0, 1) /\ CarriesEdge(B1_, 2, 0, 2)
      /\ CarriesEdge(B1_, 3, 0, 3) /\ CarriesEdge(B1_, 4, 1, 12)
      /\ CarriesEdge(B1_, 5, 0, 5) /\ CarriesEdge(B1_, 6, 0, 6)
      /\ CarriesEdge(B1_, 7, 0, 7) /\ CarriesEdge(B1_, 8, 1, 11)
      /\ CarriesEdge(B1_, 9, 0, 9) /\ CarriesEdge(B1_, 10, 0, 10)
      /\ CarriesEdge(B1_, 11, 1, 4) /\ CarriesEdge(B1_, 12, 1, 8)
  BY DEF CarriesEdge, EdgeFacelet, B1_, Table, Facelet
<1>3. /\ b.cp[1] = 0 /\ b.co[1] = 0 /\ b.cp[2] = 1 /\ b.co[2] = 0
      /\ b.cp[3] = 3 /\ b.co[3] = 1 /\ b.cp[4] = 7 /\ b.co[4] = 2
      /\ b.cp[5] = 4 /\ b.co[5] = 0 /\ b.cp[6] = 5 /\ b.co[6] = 0
      /\ b.cp[7] = 2 /\ b.co[7] = 2 /\ b.cp[8] = 6 /\ b.co[8] = 1
  BY DEF MoveCube, Cubies, NoTwist, Corners, URF, UFL, ULB, UBR, DFR, DLF, DBL, DRB
<1>4. /\ b.ep[1] = 0 /\ b.eo[1] = 0 /\ b.ep[2] = 1 /\ b.eo[2] = 0
      /\ b.ep[3] = 2 /\ b.eo[3] = 0 /\ b.ep[4] = 11 /\ b.eo[4] = 1
      /\ b.ep[5] = 4 /\ b.eo[5] = 0 /\ b.ep[6] = 5 /\ b.eo[6] = 0
      /\ b.ep[7] = 6 /\ b.eo[7] = 0 /\ b.ep[8] = 10 /\ b.eo[8] = 1
      /\ b.ep[9] = 8 /\ b.eo[9] = 0 /\ b.ep[10] = 9 /\ b.eo[10] = 0
      /\ b.ep[11] = 3 /\ b.eo[11] = 1 /\ b.ep[12] = 7 /\ b.eo[12] = 1
  BY SMTT(30) DEF MoveCube, Cubies, NoFlip, Edges, UR, UF, UL, UB, DR, DF, DL, DB, FR, FL, BL, BR
<1> HIDE DEF b
<1>5. CornersTurn(B1_, b)
  BY <1>1, <1>3 DEF CornersTurn, Corners
<1>6. EdgesTurn(B1_, b)
  BY <1>2, <1>4 DEF EdgesTurn, Edges
<1>7. \A p \in Facelet : IsCenter(p) => B1_[p] = p
  BY Enumerated DEF IsCenter, B1_, Table
<1> QED BY <1>5, <1>6, <1>7 DEF CubiesTurn, b

LEMMA CubiesOfTurn ==
  ASSUME NEW face \in FaceSet
  PROVE  CubiesTurn(MovesTable[face + 1][1], MoveCube[face + 1])
<1>1. face \in {0, 1, 2, 3, 4, 5}
  BY DEF FaceSet
<1> QED BY <1>1, CubiesOfU, CubiesOfR, CubiesOfF, CubiesOfD, CubiesOfL, CubiesOfB DEF MovesTable

\* Cubes in cubies, and what can be seen of one.
Cubie == [cp : [Corners -> 0 .. 7], co : [Corners -> 0 .. 2],
          ep : [Edges -> 0 .. 11], eo : [Edges -> 0 .. 1]]

ShowsCorners(f, c) ==
  \A j \in Corners, k \in 0 .. 2 :
    f[CornerFacelet[j][((k + c.co[j]) % 3) + 1]] = CornerColor[c.cp[j] + 1][k + 1]
ShowsEdges(f, c) ==
  \A j \in Edges, k \in 0 .. 1 :
    f[EdgeFacelet[j][((k + c.eo[j]) % 2) + 1]] = EdgeColor[c.ep[j] + 1][k + 1]
ShowsCenters(f) == \A p \in Facelet : IsCenter(p) => f[p] = FaceOf(p)

LEMMA CubieFacelets ==
  /\ \A j \in Corners, k \in 1 .. 3 : CornerFacelet[j][k] \in Facelet
  /\ \A j \in Edges, k \in 1 .. 2 : EdgeFacelet[j][k] \in Facelet
<1>1. \A j \in Corners : \A k \in 1 .. 3 : CornerFacelet[j][k] \in Facelet
  BY DEF CornerFacelet, Corners, Facelet
<1>2. \A j \in Edges : \A k \in 1 .. 2 : EdgeFacelet[j][k] \in Facelet
  BY DEF EdgeFacelet, Edges, Facelet
<1> QED BY <1>1, <1>2

LEMMA MoveCubeType == \A face \in FaceSet : MoveCube[face + 1] \in Cubie
<1>1. ASSUME NEW cp \in [Corners -> 0 .. 7], NEW co \in [Corners -> 0 .. 2],
             NEW ep \in [Edges -> 0 .. 11], NEW eo \in [Edges -> 0 .. 1]
      PROVE  Cubies(cp, co, ep, eo) \in Cubie
  BY DEF Cubies, Cubie
<1>2. NoTwist \in [Corners -> 0 .. 2] /\ NoFlip \in [Edges -> 0 .. 1]
  BY DEF NoTwist, NoFlip
<1>3. /\ MoveCube[1] \in Cubie
      /\ MoveCube[2] \in Cubie
      /\ MoveCube[3] \in Cubie
      /\ MoveCube[4] \in Cubie
      /\ MoveCube[5] \in Cubie
      /\ MoveCube[6] \in Cubie
  BY <1>2 DEF MoveCube, Cubies, Cubie, Corners, Edges, URF, UFL, ULB, UBR, DFR, DLF, DBL, DRB,
     UR, UF, UL, UB, DR, DF, DL, DB, FR, FL, BL, BR
<1> QED BY <1>3 DEF FaceSet

\* Orientations add up.
LEMMA TurnedThrice ==
  \A x, y, z \in 0 .. 2 :
    /\ (x + ((y + z) % 3)) % 3 = (((x + y) % 3) + z) % 3
    /\ (x + y) % 3 \in 0 .. 2
<1>1. \A x, y, z \in 0 .. 2 : x \in {0, 1, 2} /\ y \in {0, 1, 2} /\ z \in {0, 1, 2}
  OBVIOUS
<1> QED BY <1>1

LEMMA TurnedTwice ==
  \A x, y, z \in 0 .. 1 :
    /\ (x + ((y + z) % 2)) % 2 = (((x + y) % 2) + z) % 2
    /\ (x + y) % 2 \in 0 .. 1
<1>1. \A x, y, z \in 0 .. 1 : x \in {0, 1} /\ y \in {0, 1} /\ z \in {0, 1}
  OBVIOUS
<1> QED BY <1>1

LEMMA CornerStep ==
  ASSUME NEW a \in Cubie, NEW b \in Cubie, NEW m, CornersTurn(m, b),
         NEW f, ShowsCorners(f, a)
  PROVE  LET c == CornerMultiply(a, b)
         IN /\ c \in Cubie /\ c.ep = a.ep /\ c.eo = a.eo
            /\ ShowsCorners(MakeMove(f, m), c)
<1> DEFINE c == CornerMultiply(a, b)
<1>1. \A j \in Corners : b.cp[j] + 1 \in Corners /\ b.co[j] \in 0 .. 2
  BY DEF Cubie, Corners
<1>2. \A j \in Corners : a.cp[j] \in 0 .. 7 /\ a.co[j] \in 0 .. 2
  BY DEF Cubie
<1>3. /\ c.cp = [j \in Corners |-> a.cp[b.cp[j] + 1]]
      /\ c.co = [j \in Corners |-> (a.co[b.cp[j] + 1] + b.co[j]) % 3]
      /\ c.ep = a.ep /\ c.eo = a.eo
  BY DEF CornerMultiply, Cubie
<1> HIDE DEF c
<1>4. c.cp \in [Corners -> 0 .. 7] /\ c.co \in [Corners -> 0 .. 2]
  BY <1>1, <1>2, <1>3
<1>5. c \in Cubie
  <2>1. \A x \in [Corners -> 0 .. 7], y \in [Corners -> 0 .. 2] :
          [a EXCEPT !.cp = x, !.co = y] \in Cubie
    BY DEF Cubie
  <2>2. c = [a EXCEPT !.cp = c.cp, !.co = c.co]
    BY <1>3 DEF c, CornerMultiply
  <2> QED BY <1>4, <2>1, <2>2
<1>6. ASSUME NEW j \in Corners, NEW k \in 0 .. 2
      PROVE  MakeMove(f, m)[CornerFacelet[j][((k + c.co[j]) % 3) + 1]]
               = CornerColor[c.cp[j] + 1][k + 1]
  <2> DEFINE n == b.cp[j] + 1
             l == (k + a.co[n]) % 3
  <2>1. n \in Corners /\ a.co[n] \in 0 .. 2 /\ b.co[j] \in 0 .. 2 /\ l \in 0 .. 2
    BY <1>1, <1>2
  <2>2. (k + c.co[j]) % 3 = (l + b.co[j]) % 3 /\ (l + b.co[j]) % 3 \in 0 .. 2
    <3>1. c.co[j] = (a.co[n] + b.co[j]) % 3
      BY <1>3
    <3> HIDE DEF n
    <3>2. (k + ((a.co[n] + b.co[j]) % 3)) % 3 = (l + b.co[j]) % 3
      BY <2>1, TurnedThrice
    <3>3. (l + b.co[j]) % 3 \in 0 .. 2
      <4> HIDE DEF l
      <4> QED BY <2>1, TurnedThrice
    <3> HIDE DEF l
    <3> QED BY <3>1, <3>2, <3>3
  <2>3. CornerFacelet[j][((l + b.co[j]) % 3) + 1] \in Facelet
    <3> HIDE DEF l
    <3> QED BY <2>2, CubieFacelets
  <2>4. m[CornerFacelet[j][((l + b.co[j]) % 3) + 1]] = CornerFacelet[n][l + 1]
    <3> HIDE DEF l
    <3> QED BY <2>1 DEF CornersTurn, CarriesCorner
  <2>5. f[CornerFacelet[n][l + 1]] = CornerColor[a.cp[n] + 1][k + 1]
    <3> HIDE DEF n
    <3> QED BY <2>1 DEF ShowsCorners
  <2>6. c.cp[j] = a.cp[n]
    BY <1>3
  <2> HIDE DEF l, n
  <2> QED BY <2>2, <2>3, <2>4, <2>5, <2>6 DEF MakeMove
<1> QED BY <1>3, <1>5, <1>6 DEF ShowsCorners, c

LEMMA EdgeStep ==
  ASSUME NEW a \in Cubie, NEW b \in Cubie, NEW m, EdgesTurn(m, b),
         NEW f, ShowsEdges(f, a)
  PROVE  LET c == EdgeMultiply(a, b)
         IN /\ c \in Cubie /\ c.cp = a.cp /\ c.co = a.co
            /\ ShowsEdges(MakeMove(f, m), c)
<1> DEFINE c == EdgeMultiply(a, b)
<1>1. \A j \in Edges : b.ep[j] + 1 \in Edges /\ b.eo[j] \in 0 .. 1
  BY DEF Cubie, Edges
<1>2. \A j \in Edges : a.ep[j] \in 0 .. 11 /\ a.eo[j] \in 0 .. 1
  BY DEF Cubie
<1>3. /\ c.ep = [j \in Edges |-> a.ep[b.ep[j] + 1]]
      /\ c.eo = [j \in Edges |-> (a.eo[b.ep[j] + 1] + b.eo[j]) % 2]
      /\ c.cp = a.cp /\ c.co = a.co
  BY DEF EdgeMultiply, Cubie
<1> HIDE DEF c
<1>4. c.ep \in [Edges -> 0 .. 11] /\ c.eo \in [Edges -> 0 .. 1]
  BY <1>1, <1>2, <1>3
<1>5. c \in Cubie
  <2>1. \A x \in [Edges -> 0 .. 11], y \in [Edges -> 0 .. 1] :
          [a EXCEPT !.ep = x, !.eo = y] \in Cubie
    BY DEF Cubie
  <2>2. c = [a EXCEPT !.ep = c.ep, !.eo = c.eo]
    BY <1>3 DEF c, EdgeMultiply
  <2> QED BY <1>4, <2>1, <2>2
<1>6. ASSUME NEW j \in Edges, NEW k \in 0 .. 1
      PROVE  MakeMove(f, m)[EdgeFacelet[j][((k + c.eo[j]) % 2) + 1]]
               = EdgeColor[c.ep[j] + 1][k + 1]
  <2> DEFINE n == b.ep[j] + 1
             l == (k + a.eo[n]) % 2
  <2>1. n \in Edges /\ a.eo[n] \in 0 .. 1 /\ b.eo[j] \in 0 .. 1 /\ l \in 0 .. 1
    BY <1>1, <1>2
  <2>2. (k + c.eo[j]) % 2 = (l + b.eo[j]) % 2 /\ (l + b.eo[j]) % 2 \in 0 .. 1
    <3>1. c.eo[j] = (a.eo[n] + b.eo[j]) % 2
      BY <1>3
    <3> HIDE DEF n
    <3>2. (k + ((a.eo[n] + b.eo[j]) % 2)) % 2 = (l + b.eo[j]) % 2
      BY <2>1, TurnedTwice
    <3>3. (l + b.eo[j]) % 2 \in 0 .. 1
      <4> HIDE DEF l
      <4> QED BY <2>1, TurnedTwice
    <3> HIDE DEF l
    <3> QED BY <3>1, <3>2, <3>3
  <2>3. EdgeFacelet[j][((l + b.eo[j]) % 2) + 1] \in Facelet
    <3> HIDE DEF l
    <3> QED BY <2>2, CubieFacelets
  <2>4. m[EdgeFacelet[j][((l + b.eo[j]) % 2) + 1]] = EdgeFacelet[n][l + 1]
    <3> HIDE DEF l
    <3> QED BY <2>1 DEF EdgesTurn, CarriesEdge
  <2>5. f[EdgeFacelet[n][l + 1]] = EdgeColor[a.ep[n] + 1][k + 1]
    <3> HIDE DEF n
    <3> QED BY <2>1 DEF ShowsEdges
  <2>6. c.ep[j] = a.ep[n]
    BY <1>3
  <2> HIDE DEF l, n
  <2> QED BY <2>2, <2>3, <2>4, <2>5, <2>6 DEF MakeMove
<1> QED BY <1>3, <1>5, <1>6 DEF ShowsEdges, c

LEMMA RepeatedMove ==
  ASSUME NEW face \in FaceSet, NEW f
  PROVE  LET T == MovesTable[face + 1]
         IN /\ MakeMove(MakeMove(f, T[1]), T[1]) = MakeMove(f, T[2])
            /\ MakeMove(MakeMove(f, T[2]), T[1]) = MakeMove(f, T[3])
<1> DEFINE T == MovesTable[face + 1]
<1>1. \A p \in Facelet :
        T[1][p] \in Facelet /\ T[2][p] = T[1][T[1][p]] /\ T[3][p] = T[2][T[1][p]]
  BY TableOfTurn, RepeatedTable
<1> HIDE DEF T
<1> QED BY <1>1 DEF MakeMove, T

\* A turn of a face, in the cubies and in the facelets.
LEMMA CornersFollow ==
  ASSUME NEW a \in Cubie, NEW turn \in Turnings, NEW f, ShowsCorners(f, a)
  PROVE  LET c == TurnCorners(a, turn)
         IN /\ c \in Cubie /\ c.ep = a.ep /\ c.eo = a.eo
            /\ ShowsCorners(TurnFace(f, turn), c)
<1> DEFINE T == MovesTable[turn[1] + 1]
           b == MoveCube[turn[1] + 1]
           once(x) == CornerMultiply(x, b)
<1>1. turn[1] \in FaceSet /\ turn[2] \in 1 .. 3
  BY DEF Turnings
<1>2. b \in Cubie /\ CornersTurn(T[1], b)
  BY <1>1, MoveCubeType, CubiesOfTurn DEF CubiesTurn
<1>3. /\ MakeMove(MakeMove(f, T[1]), T[1]) = MakeMove(f, T[2])
      /\ MakeMove(MakeMove(f, T[2]), T[1]) = MakeMove(f, T[3])
  BY <1>1, RepeatedMove
<1>4. TurnFace(f, turn) = MakeMove(f, T[turn[2]])
  BY DEF TurnFace
<1>5. TurnCorners(a, turn) = CASE turn[2] = 1 -> once(a)
                               [] turn[2] = 2 -> once(once(a))
                               [] turn[2] = 3 -> once(once(once(a)))
  BY DEF TurnCorners
<1> HIDE DEF T, b
<1>6. /\ once(a) \in Cubie /\ once(a).ep = a.ep /\ once(a).eo = a.eo
      /\ ShowsCorners(MakeMove(f, T[1]), once(a))
  BY <1>2, CornerStep
<1> HIDE DEF once
<1>7. /\ once(once(a)) \in Cubie /\ once(once(a)).ep = a.ep /\ once(once(a)).eo = a.eo
      /\ ShowsCorners(MakeMove(f, T[2]), once(once(a)))
  BY <1>2, <1>3, <1>6, CornerStep DEF once
<1>8. /\ once(once(once(a))) \in Cubie
      /\ once(once(once(a))).ep = a.ep /\ once(once(once(a))).eo = a.eo
      /\ ShowsCorners(MakeMove(f, T[3]), once(once(once(a))))
  BY <1>2, <1>3, <1>7, CornerStep DEF once
<1>9. turn[2] \in {1, 2, 3}
  BY <1>1
<1> QED BY <1>4, <1>5, <1>6, <1>7, <1>8, <1>9

LEMMA EdgesFollow ==
  ASSUME NEW a \in Cubie, NEW turn \in Turnings, NEW f, ShowsEdges(f, a)
  PROVE  LET c == TurnEdges(a, turn)
         IN /\ c \in Cubie /\ c.cp = a.cp /\ c.co = a.co
            /\ ShowsEdges(TurnFace(f, turn), c)
<1> DEFINE T == MovesTable[turn[1] + 1]
           b == MoveCube[turn[1] + 1]
           once(x) == EdgeMultiply(x, b)
<1>1. turn[1] \in FaceSet /\ turn[2] \in 1 .. 3
  BY DEF Turnings
<1>2. b \in Cubie /\ EdgesTurn(T[1], b)
  BY <1>1, MoveCubeType, CubiesOfTurn DEF CubiesTurn
<1>3. /\ MakeMove(MakeMove(f, T[1]), T[1]) = MakeMove(f, T[2])
      /\ MakeMove(MakeMove(f, T[2]), T[1]) = MakeMove(f, T[3])
  BY <1>1, RepeatedMove
<1>4. TurnFace(f, turn) = MakeMove(f, T[turn[2]])
  BY DEF TurnFace
<1>5. TurnEdges(a, turn) = CASE turn[2] = 1 -> once(a)
                               [] turn[2] = 2 -> once(once(a))
                               [] turn[2] = 3 -> once(once(once(a)))
  BY DEF TurnEdges
<1> HIDE DEF T, b
<1>6. /\ once(a) \in Cubie /\ once(a).cp = a.cp /\ once(a).co = a.co
      /\ ShowsEdges(MakeMove(f, T[1]), once(a))
  BY <1>2, EdgeStep
<1> HIDE DEF once
<1>7. /\ once(once(a)) \in Cubie /\ once(once(a)).cp = a.cp /\ once(once(a)).co = a.co
      /\ ShowsEdges(MakeMove(f, T[2]), once(once(a)))
  BY <1>2, <1>3, <1>6, EdgeStep DEF once
<1>8. /\ once(once(once(a))) \in Cubie
      /\ once(once(once(a))).cp = a.cp /\ once(once(once(a))).co = a.co
      /\ ShowsEdges(MakeMove(f, T[3]), once(once(once(a))))
  BY <1>2, <1>3, <1>7, EdgeStep DEF once
<1>9. turn[2] \in {1, 2, 3}
  BY <1>1
<1> QED BY <1>4, <1>5, <1>6, <1>7, <1>8, <1>9

LEMMA CentersStay ==
  ASSUME NEW turn \in Turnings, NEW f, ShowsCenters(f)
  PROVE  ShowsCenters(TurnFace(f, turn))
<1> DEFINE T == MovesTable[turn[1] + 1]
<1>1. turn[1] \in FaceSet /\ turn[2] \in {1, 2, 3}
  BY DEF Turnings
<1>2. \A p \in Facelet : IsCenter(p) => T[1][p] = p
  BY <1>1, CubiesOfTurn DEF CubiesTurn
<1>3. \A p \in Facelet : T[2][p] = T[1][T[1][p]] /\ T[3][p] = T[2][T[1][p]]
  BY <1>1, RepeatedTable
<1> HIDE DEF T
<1>4. \A p \in Facelet : IsCenter(p) => T[turn[2]][p] = p
  BY <1>1, <1>2, <1>3
<1>5. TurnFace(f, turn) = MakeMove(f, T[turn[2]])
  BY DEF TurnFace, T
<1> QED BY <1>4, <1>5 DEF ShowsCenters, MakeMove

\* A cube and what is seen of it.
Shows(f, c) == ShowsCorners(f, c) /\ ShowsEdges(f, c) /\ ShowsCenters(f)

LEMMA CubiesFollow ==
  ASSUME NEW a \in Cubie, NEW turn \in Turnings, NEW f, Shows(f, a)
  PROVE  TurnCubies(a, turn) \in Cubie /\ Shows(TurnFace(f, turn), TurnCubies(a, turn))
<1> DEFINE c == TurnCorners(a, turn)
           d == TurnEdges(c, turn)
<1>1. c \in Cubie /\ c.ep = a.ep /\ c.eo = a.eo /\ ShowsCorners(TurnFace(f, turn), c)
  BY CornersFollow DEF Shows
<1> HIDE DEF c
<1>2. ShowsEdges(f, c)
  BY <1>1 DEF Shows, ShowsEdges
<1>3. d \in Cubie /\ d.cp = c.cp /\ d.co = c.co /\ ShowsEdges(TurnFace(f, turn), d)
  BY <1>1, <1>2, EdgesFollow
<1>4. TurnCubies(a, turn) = d
  BY DEF TurnCubies, c
<1> HIDE DEF d
<1>5. ShowsCorners(TurnFace(f, turn), d)
  BY <1>1, <1>3 DEF ShowsCorners
<1> QED BY <1>3, <1>4, <1>5, CentersStay DEF Shows

\* The least element of a set that has one, by FiniteSetsExt.
LEMMA LeastOf ==
  ASSUME NEW S, NEW n \in Int, n \in S, \A x \in S : x \in Int /\ n <= x
  PROVE  Min(S) = n
<1>1. \A x \in S : (\A y \in S : x <= y) <=> x = n
  OBVIOUS
<1>2. Min(S) = CHOOSE x \in S : \A y \in S : x <= y
  BY Zenon DEF Min
<1> QED BY <1>1, <1>2

LEMMA ColoursOfCubies ==
  /\ \A n \in Corners : /\ CornerColor[n][1] \in {U_, D_}
                        /\ CornerColor[n][2] \notin {U_, D_}
                        /\ CornerColor[n][3] \notin {U_, D_}
  /\ \A j, n \in Corners :
       CornerColor[j][2] = CornerColor[n][2] /\ CornerColor[j][3] = CornerColor[n][3]
         => j = n
  /\ \A n \in Edges : EdgeColor[n] = <<EdgeColor[n][1], EdgeColor[n][2]>>
  /\ \A j, n \in Edges : EdgeColor[j] = EdgeColor[n] => j = n
  /\ \A j, n \in Edges : EdgeColor[j] # Swapped(EdgeColor[n])
<1>1. \A n \in Corners : n \in {1, 2, 3, 4, 5, 6, 7, 8}
  BY DEF Corners
<1>2. \A n \in Edges : n \in {1, 2, 3, 4, 5, 6, 7, 8, 9, 10, 11, 12}
  BY DEF Edges
<1>3. \A n \in Corners : /\ CornerColor[n][1] \in {U_, D_}
                         /\ CornerColor[n][2] \notin {U_, D_}
                         /\ CornerColor[n][3] \notin {U_, D_}
  BY <1>1 DEF CornerColor, U_, R_, F_, D_, L_, B_
<1>4. \A j, n \in Corners :
        CornerColor[j][2] = CornerColor[n][2] /\ CornerColor[j][3] = CornerColor[n][3]
          => j = n
  BY <1>1 DEF CornerColor, U_, R_, F_, D_, L_, B_
<1>5. \A n \in Edges : EdgeColor[n] = <<EdgeColor[n][1], EdgeColor[n][2]>>
  BY <1>2 DEF EdgeColor
<1>6. \A j, n \in Edges : EdgeColor[j][1] = EdgeColor[n][1] /\ EdgeColor[j][2] = EdgeColor[n][2]
                            => j = n
  BY <1>2 DEF EdgeColor, U_, R_, F_, D_, L_, B_
<1>7. \A j, n \in Edges : ~(EdgeColor[j][1] = EdgeColor[n][2] /\ EdgeColor[j][2] = EdgeColor[n][1])
  BY <1>2 DEF EdgeColor, U_, R_, F_, D_, L_, B_
<1> QED BY <1>3, <1>4, <1>5, <1>6, <1>7 DEF Swapped

LEMMA ReadCorner ==
  ASSUME NEW c \in Cubie, NEW f, ShowsCorners(f, c), NEW j \in Corners
  PROVE  Orientation(f, j) = c.co[j] /\ CornersLike(f, j) = {c.cp[j] + 1}
<1> DEFINE o == c.co[j]
           n == c.cp[j] + 1
<1>1. o \in 0 .. 2 /\ n \in Corners
  BY DEF Cubie, Corners
<1>2. \A k \in 0 .. 2 : f[CornerFacelet[j][((k + o) % 3) + 1]] = CornerColor[n][k + 1]
  BY DEF ShowsCorners
<1> HIDE DEF o, n
<1>3. /\ f[CornerFacelet[j][o + 1]] = CornerColor[n][1]
      /\ f[CornerFacelet[j][((o + 1) % 3) + 1]] = CornerColor[n][2]
      /\ f[CornerFacelet[j][((o + 2) % 3) + 1]] = CornerColor[n][3]
  <2>1. (0 + o) % 3 = o /\ (1 + o) % 3 = (o + 1) % 3 /\ (2 + o) % 3 = (o + 2) % 3
    BY <1>1
  <2>2. f[CornerFacelet[j][((0 + o) % 3) + 1]] = CornerColor[n][0 + 1]
    BY <1>2
  <2>3. f[CornerFacelet[j][((1 + o) % 3) + 1]] = CornerColor[n][1 + 1]
    BY <1>2
  <2>4. f[CornerFacelet[j][((2 + o) % 3) + 1]] = CornerColor[n][2 + 1]
    BY <1>2
  <2> QED BY <2>1, <2>2, <2>3, <2>4
<1>4. \A x \in 0 .. 2 : x = o \/ x = (o + 1) % 3 \/ x = (o + 2) % 3
  BY <1>1
<1>5. \A x \in 0 .. 2 : f[CornerFacelet[j][x + 1]] \in {U_, D_} <=> x = o
  BY <1>1, <1>3, <1>4, ColoursOfCubies
<1>6. Orientation(f, j) = o
  <2> DEFINE S == {3} \cup {x \in 0 .. 2 : f[CornerFacelet[j][x + 1]] \in {U_, D_}}
  <2>1. o \in S /\ \A x \in S : x \in Int /\ o <= x
    BY <1>1, <1>5
  <2>2. Orientation(f, j) = Min(S)
    BY DEF Orientation
  <2> HIDE DEF S
  <2> QED BY <1>1, <2>1, <2>2, LeastOf
<1>7. CornersLike(f, j) = {n}
  <2>1. CornersLike(f, j) = {x \in Corners : <<CornerColor[x][2], CornerColor[x][3]>>
                                               = <<CornerColor[n][2], CornerColor[n][3]>>}
    BY <1>3, <1>6 DEF CornersLike
  <2> QED BY <1>1, <2>1, ColoursOfCubies
<1> QED BY <1>6, <1>7 DEF o, n

LEMMA ReadEdge ==
  ASSUME NEW c \in Cubie, NEW f, ShowsEdges(f, c), NEW j \in Edges
  PROVE  /\ EdgesLike(f, j) = {c.ep[j] + 1}
         /\ EdgeColor[c.ep[j] + 1] # EdgeColours(f, j) <=> c.eo[j] = 1
<1> DEFINE o == c.eo[j]
           n == c.ep[j] + 1
<1>1. o \in {0, 1} /\ n \in Edges
  BY DEF Cubie, Edges
<1>2. \A k \in 0 .. 1 : f[EdgeFacelet[j][((k + o) % 2) + 1]] = EdgeColor[n][k + 1]
  BY DEF ShowsEdges
<1> HIDE DEF o, n
<1>3. /\ f[EdgeFacelet[j][((0 + o) % 2) + 1]] = EdgeColor[n][0 + 1]
      /\ f[EdgeFacelet[j][((1 + o) % 2) + 1]] = EdgeColor[n][1 + 1]
  BY <1>2
<1>4. EdgeColours(f, j) = IF o = 0 THEN EdgeColor[n] ELSE Swapped(EdgeColor[n])
  <2>1. CASE o = 0
    BY <1>1, <1>3, <2>1, ColoursOfCubies DEF EdgeColours
  <2>2. CASE o = 1
    BY <1>3, <2>2 DEF EdgeColours, Swapped
  <2> QED BY <1>1, <2>1, <2>2
<1>5. Swapped(Swapped(EdgeColor[n])) = EdgeColor[n]
  BY <1>1, ColoursOfCubies DEF Swapped
<1>6. \A x \in Edges : EdgeColor[x] \in {EdgeColor[n], Swapped(EdgeColor[n])} <=> x = n
  BY <1>1, ColoursOfCubies
<1>7. EdgesLike(f, j) = {n}
  BY <1>1, <1>4, <1>5, <1>6 DEF EdgesLike
<1>8. EdgeColor[n] # EdgeColours(f, j) <=> o = 1
  BY <1>1, <1>4, ColoursOfCubies
<1> QED BY <1>7, <1>8 DEF o, n

\* The cubies are read from the facelets.
LEMMA ReadCubies ==
  ASSUME NEW c \in Cubie, NEW f, Shows(f, c)
  PROVE  ToCubieCube(f) = c
<1>1. \A j \in Corners : c.cp[j] \in 0 .. 7 /\ c.co[j] \in 0 .. 2
  BY DEF Cubie
<1>2. \A j \in Edges : c.ep[j] \in 0 .. 11 /\ c.eo[j] \in {0, 1}
  BY DEF Cubie
<1>3. \A n \in Int : Min({n}) = n
  BY LeastOf
<1>4. [j \in Corners |-> IF CornersLike(f, j) = {} THEN URF ELSE Min(CornersLike(f, j)) - 1]
        = [j \in Corners |-> c.cp[j]]
  BY <1>1, <1>3, ReadCorner DEF Shows
<1>5. [j \in Corners |-> IF CornersLike(f, j) = {} THEN 0 ELSE Orientation(f, j) % 3]
        = [j \in Corners |-> c.co[j]]
  <2>1. \A j \in Corners : Orientation(f, j) % 3 = c.co[j] /\ CornersLike(f, j) # {}
    <3>1. \A x \in 0 .. 2 : x % 3 = x
      OBVIOUS
    <3>2. \A j \in Corners : Orientation(f, j) = c.co[j] /\ CornersLike(f, j) = {c.cp[j] + 1}
      BY ReadCorner DEF Shows
    <3> QED BY <1>1, <3>1, <3>2
  <2> QED BY <2>1
<1>6. [j \in Edges |-> IF EdgesLike(f, j) = {} THEN UR ELSE Min(EdgesLike(f, j)) - 1]
        = [j \in Edges |-> c.ep[j]]
  BY <1>2, <1>3, ReadEdge DEF Shows
<1>7. [j \in Edges |-> IF \E x \in EdgesLike(f, j) : EdgeColor[x] # EdgeColours(f, j)
                       THEN 1 ELSE 0]
        = [j \in Edges |-> c.eo[j]]
  BY <1>2, ReadEdge DEF Shows
<1>8. c = [cp |-> [j \in Corners |-> c.cp[j]], co |-> [j \in Corners |-> c.co[j]],
           ep |-> [j \in Edges |-> c.ep[j]], eo |-> [j \in Edges |-> c.eo[j]]]
  BY DEF Cubie
<1> QED BY <1>4, <1>5, <1>6, <1>7, <1>8, Zenon DEF ToCubieCube

\* And the facelets from the cubies.
LEMMA FaceletOfSome ==
  \A p \in Facelet :
    \/ IsCenter(p)
    \/ \E j \in Corners, k \in 0 .. 2 : CornerFacelet[j][k + 1] = p
    \/ \E j \in Edges, k \in 0 .. 1 : EdgeFacelet[j][k + 1] = p
<1>1. \A p \in Facelet : \/ IsCenter(p)
                         \/ p \in {1, 3, 7, 9, 10, 12, 16, 18, 19, 21, 25, 27,
                              28, 30, 34, 36, 37, 39, 43, 45, 46, 48, 52, 54}
                         \/ p \in {2, 4, 6, 8, 11, 13, 15, 17, 20, 22, 24, 26,
                              29, 31, 33, 35, 38, 40, 42, 44, 47, 49, 51, 53}
  BY Enumerated DEF IsCenter
<1>2. \A p \in {1, 3, 7, 9, 10, 12, 16, 18, 19, 21, 25, 27,
         28, 30, 34, 36, 37, 39, 43, 45, 46, 48, 52, 54} :
        \E j \in Corners, k \in 0 .. 2 : CornerFacelet[j][k + 1] = p
  BY DEF CornerFacelet, Corners
<1>3. \A p \in {2, 4, 6, 8, 11, 13, 15, 17, 20, 22, 24, 26,
         29, 31, 33, 35, 38, 40, 42, 44, 47, 49, 51, 53} :
        \E j \in Edges, k \in 0 .. 1 : EdgeFacelet[j][k + 1] = p
  BY DEF EdgeFacelet, Edges
<1> QED BY <1>1, <1>2, <1>3

LEMMA ReadFacelets ==
  ASSUME NEW c \in Cubie, NEW f \in Colourings, Shows(f, c)
  PROVE  ToFaceCube(c) = f
<1> DEFINE corner(p) == {x \in Corners \X (0 .. 2) :
                           CornerFacelet[x[1]][((x[2] + c.co[x[1]]) % 3) + 1] = p}
           edge(p) == {x \in Edges \X (0 .. 1) :
                         EdgeFacelet[x[1]][((x[2] + c.eo[x[1]]) % 2) + 1] = p}
           ofCorner(p) == LET x == CHOOSE y \in corner(p) : TRUE
                          IN CornerColor[c.cp[x[1]] + 1][x[2] + 1]
           ofEdge(p) == LET x == CHOOSE y \in edge(p) : TRUE
                        IN EdgeColor[c.ep[x[1]] + 1][x[2] + 1]
           shown(p) == CASE IsCenter(p) -> FaceOf(p)
                         [] corner(p) # {} -> ofCorner(p)
                         [] edge(p) # {} -> ofEdge(p)
<1>1. ASSUME NEW p \in Facelet, corner(p) # {} PROVE ofCorner(p) = f[p]
  <2> DEFINE x == CHOOSE y \in corner(p) : TRUE
  <2>1. x \in corner(p)
    BY <1>1
  <2> HIDE DEF x
  <2>2. /\ x[1] \in Corners /\ x[2] \in 0 .. 2
        /\ CornerFacelet[x[1]][((x[2] + c.co[x[1]]) % 3) + 1] = p
    BY <2>1
  <2>3. CornerColor[c.cp[x[1]] + 1][x[2] + 1] = f[p]
    BY <2>2 DEF Shows, ShowsCorners
  <2> QED BY <2>3 DEF x
<1>2. ASSUME NEW p \in Facelet, edge(p) # {} PROVE ofEdge(p) = f[p]
  <2> DEFINE x == CHOOSE y \in edge(p) : TRUE
  <2>1. x \in edge(p)
    BY <1>2
  <2> HIDE DEF x
  <2>2. /\ x[1] \in Edges /\ x[2] \in 0 .. 1
        /\ EdgeFacelet[x[1]][((x[2] + c.eo[x[1]]) % 2) + 1] = p
    BY <2>1
  <2>3. EdgeColor[c.ep[x[1]] + 1][x[2] + 1] = f[p]
    BY <2>2 DEF Shows, ShowsEdges
  <2> QED BY <2>3 DEF x
<1>3. ASSUME NEW p \in Facelet PROVE IsCenter(p) \/ corner(p) # {} \/ edge(p) # {}
  <2>1. ASSUME NEW j \in Corners, NEW k \in 0 .. 2, CornerFacelet[j][k + 1] = p
        PROVE  corner(p) # {}
    <3> DEFINE o == c.co[j]
               l == (k + (3 - o)) % 3
    <3>1. o \in 0 .. 2
      BY DEF Cubie
    <3> HIDE DEF o
    <3>2. l \in 0 .. 2 /\ (l + o) % 3 = k
      BY <3>1
    <3> HIDE DEF l
    <3>3. <<j, l>> \in Corners \X (0 .. 2) /\ CornerFacelet[j][((l + o) % 3) + 1] = p
      BY <2>1, <3>2
    <3>4. <<j, l>> \in corner(p)
      BY <3>3 DEF o
    <3> QED BY <3>4
  <2>2. ASSUME NEW j \in Edges, NEW k \in 0 .. 1, EdgeFacelet[j][k + 1] = p
        PROVE  edge(p) # {}
    <3> DEFINE o == c.eo[j]
               l == (k + (2 - o)) % 2
    <3>1. o \in 0 .. 1
      BY DEF Cubie
    <3> HIDE DEF o
    <3>2. l \in 0 .. 1 /\ (l + o) % 2 = k
      BY <3>1
    <3> HIDE DEF l
    <3>3. <<j, l>> \in Edges \X (0 .. 1) /\ EdgeFacelet[j][((l + o) % 2) + 1] = p
      BY <2>2, <3>2
    <3>4. <<j, l>> \in edge(p)
      BY <3>3 DEF o
    <3> QED BY <3>4
  <2> HIDE DEF corner, edge
  <2> QED BY <2>1, <2>2, FaceletOfSome
<1>4. \A p \in Facelet : IsCenter(p) => FaceOf(p) = f[p]
  BY DEF Shows, ShowsCenters
<1>5. ToFaceCube(c) = [p \in Facelet |-> shown(p)]
  BY Zenon DEF ToFaceCube
<1> HIDE DEF corner, edge, ofCorner, ofEdge
<1>6. \A p \in Facelet : shown(p) = f[p]
  BY <1>1, <1>2, <1>3, <1>4
<1> HIDE DEF shown
<1>7. f = [p \in Facelet |-> f[p]]
  BY DEF Colourings, Painting
<1> QED BY <1>5, <1>6, <1>7

\* The inductive invariant: what is seen of the cube are the cubies.
JoinedInv == cubies # Rotated => cubies \in Cubie /\ Shows(Seen(Solved), cubies)

LEMMA JoinedInit == CubeInit => JoinedInv
<1> SUFFICES ASSUME CubeInit PROVE JoinedInv
  OBVIOUS
<1>1. cubies = IdCube /\ Seen(Solved) = Solved
  BY DEF CubeInit, Seen, Solved
<1>2. /\ IdCube \in Cubie
      /\ \A j \in Corners : IdCube.cp[j] = j - 1 /\ IdCube.co[j] = 0
      /\ \A j \in Edges : IdCube.ep[j] = j - 1 /\ IdCube.eo[j] = 0
  BY DEF IdCube, NoTwist, NoFlip, Cubie, Corners, Edges
<1>3. \A j \in Corners : \A k \in 1 .. 3 : Solved[CornerFacelet[j][k]] = CornerColor[j][k]
  BY DEF Corners, CornerFacelet, CornerColor, Solved, FaceOf, Facelet, U_, R_, F_, D_, L_, B_
<1>4. \A j \in Edges : \A k \in 1 .. 2 : Solved[EdgeFacelet[j][k]] = EdgeColor[j][k]
  BY DEF Edges, EdgeFacelet, EdgeColor, Solved, FaceOf, Facelet, U_, R_, F_, D_, L_, B_
<1>5. ASSUME NEW j \in Corners, NEW k \in 0 .. 2
      PROVE  Solved[CornerFacelet[j][((k + IdCube.co[j]) % 3) + 1]]
               = CornerColor[IdCube.cp[j] + 1][k + 1]
  <2>1. IdCube.co[j] = 0 /\ IdCube.cp[j] + 1 = j
    BY <1>2 DEF Corners
  <2>2. (k + 0) % 3 = k /\ k + 1 \in 1 .. 3
    OBVIOUS
  <2>3. Solved[CornerFacelet[j][k + 1]] = CornerColor[j][k + 1]
    BY <1>3, <2>2
  <2> QED BY <2>1, <2>2, <2>3
<1>6. ASSUME NEW j \in Edges, NEW k \in 0 .. 1
      PROVE  Solved[EdgeFacelet[j][((k + IdCube.eo[j]) % 2) + 1]]
               = EdgeColor[IdCube.ep[j] + 1][k + 1]
  <2>1. IdCube.eo[j] = 0 /\ IdCube.ep[j] + 1 = j
    BY <1>2 DEF Edges
  <2>2. (k + 0) % 2 = k /\ k + 1 \in 1 .. 2
    OBVIOUS
  <2>3. Solved[EdgeFacelet[j][k + 1]] = EdgeColor[j][k + 1]
    BY <1>4, <2>2
  <2> QED BY <2>1, <2>2, <2>3
<1>7. ShowsCenters(Solved)
  BY DEF ShowsCenters, Solved
<1>8. ShowsCorners(Solved, IdCube) /\ ShowsEdges(Solved, IdCube)
  BY <1>5, <1>6 DEF ShowsCorners, ShowsEdges
<1> QED BY <1>1, <1>2, <1>7, <1>8 DEF JoinedInv, Shows

LEMMA JoinedStep ==
  ASSUME JoinedInv, NEW turn \in Turnings, TurnAll(turn), Whole(cube)
  PROVE  JoinedInv'
<1>1. cube' = TurnFace(cube, turn)
  BY DEF TurnAll, Use, TurnFace
<1>2. Seen(Solved)' = TurnFace(Seen(Solved), turn)
  <2> DEFINE m == MovesTable[turn[1] + 1][turn[2]]
  <2>1. m \in [Facelet -> Facelet]
    BY TableOfTurn DEF Turnings
  <2>2. Seen(Solved)' = [p \in Facelet |-> Solved[cube'[p]]]
    BY DEF Seen
  <2>3. Seen(Solved) = [p \in Facelet |-> Solved[cube[p]]]
    BY DEF Seen
  <2>4. cube' = [p \in Facelet |-> cube[m[p]]]
    BY <1>1 DEF TurnFace, MakeMove
  <2>5. TurnFace(Seen(Solved), turn) = [p \in Facelet |-> Seen(Solved)[m[p]]]
    BY DEF TurnFace, MakeMove
  <2> HIDE DEF m
  <2> QED BY <2>1, <2>2, <2>3, <2>4, <2>5
<1>3. CASE cubies = Rotated
  BY <1>3 DEF TurnAll, JoinedInv
<1>4. CASE cubies # Rotated
  <2>1. cubies' = TurnCubies(cubies, turn)
    BY <1>4 DEF TurnAll
  <2>2. cubies \in Cubie /\ Shows(Seen(Solved), cubies)
    BY <1>4 DEF JoinedInv
  <2>3. cubies' \in Cubie /\ Shows(TurnFace(Seen(Solved), turn), cubies')
    BY <2>1, <2>2, CubiesFollow
  <2>4. ShowsCorners(Seen(Solved), cubies)'
    BY <1>2, <2>3 DEF Shows, ShowsCorners
  <2>5. ShowsEdges(Seen(Solved), cubies)'
    BY <1>2, <2>3 DEF Shows, ShowsEdges
  <2>6. ShowsCenters(Seen(Solved))'
    BY <1>2, <2>3 DEF Shows, ShowsCenters
  <2> QED BY <2>3, <2>4, <2>5, <2>6 DEF JoinedInv, Shows
<1> QED BY <1>3, <1>4

LEMMA JoinedNext == CubeIInv /\ JoinedInv /\ [CubeNext]_cubeVars => JoinedInv'
<1> SUFFICES ASSUME CubeIInv, JoinedInv, [CubeNext]_cubeVars PROVE JoinedInv'
  OBVIOUS
<1>1. ASSUME NEW face \in FaceSet, NEW times \in 1 .. 3, Turn(face, times) PROVE JoinedInv'
  <2>1. <<face, times>> \in Turnings
    BY DEF Turnings
  <2> QED BY <1>1, <2>1, JoinedStep DEF Turn, CubeIInv
<1>2. CASE Rotate
  BY <1>2 DEF Rotate, JoinedInv
<1>3. CASE Play
  BY <1>3, PlayTurns, JoinedStep DEF Play, CubeIInv
<1>4. CASE UNCHANGED cubeVars
  <2>1. cube' = cube /\ cubies' = cubies
    BY <1>4 DEF cubeVars
  <2>2. Seen(Solved)' = Seen(Solved)
    BY <2>1 DEF Seen
  <2>3. ShowsCorners(Seen(Solved), cubies)' <=> ShowsCorners(Seen(Solved), cubies)
    BY <2>1, <2>2 DEF ShowsCorners
  <2>4. ShowsEdges(Seen(Solved), cubies)' <=> ShowsEdges(Seen(Solved), cubies)
    BY <2>1, <2>2 DEF ShowsEdges
  <2>5. ShowsCenters(Seen(Solved))' <=> ShowsCenters(Seen(Solved))
    BY <2>2 DEF ShowsCenters
  <2> QED BY <2>1, <2>3, <2>4, <2>5 DEF JoinedInv, Shows
<1> QED BY <1>1, <1>2, <1>3, <1>4 DEF CubeNext

\* After any number of turns the facelets, turned by the tables of
\* threaded_solver2.cpp, and the cubies, turned by the arrays of cubiecube.h, are
\* one cube, and facecube.h reads each from the other.
THEOREM CubiesAgreeCorrect == CubeSpec => []CubiesAgree
<1>1. CubeIInv /\ JoinedInv => CubiesAgree
  <2> SUFFICES ASSUME CubeIInv, JoinedInv, cubies # Rotated
               PROVE  ToCubieCube(Seen(Solved)) = cubies /\ ToFaceCube(cubies) = Seen(Solved)
    BY DEF CubiesAgree
  <2>1. cubies \in Cubie /\ Shows(Seen(Solved), cubies)
    BY DEF JoinedInv
  <2>2. Seen(Solved) \in Colourings
    BY SolvedType DEF Seen, CubeIInv, Whole, Colourings, Painting
  <2> QED BY <2>1, <2>2, ReadCubies, ReadFacelets
<1> QED BY <1>1, JoinedInit, JoinedNext, SpecCubeIInv, PTL DEF CubeSpec
=============================================================================
