--------------------------- MODULE ThreadedSolver ---------------------------
(***************************************************************************)
(* cubedriver/threaded_solver2.cpp: a pool of search threads.  Every       *)
(* worker starts the search from a different first move or orientation of  *)
(* the cube, and solve() returns the solution that turns fastest.          *)
(*                                                                         *)
(* Each worker has a mutex m and one condition variable cv, used in both   *)
(* directions.  A worker keeps m locked during its whole search, while the *)
(* caller's critical sections contain no blocking call: they are atomic    *)
(* here, and m is held across steps exactly when its worker is searching.  *)
(***************************************************************************)
EXTENDS Integers, FiniteSets

CONSTANTS
  MaxWorkers,  \* the number of entries of allMoves: the limit of start()
  Cube,        \* the cube states a caller may ask to solve
  NoCube,      \* what a text that solves nothing is a solution of
  MaxTime,     \* bound on the turning time of a found solution
  PrefixTime,  \* turning time of worker w's prefix move, 0 without a prefix
  FailuresBeatTarget \* whether the time to notice a failure may be under targetMS:
               \* a timeout takes 1000 ms and 66 ms more are charged for the
               \* camera, so FALSE stands for valid cubes and targets <= 1066

Worker == 0 .. MaxWorkers - 1

ASSUME WorkersAssumption == MaxWorkers \in Nat \ {0}
ASSUME CubeAssumption == NoCube \notin Cube
ASSUME FlagAssumption == FailuresBeatTarget \in BOOLEAN
ASSUME TimeAssumption ==
  MaxTime \in Nat \ {0} /\ PrefixTime \in [Worker -> 0 .. MaxTime]

VARIABLES
  \* PerThread, one of each per worker
  inputReady, die, cubeState, outputReady, solution, error,
  cvWait,      \* cvWait[w]: which of "main" and "worker" block in w's cv
  wpc,         \* where worker w is in tfunc; "none": there is no such thread
  \* ThreadedSolver
  numThreads,  \* perThread_.size()
  doneSized,   \* doneThreads_ is not empty
  doneThreads, \* the indices whose entry in doneThreads_ is true
  lastSolutionIndex,
  \* the calling thread
  pc, i, allDone,
  request,     \* the state argument of the current or last call of solve()
  afterDrain,  \* where waitUntilAllDone() returns to
  ret          \* what the last call returned or threw, "none" during a call

threadVars == <<inputReady, die, cubeState, outputReady, solution, error>>
mainVars == <<numThreads, doneSized, doneThreads, lastSolutionIndex, pc, i,
              allDone, request, afterDrain, ret>>
vars == <<threadVars, cvWait, wpc, mainVars>>

(***************************************************************************)
(* Texts of moves, reduced to the cube they solve and the time they take.  *)
(***************************************************************************)
Text == [cube : Cube \cup {NoCube}, time : 0 .. MaxTime]
Empty == [cube |-> NoCube, time |-> 0]
Found(c) == [cube : {c}, time : 1 .. MaxTime]

\* What solve() makes of worker w's raw solution: the prefix is prepended even
\* when the search failed and left the raw solution empty.
Sol(w) == IF solution[w] = Empty
          THEN [cube |-> NoCube, time |-> PrefixTime[w]]
          ELSE solution[w]

Active == 0 .. numThreads - 1

\* perThread_[w]->m is free.
Unlocked(w) == wpc[w] # "search"

\* Mutant: the notification is forgotten.
NotifyNobody(w) == UNCHANGED cvWait

\* cv.notify_one() on w's condition variable
NotifyOne(w) ==
  \/ cvWait[w] = {} /\ UNCHANGED cvWait
  \/ \E t \in cvWait[w] : cvWait' = [cvWait EXCEPT ![w] = @ \ {t}]

\* The members of a new PerThread, one for every worker.
Fresh(ir, d, cs, o, sol, err, cv) ==
  /\ ir = [w \in Worker |-> FALSE]
  /\ d = [w \in Worker |-> FALSE]
  /\ cs = [w \in Worker |-> NoCube]
  /\ o = [w \in Worker |-> FALSE]
  /\ sol = [w \in Worker |-> Empty]
  /\ err = [w \in Worker |-> FALSE]
  /\ cv = [w \in Worker |-> {}]

Init ==
  /\ Fresh(inputReady, die, cubeState, outputReady, solution, error, cvWait)
  /\ wpc = [w \in Worker |-> "none"]
  /\ numThreads = 0
  /\ doneSized = FALSE
  /\ doneThreads = {}
  /\ lastSolutionIndex = -1
  /\ pc = "idle" /\ i = 0 /\ allDone = FALSE
  /\ request = NoCube /\ afterDrain = "idle"
  /\ ret = [kind |-> "none", sol |-> Empty]

-----------------------------------------------------------------------------
(***************************************************************************)
(* The worker thread, PerThread::tfunc().                                  *)
(***************************************************************************)

\* while( !die ): die is read without the mutex, a data race with stop(), so
\* a set flag may also be read as still clear.
WTop(w) ==
  /\ wpc[w] = "top"
  /\ \/ wpc' = [wpc EXCEPT ![w] = "lock"]
     \/ die[w] /\ wpc' = [wpc EXCEPT ![w] = "exited"]
  /\ UNCHANGED <<threadVars, cvWait, mainVars>>

\* With m locked and no input, cv.wait() releases m and blocks.
WWait(w) ==
  /\ wpc[w] = "lock"
  /\ ~inputReady[w]
  /\ cvWait' = [cvWait EXCEPT ![w] = @ \cup {"worker"}]
  /\ wpc' = [wpc EXCEPT ![w] = "waiting"]
  /\ UNCHANGED <<threadVars, mainVars>>

\* With input, the worker leaves the loop or starts a search, m still locked.
WTake(w) ==
  /\ wpc[w] = "lock"
  /\ inputReady[w]
  /\ inputReady' = [inputReady EXCEPT ![w] = FALSE]
  /\ IF die[w]
     THEN /\ wpc' = [wpc EXCEPT ![w] = "exited"]
          /\ UNCHANGED <<solution, error>>
     ELSE /\ wpc' = [wpc EXCEPT ![w] = "search"]
          /\ solution' = [solution EXCEPT ![w] = Empty]
          /\ error' = [error EXCEPT ![w] = FALSE]
  /\ UNCHANGED <<die, cubeState, outputReady, cvWait, mainVars>>

\* The wait ends: a notification removed the worker from the wait set.
WWake(w) ==
  /\ wpc[w] = "waiting"
  /\ "worker" \notin cvWait[w]
  /\ wpc' = [wpc EXCEPT ![w] = "lock"]
  /\ UNCHANGED <<threadVars, cvWait, mainVars>>

\* A condition variable may also wake up for no reason.
WSpurious(w) ==
  /\ wpc[w] = "waiting"
  /\ "worker" \in cvWait[w]
  /\ cvWait' = [cvWait EXCEPT ![w] = @ \ {"worker"}]
  /\ wpc' = [wpc EXCEPT ![w] = "lock"]
  /\ UNCHANGED <<threadVars, mainVars>>

\* search.solution() returns, or throws after 1000 ms or at depth 24; m is
\* unlocked before the notification.
WSearchEnds(w) ==
  /\ wpc[w] = "search"
  /\ \/ \E s \in Found(cubeState[w]) :
          /\ solution' = [solution EXCEPT ![w] = s]
          /\ UNCHANGED error
     \/ /\ error' = [error EXCEPT ![w] = TRUE]
        /\ UNCHANGED solution
  /\ outputReady' = [outputReady EXCEPT ![w] = TRUE]
  /\ wpc' = [wpc EXCEPT ![w] = "notify"]
  /\ UNCHANGED <<inputReady, die, cubeState, cvWait, mainVars>>
\* Mutant: the worker goes back to its loop without notifying.
WNotifyForgotten(w) ==
  /\ wpc[w] = "notify"
  /\ wpc' = [wpc EXCEPT ![w] = "top"]
  /\ UNCHANGED <<threadVars, cvWait, mainVars>>

WNotify(w) ==
  /\ wpc[w] = "notify"
  /\ NotifyOne(w)
  /\ wpc' = [wpc EXCEPT ![w] = "top"]
  /\ UNCHANGED <<threadVars, mainVars>>

WorkerStep(w) ==
  \/ WTop(w) \/ WWait(w) \/ WTake(w) \/ WWake(w) \/ WSearchEnds(w) \/ WNotify(w)

-----------------------------------------------------------------------------
(***************************************************************************)
(* The calling thread.  pc names the place: "post" and "postNotify" hand   *)
(* out the state, "poll", "pollWait" and "repoll" are the timed waits,     *)
(* "pick" the final choice; "drain" and "drainWait" are waitUntilAllDone();*)
(* "stop", "stopNotify" and "join" are stop().                             *)
(***************************************************************************)

Returns(kind, sol) == pc' = "idle" /\ ret' = [kind |-> kind, sol |-> sol]
Enters(place) == pc' = place /\ i' = 0 /\ ret' = [kind |-> "none", sol |-> Empty]

\* The part of solve() after the threads of the call before are waited for.
BeginSolve ==
  \/ numThreads = 0 /\ Returns("error", Empty) /\ i' = 0
  \/ numThreads # 0 /\ Enters("post")

MStart(n) ==
  /\ pc = "idle"
  /\ IF numThreads # 0
     THEN /\ Returns("error", Empty)
          /\ UNCHANGED <<wpc, numThreads, doneSized, doneThreads>>
     ELSE /\ Returns("none", Empty)
          /\ numThreads' = n
          /\ doneSized' = FALSE /\ doneThreads' = {}
          /\ wpc' = [w \in Worker |-> IF w < n THEN "top" ELSE "none"]
  /\ UNCHANGED <<threadVars, cvWait, lastSolutionIndex, i, allDone, request, afterDrain>>
\* Mutant: solve() does not wait for the threads of an earlier call.
MSolveAtOnce(c) ==
  /\ pc = "idle"
  /\ request' = c
  /\ BeginSolve
  /\ UNCHANGED <<threadVars, cvWait, wpc, numThreads, doneSized, doneThreads,
                 lastSolutionIndex, allDone, afterDrain>>

MSolve(c) ==
  /\ pc = "idle"
  /\ request' = c
  /\ IF doneSized
     THEN Enters("drain") /\ afterDrain' = "post"
     ELSE BeginSolve /\ UNCHANGED afterDrain
  /\ UNCHANGED <<threadVars, cvWait, wpc, numThreads, doneSized, doneThreads,
                 lastSolutionIndex, allDone>>
\* Mutant: outputReady is not reset.
MPostKeepsOutput ==
  /\ pc = "post" /\ Unlocked(i)
  /\ cubeState' = [cubeState EXCEPT ![i] = request]
  /\ inputReady' = [inputReady EXCEPT ![i] = TRUE]
  /\ pc' = "postNotify"
  /\ UNCHANGED <<die, outputReady, solution, error, cvWait, wpc, numThreads,
                 doneSized, doneThreads, lastSolutionIndex, i, allDone, request,
                 afterDrain, ret>>

MPost ==
  /\ pc = "post" /\ Unlocked(i)
  /\ cubeState' = [cubeState EXCEPT ![i] = request]
  /\ inputReady' = [inputReady EXCEPT ![i] = TRUE]
  /\ outputReady' = [outputReady EXCEPT ![i] = FALSE]
  /\ pc' = "postNotify"
  /\ UNCHANGED <<die, solution, error, cvWait, wpc, numThreads, doneSized,
                 doneThreads, lastSolutionIndex, i, allDone, request, afterDrain, ret>>

\* After the last worker, doneThreads_.resize(n, false) adds the entries it
\* lacks and keeps those it has.
MPostNotify ==
  /\ pc = "postNotify"
  /\ NotifyOne(i)
  /\ IF i + 1 < numThreads
     THEN pc' = "post" /\ i' = i + 1 /\ UNCHANGED <<doneSized, allDone>>
     ELSE pc' = "poll" /\ i' = 0 /\ doneSized' = TRUE /\ allDone' = TRUE
  /\ UNCHANGED <<threadVars, wpc, numThreads, doneThreads, lastSolutionIndex,
                 request, afterDrain, ret>>

\* Mutant: a thread that timed out does not clear allDone.
NextPollOnce(done) ==
  \/ /\ i + 1 < numThreads
     /\ pc' = "poll" /\ i' = i + 1 /\ UNCHANGED allDone
  \/ /\ i + 1 = numThreads
     /\ pc' = "pick" /\ i' = 0 /\ allDone' = TRUE

\* The next turn of the polling loops, once i has been looked at.
NextPoll(done) ==
  \/ /\ i + 1 < numThreads
     /\ pc' = "poll" /\ i' = i + 1 /\ allDone' = done
  \/ /\ i + 1 = numThreads
     /\ pc' = IF done THEN "pick" ELSE "poll"
     /\ i' = 0 /\ allDone' = TRUE

MPollSkip ==
  /\ pc = "poll" /\ i \in doneThreads
  /\ NextPoll(allDone)
  /\ UNCHANGED <<threadVars, cvWait, wpc, numThreads, doneSized, doneThreads,
                 lastSolutionIndex, request, afterDrain, ret>>

\* The predicate of wait_for holds: take i's solution if thinking and turning
\* together beat the target time (the clock may say either).
MPollReady ==
  /\ \/ pc = "poll" /\ i \notin doneThreads
     \/ pc = "repoll"
  /\ Unlocked(i) /\ outputReady[i]
  /\ doneThreads' = doneThreads \cup {i}
  /\ \/ /\ ~error[i] \/ FailuresBeatTarget
        /\ Returns("solution", Sol(i))
        /\ lastSolutionIndex' = i
        /\ i' = 0 /\ UNCHANGED allDone
     \/ NextPoll(allDone) /\ UNCHANGED <<lastSolutionIndex, ret>>
  /\ UNCHANGED <<threadVars, cvWait, wpc, numThreads, doneSized, request, afterDrain>>

\* The predicate does not hold: block, releasing m.
MPollBlock ==
  /\ \/ pc = "poll" /\ i \notin doneThreads
     \/ pc = "repoll"
  /\ Unlocked(i) /\ ~outputReady[i]
  /\ cvWait' = [cvWait EXCEPT ![i] = @ \cup {"main"}]
  /\ pc' = "pollWait"
  /\ UNCHANGED <<threadVars, wpc, numThreads, doneSized, doneThreads,
                 lastSolutionIndex, i, allDone, request, afterDrain, ret>>

\* Woken by a notification, for no reason or by the timeout of 1 microsecond.
MPollWake ==
  /\ pc = "pollWait"
  /\ cvWait' = [cvWait EXCEPT ![i] = @ \ {"main"}]
  /\ pc' = "repoll"
  /\ UNCHANGED <<threadVars, wpc, numThreads, doneSized, doneThreads,
                 lastSolutionIndex, i, allDone, request, afterDrain, ret>>

\* The time is over and the predicate, with m locked again, is still false.
MPollTimeout ==
  /\ pc = "repoll" /\ Unlocked(i) /\ ~outputReady[i]
  /\ NextPoll(FALSE)
  /\ UNCHANGED <<threadVars, cvWait, wpc, numThreads, doneSized, doneThreads,
                 lastSolutionIndex, request, afterDrain, ret>>

\* Mutant: the comparison of the turning times is the wrong way round.
Longest(w) ==
  \A v \in Active :
    Sol(w).time > Sol(v).time \/ (Sol(w).time = Sol(v).time /\ w <= v)

\* w is the first worker, in index order, among those whose text turns fastest.
Shortest(w) ==
  \A v \in Active :
    Sol(w).time < Sol(v).time \/ (Sol(w).time = Sol(v).time /\ w <= v)

\* The choice after all threads are done.  Solutions are read without their
\* mutex, in one step here: NoPickRace shows that nobody writes them.
MPick ==
  /\ pc = "pick"
  /\ \E w \in Active :
       /\ Shortest(w)
       /\ lastSolutionIndex' = w
       /\ IF Sol(w) = Empty
          THEN Returns("error", Empty)
          ELSE Returns("solution", Sol(w))
  /\ UNCHANGED <<threadVars, cvWait, wpc, numThreads, doneSized, doneThreads,
                 i, allDone, request, afterDrain>>

MWaitUntilAllDone ==
  /\ pc = "idle"
  /\ IF doneSized
     THEN Enters("drain") /\ afterDrain' = "idle"
     ELSE Returns("none", Empty) /\ UNCHANGED <<i, afterDrain>>
  /\ UNCHANGED <<threadVars, cvWait, wpc, numThreads, doneSized, doneThreads,
                 lastSolutionIndex, allDone, request>>

\* Worker i is done: go on with the next, and after the last return to the
\* caller of waitUntilAllDone().
MDrainNext ==
  /\ pc = "drain"
  /\ i \in doneThreads \/ (Unlocked(i) /\ outputReady[i])
  /\ IF i + 1 < numThreads
     THEN /\ pc' = "drain" /\ i' = i + 1
          /\ UNCHANGED <<doneSized, doneThreads, ret>>
     ELSE /\ doneSized' = FALSE /\ doneThreads' = {}
          /\ \/ afterDrain = "post" /\ BeginSolve
             \/ afterDrain = "idle" /\ Returns("none", Empty) /\ i' = 0
  /\ UNCHANGED <<threadVars, cvWait, wpc, numThreads, lastSolutionIndex,
                 allDone, request, afterDrain>>

MDrainBlock ==
  /\ pc = "drain" /\ i \notin doneThreads
  /\ Unlocked(i) /\ ~outputReady[i]
  /\ cvWait' = [cvWait EXCEPT ![i] = @ \cup {"main"}]
  /\ pc' = "drainWait"
  /\ UNCHANGED <<threadVars, wpc, numThreads, doneSized, doneThreads,
                 lastSolutionIndex, i, allDone, request, afterDrain, ret>>

MDrainWake ==
  /\ pc = "drainWait" /\ "main" \notin cvWait[i]
  /\ pc' = "drain"
  /\ UNCHANGED <<threadVars, cvWait, wpc, numThreads, doneSized, doneThreads,
                 lastSolutionIndex, i, allDone, request, afterDrain, ret>>

MDrainSpurious ==
  /\ pc = "drainWait" /\ "main" \in cvWait[i]
  /\ cvWait' = [cvWait EXCEPT ![i] = @ \ {"main"}]
  /\ pc' = "drain"
  /\ UNCHANGED <<threadVars, wpc, numThreads, doneSized, doneThreads,
                 lastSolutionIndex, i, allDone, request, afterDrain, ret>>

MStop ==
  /\ pc = "idle"
  /\ IF numThreads = 0
     THEN /\ Returns("none", Empty)
          /\ doneSized' = FALSE /\ doneThreads' = {} /\ UNCHANGED i
     ELSE Enters("stop") /\ UNCHANGED <<doneSized, doneThreads>>
  /\ UNCHANGED <<threadVars, cvWait, wpc, numThreads, lastSolutionIndex,
                 allDone, request, afterDrain>>

MStopPost ==
  /\ pc = "stop" /\ Unlocked(i)
  /\ die' = [die EXCEPT ![i] = TRUE]
  /\ inputReady' = [inputReady EXCEPT ![i] = TRUE]
  /\ pc' = "stopNotify"
  /\ UNCHANGED <<cubeState, outputReady, solution, error, cvWait, wpc, numThreads,
                 doneSized, doneThreads, lastSolutionIndex, i, allDone, request,
                 afterDrain, ret>>

MStopNotify ==
  /\ pc = "stopNotify"
  /\ NotifyOne(i)
  /\ IF i + 1 < numThreads THEN pc' = "stop" /\ i' = i + 1
                           ELSE pc' = "join" /\ i' = 0
  /\ UNCHANGED <<threadVars, wpc, numThreads, doneSized, doneThreads,
                 lastSolutionIndex, allDone, request, afterDrain, ret>>

\* t.join(); after the last, perThread_ and doneThreads_ are cleared.
MJoin ==
  /\ pc = "join" /\ wpc[i] = "exited"
  /\ IF i + 1 < numThreads
     THEN /\ i' = i + 1
          /\ UNCHANGED <<threadVars, cvWait, pc, ret, wpc, numThreads, doneSized, doneThreads>>
     ELSE /\ Returns("none", Empty) /\ i' = 0
          /\ Fresh(inputReady', die', cubeState', outputReady', solution', error', cvWait')
          /\ wpc' = [w \in Worker |-> "none"]
          /\ numThreads' = 0 /\ doneSized' = FALSE /\ doneThreads' = {}
  /\ UNCHANGED <<lastSolutionIndex, allDone, request, afterDrain>>

-----------------------------------------------------------------------------
\* The calls of the application and of test.cpp; nothing forces them to come.
Call ==
  \/ \E n \in 0 .. MaxWorkers : MStart(n)
  \/ \E c \in Cube : MSolve(c)
  \/ MWaitUntilAllDone
  \/ MStop

\* What a call does until it returns.
MainStep ==
  \/ MPost \/ MPostNotify
  \/ MPollSkip \/ MPollReady \/ MPollBlock \/ MPollWake \/ MPollTimeout \/ MPick
  \/ MDrainNext \/ MDrainBlock \/ MDrainWake
  \/ MStopPost \/ MStopNotify \/ MJoin

Next ==
  \/ Call \/ MainStep \/ MDrainSpurious
  \/ \E w \in Worker : WorkerStep(w) \/ WSpurious(w)

Spec == Init /\ [][Next]_vars

\* The operating system runs every thread, a search ends within its time
\* limit, and a timed wait ends; spurious wake-ups may never come.
Fairness ==
  /\ WF_vars(MainStep)
  /\ \A w \in Worker : WF_vars(WorkerStep(w))

FairSpec == Spec /\ Fairness

-----------------------------------------------------------------------------
(***************************************************************************)
(* Properties                                                              *)
(***************************************************************************)
PCs == {"idle", "post", "postNotify", "poll", "pollWait", "repoll", "pick",
        "drain", "drainWait", "stop", "stopNotify", "join"}
WPCs == {"none", "top", "lock", "waiting", "search", "notify", "exited"}

\* Every variable has its type.
TypeOK ==
  /\ inputReady \in [Worker -> BOOLEAN]
  /\ die \in [Worker -> BOOLEAN]
  /\ cubeState \in [Worker -> Cube \cup {NoCube}]
  /\ outputReady \in [Worker -> BOOLEAN]
  /\ solution \in [Worker -> Text]
  /\ error \in [Worker -> BOOLEAN]
  /\ cvWait \in [Worker -> SUBSET {"main", "worker"}]
  /\ wpc \in [Worker -> WPCs]
  /\ numThreads \in 0 .. MaxWorkers
  /\ doneSized \in BOOLEAN
  /\ doneThreads \in SUBSET Worker
  /\ lastSolutionIndex \in Worker \cup {-1}
  /\ pc \in PCs
  /\ i \in Worker
  /\ allDone \in BOOLEAN
  /\ request \in Cube \cup {NoCube}
  /\ afterDrain \in {"idle", "post"}
  /\ ret \in [kind : {"none", "error", "solution"}, sol : Text]

\* solve() reads the results of all threads without their mutex when it makes
\* its choice: then no thread is searching or has anything left to search.
NoPickRace ==
  pc = "pick" => \A w \in Active : /\ wpc[w] # "search"
                                   /\ ~inputReady[w]
                                   /\ outputReady[w]

InputsKept ==
  \A w \in Worker :
    inputReady[w] \/ wpc[w] = "search" =>
      cubeState'[w] = cubeState[w] \/ wpc'[w] = "none"

\* A thread that is told to search is never told to search something else
\* before it has finished, although solve() may return while threads still
\* search: the next solve() waits for them first.
RequestsNotOverwritten == [][InputsKept]_vars

\* A solution that solve() has returned answers the state of this call (or is
\* the text of a failed thread) and not the state of an earlier call.
AnswersTheRequest ==
  ret.kind = "solution" /\ pc = "idle" => ret.sol.cube \in {request, NoCube}

CleanRound ==
  /\ pc = "pick" \/ pc = "poll" \/ pc = "repoll"
  /\ pc' = "idle"
  /\ \A w \in Active : ~error[w]

BestAnswer ==
  /\ ret'.kind = "solution" /\ ret'.sol.cube = request
  /\ pc = "pick" => \A w \in Active : ret'.sol.time <= solution[w].time

\* When no search fails, solve() returns a solution of the state, and if it
\* waited for all threads, one that no thread's solution beats.
CleanRoundSucceeds == [][CleanRound => BestAnswer]_vars

\* No wake-up is lost: a side that sleeps although what it waits for has come
\* has a notification on its way.
NoLostWakeup ==
  \A w \in Worker :
    /\ "worker" \in cvWait[w] /\ inputReady[w] =>
         pc \in {"postNotify", "stopNotify"} /\ i = w
    /\ "main" \in cvWait[w] /\ outputReady[w] => wpc[w] = "notify"

\* waitUntilAllDone() keeps its name: when doneThreads_ is empty and the caller
\* is not inside a call, no thread works or is about to.
QuietWhenDrained ==
  pc = "idle" /\ ~doneSized =>
    \A w \in Active : wpc[w] # "search" /\ ~inputReady[w]

\* What test.cpp:63 expects of every text solve() returns: it solves the state.
ReturnedSolutionValid ==
  ret.kind = "solution" /\ pc = "idle" => ret.sol.cube = request

\* Every call returns: solve(), waitUntilAllDone() and the joins of stop().
CallsReturn == pc # "idle" ~> pc = "idle"

-----------------------------------------------------------------------------
(***************************************************************************)
(* The inductive invariant behind the safety properties.                   *)
(***************************************************************************)
Polling == {"poll", "pollWait", "repoll", "pick"}
Draining == {"drain", "drainWait"}
Stopping == {"stop", "stopNotify", "join"}

\* Worker w has nothing to do, or has finished what it was told last.
Quiet(w) == ~inputReady[w] /\ wpc[w] # "search"
Finished(w) == Quiet(w) /\ outputReady[w]
Busy(w) == ~outputReady[w] /\ (inputReady[w] \/ wpc[w] = "search")

\* w's result, or what it works on, belongs to the state being solved.
Current(w) ==
  /\ cubeState[w] = request
  /\ Finished(w) => /\ solution[w].cube \in {request, NoCube}
                    /\ ~error[w] => solution[w].cube = request /\ solution[w].time > 0

\* The state of solve() has been handed to w.
Handed(w) == Current(w) /\ (Busy(w) \/ Finished(w))

\* The caller's indices stay inside perThread_, and the threads that exist are
\* those of perThread_.
IndexInv ==
  /\ pc # "idle" => i < numThreads
  /\ numThreads = 0 => ~doneSized
  /\ ~doneSized => doneThreads = {}
  /\ doneThreads \subseteq Active
  /\ pc \in {"post", "postNotify"} => ~doneSized
  /\ pc \in Polling \cup Draining => doneSized
  /\ \A w \in Worker : wpc[w] = "none" <=> w \notin Active
  /\ \A w \in Worker : w \notin Active => ~inputReady[w]

\* No thread is told to end, or ends, before stop().
DieInv ==
  \A w \in Worker : /\ die[w] => pc \in Stopping
                    /\ wpc[w] = "exited" => die[w]

\* A search starts from an empty solution and has taken its input.
SearchInv ==
  \A w \in Worker : wpc[w] = "search" => solution[w] = Empty /\ ~inputReady[w]

\* What each phase of a call knows of the workers.
PostInv ==
  /\ pc = "post" => \A w \in Active : IF w < i THEN Handed(w) ELSE Quiet(w)
  /\ pc = "postNotify" => \A w \in Active : IF w <= i THEN Handed(w) ELSE Quiet(w)

PollInv ==
  pc \in Polling \/ (pc = "idle" /\ doneSized) =>
    \A w \in Active : Handed(w) /\ (w \in doneThreads => Finished(w))

ScanInv ==
  /\ pc \in Polling /\ allDone => \A w \in Active : w < i => w \in doneThreads
  /\ pc = "pick" => doneThreads = Active

DrainInv ==
  pc \in Draining =>
    \A w \in Active : /\ Busy(w) \/ Finished(w)
                      /\ w < i \/ w \in doneThreads => Finished(w)

\* Who sleeps in which condition variable.
WaitInv ==
  \A w \in Worker :
    /\ "worker" \in cvWait[w] => wpc[w] = "waiting"
    /\ "main" \in cvWait[w] => pc \in {"pollWait", "drainWait"} /\ i = w

IInv ==
  /\ TypeOK /\ IndexInv /\ DieInv /\ WaitInv /\ NoLostWakeup
  /\ SearchInv /\ PostInv /\ PollInv /\ ScanInv /\ DrainInv
  /\ QuietWhenDrained /\ AnswersTheRequest

=============================================================================
