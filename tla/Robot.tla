-------------------------------- MODULE Robot --------------------------------
(***************************************************************************)
(* The event loop of cubedriver/cubedriver.cpp with the board at the other *)
(* end of its serial line, a cube and a camera: the programs that are      *)
(* played to the board, the solutions computed from what the camera shows, *)
(* the armed automatic solve with its 10 s abort, and the calibration.     *)
(*                                                                         *)
(* One thread runs loop(); phase says where it is.  The board, the camera  *)
(* and the clock act between any two of its steps.  A string of motor      *)
(* commands is a sequence of bytes; "333[" is two bytes here, "]]]]" two,  *)
(* and the four bytes of URF_ and of UFL_ are one.                         *)
(***************************************************************************)
EXTENDS Firmware, Integers

CONSTANTS
  Solved,      \* the solved cube
  Unknown,     \* faceletStates when some facelet is -1 or the cube impossible
  Solution,    \* Solution[c]: translateMoves of what solve() returns for c
  SolverFails, \* whether solve() may throw, too
  Glare,       \* whether a still cube may be read as Unknown
  Moves,       \* the command strings of F3 - F6, F8, F9, F11 and F12
  Rotation,    \* Rotation[n]: the n-th command string of the calibration
  CalState,    \* CalState[n]: calibrationStates[n - 1] as a cube
  Shown,       \* Shown[c][f]: the colour that face f of c shows
  CalFile,     \* the calibrations that may have been saved
  CalSpeed, SolveSpeed,
  Keys,        \* the keys pressed in this instance
  Resets,      \* whether the board may be reset
  MaxWire      \* bound on the bytes in the line when a key that adds is pressed

Colour == UNION {{Shown[c][f] : f \in DOMAIN Shown[c]} : c \in Cube}
Face == UNION {DOMAIN Shown[c] : c \in Cube}
Sample == {"null", "right", "wrong"}
KeyNames == {"F1", "F2", "moves", "F7", "F10", "[", "]"}

ASSUME CubeAssumption ==
  /\ Solved \in Cube /\ Unknown \notin Cube
  /\ \A c \in Cube : DOMAIN Shown[c] = Face
  /\ \A c, d \in Cube : (\A f \in Face : Shown[c][f] = Shown[d][f]) => c = d
ASSUME SolutionAssumption == Solution \in [Cube \ {Solved} -> Seq(Turn) \ {<<>>}]
ASSUME MovesAssumption == Moves \subseteq Seq(Turn) \ {<<>>}
ASSUME CalAssumption ==
  /\ Rotation \in Seq(Turn)
  /\ CalState \in Seq(Cube) /\ Len(CalState) = Len(Rotation)
  /\ CalFile \subseteq [Face -> [Colour -> Sample]]
ASSUME RobotAssumption ==
  /\ CalSpeed \in Digit /\ SolveSpeed \in Digit
  /\ Keys \subseteq KeyNames
  /\ SolverFails \in BOOLEAN /\ Glare \in BOOLEAN /\ Resets \in BOOLEAN
  /\ MaxWire \in Nat

VARIABLES
  frame,         \* the last picture taken: a cube, or Unknown if blurred
  \* App
  faceletColors, \* the picture last analysed
  faceletStates, \* what it was recognised as: prevFaceletStates
  lastSolution,
  program, programCounter, programRcvExpected, serRcv,
  timer,         \* programTimeExpected: "off", or how far the wait has got
  autoSolveArm,  \* autoSolveArmTime: "off", "armed", or "overdue" after 10 s
  elapsed,       \* elapsedSolveTime: "zero", "running" or "final"
  suspendCenters,
  cal,           \* calibrationColors: for each face and colour no sample, one of
                 \* that colour, or another one
  mismatch,      \* some entry of validateCalMismatch is true
  phase,         \* where loop() is
  call,          \* "none", or the argument of the call of continueProgram:
                 \* "running" or "waking"
  \* history
  clean,         \* the line was quiet when a program began, and since then
                 \* only programs that ended well have written to it
  lost           \* the board was reset

runVars == <<program, programCounter, programRcvExpected, serRcv, timer>>
seenVars == <<faceletColors, faceletStates, lastSolution>>
calVars == <<suspendCenters, cal, mismatch>>
armVars == <<autoSolveArm, elapsed>>
history == <<clean, lost>>
hostVars == <<seenVars, runVars, armVars, calVars, phase, call, history>>
vars == <<boardVars, frame, hostVars>>

(***************************************************************************)
(* Programs.                                                               *)
(***************************************************************************)
Inst(op, str, n) == [op |-> op, str |-> str, n |-> n]
Say(str) == <<Inst("Send", str, 0), Inst("Expect", str, 0)>>
Wait == <<Inst("WaitMicros", <<>>, 0)>>
On(s) == <<s, "[">>
Off == <<"]", "]">>

MovesProgram(cmds) ==
  Say(On(CalSpeed)) \o Wait \o Say(cmds) \o Wait \o Say(Off)

\* Mutant of AutoSolveProgram: the motors are left on.
LeavesMotorsOn(cmds) ==
  Say(On(SolveSpeed)) \o Say(cmds) \o <<Inst("Solved", <<>>, 0)>> \o Wait

AutoSolveProgram(cmds) ==
  Say(On(SolveSpeed)) \o Say(cmds) \o <<Inst("Solved", <<>>, 0)>> \o Wait
    \o Say(Off)

\* getCalibrationProgram and getCalibrationTestProgram: op in every state.
CalRounds(op) ==
  [k \in 1 .. 4 * Len(Rotation) |->
     LET n == ((k - 1) \div 4) + 1
     IN (<<Inst(op, <<>>, n)>> \o Say(<<Rotation[n]>>) \o Wait)[((k - 1) % 4) + 1]]
CalProgram(op) ==
  Say(On(CalSpeed)) \o Wait \o CalRounds(op) \o <<Inst("SaveCal", <<>>, 0)>>
    \o Say(Off)

IsRunning == programCounter <= Len(program)
Current == program[programCounter]

-----------------------------------------------------------------------------
RobotTypeOK ==
  /\ BoardTypeOK
  /\ frame \in Cube \cup {Unknown}
  /\ faceletColors \in Cube \cup {Unknown}
  /\ faceletStates \in Cube \cup {Unknown}
  /\ lastSolution \in Seq(Turn)
  /\ programCounter \in 1 .. Len(program) + 1
  /\ programRcvExpected \in Seq(Byte)
  /\ serRcv \in Seq(Said)
  /\ timer \in {"off", "set", "shot", "analysed", "due"}
  /\ autoSolveArm \in {"off", "armed", "overdue"}
  /\ elapsed \in {"zero", "running", "final"}
  /\ cal \in [Face -> [Colour -> Sample]]
  /\ {suspendCenters, mismatch, clean, lost} \subseteq BOOLEAN
  /\ phase \in {"read", "analyse", "auto", "abort", "event", "program"}
  /\ call \in {"none", "running", "waking"}

\* The start of loop().  The greeting of the board may still be unread.
Init ==
  /\ BoardInit
  /\ frame = Unknown /\ faceletColors = Unknown /\ faceletStates = Unknown
  /\ lastSolution = <<>>
  /\ program = <<>> /\ programCounter = 1
  /\ programRcvExpected = <<>> /\ serRcv = <<>>
  /\ timer = "off"
  /\ autoSolveArm = "off" /\ elapsed = "zero"
  /\ suspendCenters = FALSE /\ mismatch = FALSE
  /\ cal \in CalFile
  /\ phase = "read" /\ call = "none"
  /\ clean = FALSE /\ lost = FALSE

\* The next thing loop() does: its last part is continueProgram(false).
Goto(p) ==
  /\ phase' = p
  /\ call' = IF p = "program" THEN "waking" ELSE "none"

\* Nothing is on its way, and the last pictures show the cube as it is.
Quiet ==
  /\ toBoard = <<>> /\ toHost = <<>>
  /\ doing \notin Turn
  /\ {frame, faceletColors} \subseteq {cube, Unknown}

\* runProgram(pgm): ignored while another program runs.
RunProgram(pgm) ==
  IF IsRunning
  THEN Goto("program") /\ UNCHANGED <<runVars, history>>
  ELSE /\ program' = pgm
       /\ programCounter' = 1
       /\ call' = "running"
       /\ clean' = (clean \/ Quiet)
       /\ UNCHANGED <<programRcvExpected, serRcv, timer, phase, lost>>

(***************************************************************************)
(* loop(), up to the program.                                              *)
(***************************************************************************)
\* serRcv += ser->read()
ReadSerial ==
  /\ phase = "read"
  /\ serRcv' = serRcv \o toHost
  /\ toHost' = <<>>
  /\ Goto("analyse")
  /\ UNCHANGED <<toBoard, doing, enabled, motorsOnEh, speed, cube, frame,
                 seenVars, program, programCounter, programRcvExpected, timer,
                 armVars, calVars, history>>

\* findClosestCalibrationColor: what face f may be taken for when it shows colour k.
\* Where all samples are right the one of k is the nearest; if it is not there, or
\* another one is wrong, any of them may be.
Closest(f, k) ==
  LET samples == {c \in Colour : cal[f][c] # "null"}
  IN IF k \in samples /\ \A c \in samples : cal[f][c] = "right" THEN {k} ELSE samples

\* What a picture may be recognised as, face by face.  Where it shows no possible
\* cube, or a face is like no sample, the states are Unknown.
Recognised(picture) ==
  IF picture = Unknown THEN {Unknown}
  ELSE LET seen == [f \in Face |-> Closest(f, Shown[picture][f])]
       IN {c \in Cube : \A f \in Face : Shown[c][f] \in seen[f]}
            \cup (IF \A f \in Face : seen[f] = {Shown[picture][f]} THEN {} ELSE {Unknown})

\* The solutions lastSolution can get for facelet states s.
Answers(s) ==
  IF s \in {Solved, Unknown} THEN {<<>>}
  ELSE {Solution[s]} \cup (IF SolverFails THEN {<<>>} ELSE {})

\* Mutant of Analyse: the old solution is kept when the cube is not recognised.
AnalyseKeepsSolution ==
  /\ phase = "analyse"
  /\ faceletColors' = frame
  /\ faceletStates' \in Recognised(frame) \cup (IF Glare THEN {Unknown} ELSE {})
  /\ IF faceletStates' \in {faceletStates, Unknown} THEN UNCHANGED lastSolution
     ELSE lastSolution' \in Answers(faceletStates')
  /\ timer' = IF timer = "shot" THEN "analysed" ELSE timer
  /\ Goto("auto")
  /\ UNCHANGED <<boardVars, frame, program, programCounter,
                 programRcvExpected, serRcv, armVars, calVars, history>>

\* analyzeColors: a new solution is computed only when the states change.
Analyse ==
  /\ phase = "analyse"
  /\ faceletColors' = frame
  /\ faceletStates' \in Recognised(frame) \cup (IF Glare THEN {Unknown} ELSE {})
  /\ IF faceletStates' = faceletStates THEN UNCHANGED lastSolution
     ELSE lastSolution' \in Answers(faceletStates')
  /\ timer' = IF timer = "shot" THEN "analysed" ELSE timer
  /\ Goto("auto")
  /\ UNCHANGED <<boardVars, frame, program, programCounter,
                 programRcvExpected, serRcv, armVars, calVars, history>>

\* The end of analyzeColors: an armed robot starts as soon as it can.
AutoSolve ==
  /\ phase = "auto" /\ call = "none"
  /\ IF autoSolveArm # "off" /\ ~IsRunning /\ lastSolution # <<>>
     THEN RunProgram(AutoSolveProgram(lastSolution))
     ELSE Goto("abort") /\ UNCHANGED <<runVars, history>>
  /\ UNCHANGED <<boardVars, frame, seenVars, armVars, calVars>>

\* Mutants of Abort: only a running program is aborted; the motors are not told.
AbortIfRunning ==
  /\ phase = "abort"
  /\ IF autoSolveArm = "overdue" /\ IsRunning
     THEN /\ autoSolveArm' = "off"
          /\ program' = <<>> /\ programCounter' = 1
          /\ programRcvExpected' = <<>> /\ timer' = "off"
          /\ serRcv' = <<>>
          /\ toBoard' = toBoard \o Off
          /\ clean' = FALSE /\ UNCHANGED lost
     ELSE UNCHANGED <<autoSolveArm, runVars, toBoard, history>>
  /\ Goto("event")
  /\ UNCHANGED <<toHost, doing, enabled, motorsOnEh, speed, cube, frame,
                 seenVars, elapsed, calVars>>
AbortSilently ==
  /\ phase = "abort"
  /\ IF autoSolveArm = "overdue"
     THEN /\ autoSolveArm' = "off"
          /\ program' = <<>> /\ programCounter' = 1
          /\ programRcvExpected' = <<>> /\ timer' = "off"
          /\ serRcv' = <<>>
          /\ clean' = FALSE /\ UNCHANGED lost
     ELSE UNCHANGED <<autoSolveArm, runVars, history>>
  /\ Goto("event")
  /\ UNCHANGED <<boardVars, frame, seenVars, elapsed, calVars>>

\* The safety disable, 10 s after arming.
Abort ==
  /\ phase = "abort"
  /\ IF autoSolveArm = "overdue"
     THEN /\ autoSolveArm' = "off"
          /\ program' = <<>> /\ programCounter' = 1
          /\ programRcvExpected' = <<>> /\ timer' = "off"
          /\ serRcv' = <<>>
          /\ toBoard' = toBoard \o Off
          /\ clean' = FALSE /\ UNCHANGED lost
     ELSE UNCHANGED <<autoSolveArm, runVars, toBoard, history>>
  /\ Goto("event")
  /\ UNCHANGED <<toHost, doing, enabled, motorsOnEh, speed, cube, frame,
                 seenVars, elapsed, calVars>>

(***************************************************************************)
(* One event.                                                              *)
(***************************************************************************)
NoEvent ==
  /\ phase = "event" /\ call = "none"
  /\ Goto("program")
  /\ UNCHANGED <<boardVars, frame, seenVars, runVars, armVars, calVars, history>>

Pressed(k) == phase = "event" /\ call = "none" /\ k \in Keys

\* F3 - F6, F8, F9, F11, F12
PressMoves ==
  /\ Pressed("moves")
  /\ \E cmds \in Moves : RunProgram(MovesProgram(cmds))
  /\ UNCHANGED <<boardVars, frame, seenVars, armVars, calVars>>

\* F7: an empty program when there is no solution
PressF7 ==
  /\ Pressed("F7")
  /\ RunProgram(IF lastSolution = <<>> THEN <<>> ELSE MovesProgram(lastSolution))
  /\ UNCHANGED <<boardVars, frame, seenVars, armVars, calVars>>

\* F1: the marks are cleared even when the program is then not run.
PressF1 ==
  /\ Pressed("F1")
  /\ suspendCenters' = TRUE
  /\ mismatch' = FALSE
  /\ RunProgram(CalProgram("ValidateCal"))
  /\ UNCHANGED <<boardVars, frame, seenVars, armVars, cal>>

\* F2: so is the whole calibration.
PressF2 ==
  /\ Pressed("F2")
  /\ suspendCenters' = TRUE
  /\ mismatch' = FALSE
  /\ cal' = [f \in Face |-> [c \in Colour |-> "null"]]
  /\ RunProgram(CalProgram("SnapCal"))
  /\ UNCHANGED <<boardVars, frame, seenVars, armVars>>

InLine == Len(toBoard) + Len(toHost)

\* SPACE or F10 arms the automatic solve, or disarms it.
PressF10 ==
  /\ Pressed("F10")
  /\ InLine <= MaxWire
  /\ IF IsRunning THEN UNCHANGED armVars
     ELSE /\ autoSolveArm' = IF autoSolveArm = "off" THEN "armed" ELSE "off"
          /\ elapsed' = "zero"
  /\ Goto("program")
  /\ UNCHANGED <<boardVars, frame, seenVars, runVars, calVars, history>>

\* The brackets go to the board as they are, program or not.
PressBracket(b) ==
  /\ Pressed(b)
  /\ InLine + Len(serRcv) < MaxWire
  /\ toBoard' = Append(toBoard, b)
  /\ clean' = FALSE
  /\ Goto("program")
  /\ UNCHANGED <<toHost, doing, enabled, motorsOnEh, speed, cube, frame,
                 seenVars, runVars, armVars, calVars, lost>>

Event ==
  \/ NoEvent \/ PressMoves \/ PressF7 \/ PressF1 \/ PressF2 \/ PressF10
  \/ \E b \in {"[", "]"} : PressBracket(b)

(***************************************************************************)
(* continueProgram(running): the instruction at programCounter.  Advance   *)
(* goes on with the next one in the same call, Return ends the call.       *)
(***************************************************************************)
At(op) == call # "none" /\ IsRunning /\ Current.op = op

Advance ==
  /\ programCounter' = programCounter + 1
  /\ call' = "running"
  /\ UNCHANGED phase

Return ==
  /\ Goto(CASE phase = "auto" -> "abort"
            [] phase = "event" -> "program"
            [] phase = "program" -> "read")
  /\ elapsed' = IF phase = "program" /\ autoSolveArm # "off"
                THEN "running" ELSE elapsed

\* The loop ends.
ProgramEnds ==
  /\ call # "none" /\ ~IsRunning
  /\ Return
  /\ UNCHANGED <<boardVars, frame, seenVars, runVars, autoSolveArm, calVars,
                 history>>

\* Mutant of Send: what was received for the last command string stays.
SendKeepsReceived ==
  /\ At("Send")
  /\ toBoard' = toBoard \o Current.str
  /\ Advance
  /\ UNCHANGED <<toHost, doing, enabled, motorsOnEh, speed, cube, frame,
                 seenVars, program, programRcvExpected, serRcv, timer, armVars,
                 calVars, history>>

Send ==
  /\ At("Send")
  /\ serRcv' = <<>>
  /\ toBoard' = toBoard \o Current.str
  /\ Advance
  /\ UNCHANGED <<toHost, doing, enabled, motorsOnEh, speed, cube, frame,
                 seenVars, program, programRcvExpected, timer, armVars,
                 calVars, history>>

ExpectBegins ==
  /\ At("Expect") /\ call = "running"
  /\ programRcvExpected' = Current.str
  /\ Return
  /\ UNCHANGED <<boardVars, frame, seenVars, program, programCounter, serRcv,
                 timer, autoSolveArm, calVars, history>>

ExpectsMore ==
  /\ At("Expect") /\ call = "waking"
  /\ Len(serRcv) < Len(programRcvExpected)
  /\ Return
  /\ UNCHANGED <<boardVars, frame, seenVars, runVars, autoSolveArm, calVars,
                 history>>

\* Mutant of ExpectFails: a wrong echo is waited out.
ExpectFailsNever ==
  /\ At("Expect") /\ call = "waking"
  /\ Len(serRcv) >= Len(programRcvExpected)
  /\ serRcv # programRcvExpected
  /\ Return
  /\ UNCHANGED <<boardVars, frame, seenVars, runVars, autoSolveArm, calVars,
                 history>>

ExpectFails ==
  /\ At("Expect") /\ call = "waking"
  /\ Len(serRcv) >= Len(programRcvExpected)
  /\ serRcv # programRcvExpected
  /\ programCounter' = Len(program) + 1
  /\ clean' = FALSE /\ UNCHANGED lost
  /\ Return
  /\ UNCHANGED <<boardVars, frame, seenVars, program, programRcvExpected,
                 serRcv, timer, autoSolveArm, calVars>>

ExpectMatches ==
  /\ At("Expect") /\ call = "waking"
  /\ serRcv = programRcvExpected
  /\ programRcvExpected' = <<>>
  /\ Advance
  /\ UNCHANGED <<boardVars, frame, seenVars, program, serRcv, timer, armVars,
                 calVars, history>>

WaitBegins ==
  /\ At("WaitMicros") /\ call = "running"
  /\ timer' = "set"
  /\ Return
  /\ UNCHANGED <<boardVars, frame, seenVars, program, programCounter,
                 programRcvExpected, serRcv, autoSolveArm, calVars, history>>

WaitsMore ==
  /\ At("WaitMicros") /\ call = "waking"
  /\ timer \notin {"off", "due"}
  /\ Return
  /\ UNCHANGED <<boardVars, frame, seenVars, runVars, autoSolveArm, calVars,
                 history>>

WaitEnds ==
  /\ At("WaitMicros") /\ call = "waking"
  /\ timer \in {"off", "due"}
  /\ timer' = "off"
  /\ Advance
  /\ UNCHANGED <<boardVars, frame, seenVars, program, programRcvExpected,
                 serRcv, armVars, calVars, history>>

\* Mutant of SnapCal: the samples are taken for the state after this one.
SnapCalAhead ==
  /\ At("SnapCal")
  /\ LET expected(f) == Shown[CalState[(Current.n % Len(CalState)) + 1]][f]
         good(f) == /\ faceletColors \in Cube
                    /\ Shown[faceletColors][f] = expected(f)
     IN cal' = [f \in Face |-> [cal[f] EXCEPT
                  ![expected(f)] = IF good(f) THEN "right" ELSE "wrong"]]
  /\ suspendCenters' = FALSE
  /\ Advance
  /\ UNCHANGED <<boardVars, frame, seenVars, program, programRcvExpected,
                 serRcv, timer, armVars, mismatch, history>>

\* The colour seen on face f becomes the sample of the colour expected there.
SnapCal ==
  /\ At("SnapCal")
  /\ LET expected(f) == Shown[CalState[Current.n]][f]
         good(f) == /\ faceletColors \in Cube
                    /\ Shown[faceletColors][f] = expected(f)
     IN cal' = [f \in Face |-> [cal[f] EXCEPT
                  ![expected(f)] = IF good(f) THEN "right" ELSE "wrong"]]
  /\ suspendCenters' = FALSE
  /\ Advance
  /\ UNCHANGED <<boardVars, frame, seenVars, program, programRcvExpected,
                 serRcv, timer, armVars, mismatch, history>>

ValidateCal ==
  /\ At("ValidateCal")
  /\ mismatch' = (mismatch \/ faceletStates # CalState[Current.n])
  /\ suspendCenters' = FALSE
  /\ Advance
  /\ UNCHANGED <<boardVars, frame, seenVars, program, programRcvExpected,
                 serRcv, timer, armVars, cal, history>>

\* saveCal writes what is there to the file.
SaveCal ==
  /\ At("SaveCal")
  /\ Advance
  /\ UNCHANGED <<boardVars, frame, seenVars, program, programRcvExpected,
                 serRcv, timer, armVars, calVars, history>>

\* The time is taken; waitUntilAllDone() changes nothing of this module.
SolvedInst ==
  /\ At("Solved")
  /\ IF autoSolveArm # "off"
     THEN elapsed' = "final" /\ autoSolveArm' = "off"
     ELSE UNCHANGED armVars
  /\ Advance
  /\ UNCHANGED <<boardVars, frame, seenVars, program, programRcvExpected,
                 serRcv, timer, calVars, history>>

ContinueProgram ==
  \/ ProgramEnds \/ Send
  \/ ExpectBegins \/ ExpectsMore \/ ExpectFails \/ ExpectMatches
  \/ WaitBegins \/ WaitsMore \/ WaitEnds
  \/ SnapCal \/ ValidateCal \/ SaveCal \/ SolvedInst

Host == ReadSerial \/ Analyse \/ AutoSolve \/ Abort \/ Event \/ ContinueProgram

(***************************************************************************)
(* What goes on around the host.                                           *)
(***************************************************************************)
Board == BoardStep /\ UNCHANGED <<frame, hostVars>>

Reset ==
  /\ Resets
  /\ InLine + Len(serRcv) <= MaxWire
  /\ BoardReset
  /\ clean' = FALSE /\ lost' = TRUE
  /\ UNCHANGED <<frame, seenVars, runVars, armVars, calVars, phase, call>>

\* A picture taken during a turn may be blurred.
CameraShoots ==
  /\ frame' \in {cube} \cup (IF doing \in Turn THEN {Unknown} ELSE {})
  /\ timer' = IF timer = "set" THEN "shot" ELSE timer
  /\ UNCHANGED <<boardVars, seenVars, program, programCounter,
                 programRcvExpected, serRcv, armVars, calVars, phase, call,
                 history>>

\* Every wait of a program is at least 100 ms, in which the cameras deliver
\* and the loop analyses a picture.
WaitElapses ==
  /\ timer = "analysed"
  /\ timer' = "due"
  /\ UNCHANGED <<boardVars, frame, seenVars, program, programCounter,
                 programRcvExpected, serRcv, armVars, calVars, phase, call,
                 history>>

TenSecondsElapse ==
  /\ autoSolveArm = "armed"
  /\ autoSolveArm' = "overdue"
  /\ UNCHANGED <<boardVars, frame, seenVars, runVars, elapsed, calVars, phase,
                 call, history>>

Next ==
  Host \/ Board \/ Reset \/ CameraShoots \/ WaitElapses \/ TenSecondsElapse

Spec == Init /\ [][Next]_vars

\* The loop, the board, the cameras and the clock go on for ever.
Fairness ==
  /\ WF_vars(Host)
  /\ WF_vars(Board)
  /\ WF_vars(CameraShoots)
  /\ WF_vars(WaitElapses)
  /\ WF_vars(TenSecondsElapse)

LiveSpec == Spec /\ Fairness

-----------------------------------------------------------------------------
(***************************************************************************)
(* Properties.                                                             *)
(***************************************************************************)

\* The bytes the board will echo for what it has begun.
Begun == IF doing \in Turn THEN <<doing>> ELSE <<>>

\* While a program waits for an echo, what has come, what is on its way, and
\* what the board still has to do are together what was sent; at any other time
\* of a clean program the line is empty.  This is what lets continueProgram
\* take "the echo is here" for "the board has done it".
EchoAccountsForCommands ==
  clean => IF IsRunning /\ Current.op = "Expect"
           THEN Current.str = serRcv \o toHost \o Begun \o toBoard
           ELSE toHost = <<>> /\ Begun = <<>> /\ toBoard = <<>>

\* The cube is turned with the motors held and at the speed the program asked
\* for, although the board turns whenever it is told to.
TurnsAsOrdered ==
  clean /\ doing \in Turn =>
    IsRunning /\ enabled /\ speed = program[1].str[1]

\* A clean program leaves the motors off.
MotorsOffAfterProgram ==
  clean /\ ~IsRunning /\ program # <<>> => ~enabled

\* What makes the three above inductive.  A program is powered on and off by its
\* first and last command strings, between which there are only turns, and after
\* every Send it expects what it has sent.
Plain == Turn \cup Digit \cup {"[", "]"}
OpName == {"Send", "Expect", "WaitMicros", "SnapCal", "ValidateCal", "SaveCal", "Solved"}
Instruction == [op : OpName, str : Seq(Plain), n : Nat]

Paired(p) ==
  /\ p \in Seq(Instruction)
  /\ \A k \in 1 .. Len(p) :
       /\ p[k].op = "Send" => k < Len(p) /\ p[k + 1].op = "Expect"
       /\ p[k].op = "Expect" => k > 1 /\ p[k - 1].op = "Send" /\ p[k - 1].str = p[k].str

Enclosed(p) ==
  p # <<>> =>
    /\ Len(p) >= 4
    /\ p[1].op = "Send" /\ \E s \in Digit : p[1].str = On(s)
    /\ p[Len(p) - 1].op = "Send" /\ p[Len(p) - 1].str = Off
    /\ \A k \in 3 .. Len(p) - 2 : p[k].op = "Send" => p[k].str \in Seq(Turn)

ProgramInv ==
  /\ Paired(program) /\ Enclosed(program)
  /\ programCounter \in 1 .. Len(program) + 1
  /\ call # "none" => phase \in {"auto", "event", "program"}
  /\ IsRunning /\ Current.op = "Expect" /\ call # "running" => programRcvExpected = Current.str

\* How far the board has got with the string that powers it on, or off.
Powered == doing = "[" \/ (enabled /\ doing \in Turn \cup {"idle"})
Unpowered == ~enabled /\ doing \in {"]", "idle"}

PowerInv ==
  clean =>
    /\ programCounter = 1 => doing \notin Turn
    /\ programCounter = 2 =>
         /\ Len(toBoard) <= 1 => speed = program[1].str[1]
         /\ toBoard = <<>> => Powered
    /\ programCounter \in 3 .. Len(program) - 1 => speed = program[1].str[1] /\ Powered
    /\ programCounter = Len(program) =>
         /\ Len(toBoard) = 2 => Powered
         /\ Len(toBoard) = 1 => doing = "]" \/ Unpowered
         /\ toBoard = <<>> => Unpowered
    /\ programCounter = Len(program) + 1 /\ program # <<>> => Unpowered

RobotTypes ==
  /\ BoardTypeOK
  /\ {frame, faceletStates} \subseteq Cube \cup {Unknown}
  /\ lastSolution \in Seq(Turn) /\ serRcv \in Seq(Said)
  /\ clean \in BOOLEAN

IInv == RobotTypes /\ ProgramInv /\ EchoAccountsForCommands /\ PowerInv

\* What has been seen: after a wait the last pictures show the cube as it is, and until
\* the next turn they go on to, but for blurred ones from before the program.
InWait == IsRunning /\ Current.op = "WaitMicros"
JustWaited ==
  IsRunning /\ programCounter > 1 /\ program[programCounter - 1].op = "WaitMicros"
Unseen ==
  /\ IsRunning /\ programCounter \in 4 .. Len(program) - 1
  /\ Current.op \in {"Expect", "Solved", "WaitMicros"}

\* Turns are waited for before anything else is sent or looked at.
Waits(p) ==
  \A k \in 1 .. Len(p) :
    \/ p[k].op = "Expect" /\ k \in 3 .. Len(p) - 1
    \/ p[k].op = "Solved"
    => k < Len(p) /\ p[k + 1].op \in {"Solved", "WaitMicros"}

SettledInv ==
  /\ Waits(program)
  /\ timer \in {"off", "set", "shot", "analysed", "due"}
  /\ timer # "off" <=> InWait /\ call # "running"
  /\ clean =>
       /\ ~Unseen => {frame, faceletColors} \subseteq {cube, Unknown}
       /\ timer \in {"shot", "analysed", "due"} => frame = cube
       /\ timer \in {"analysed", "due"} => faceletColors = cube
       /\ JustWaited => frame = cube /\ faceletColors = cube

\* The calibration is right: then a picture is recognised as what it shows.
Trusted == \A f \in Face, c \in Colour : cal[f][c] = "right"
Looked ==
  JustWaited \/ timer \in {"analysed", "due"} \/ (phase = "auto" /\ call = "none")
SeenInv ==
  /\ Trusted /\ Looked =>
       faceletStates \in {faceletColors} \cup (IF Glare THEN {Unknown} ELSE {})
  /\ lastSolution # <<>> =>
       faceletStates \in Cube \ {Solved} /\ lastSolution = Solution[faceletStates]

\* The cubes that a solution passes through, if it solves.
Ways(c) ==
  {w \in [0 .. Len(Solution[c]) -> Cube] :
     /\ w[0] = c /\ w[Len(Solution[c])] = Solved
     /\ \A k \in 1 .. Len(Solution[c]) : w[k] = Effect[Solution[c][k]][w[k - 1]]}
SolutionsSolve == \A c \in Cube \ {Solved} : Ways(c) # {}

\* How many bytes of the echo that is waited for have come.
Come == Len(serRcv \o toHost)

\* A clean automatic solve is on its way, as far as the echoes have come.
SolveInv ==
  clean /\ Trusted /\ (\E k \in 1 .. Len(program) : program[k].op = "Solved") =>
    \E c \in Cube \ {Solved} : \E w \in Ways(c) :
      /\ program = AutoSolveProgram(Solution[c])
      /\ programCounter \in 1 .. 3 => cube = c
      /\ programCounter = 4 => cube = w[Come]
      /\ programCounter = 5 => cube = Solved

\* The calibration turns a cube, and no two to the same, through its states.
StateAt(n) == IF n <= Len(CalState) THEN CalState[n] ELSE Solved
CalibrationCloses ==
  \A n \in 1 .. Len(Rotation) :
    /\ Effect[Rotation[n]][CalState[n]] = StateAt(n + 1)
    /\ \A c, d \in Cube : Effect[Rotation[n]][c] = Effect[Rotation[n]][d] => c = d

\* The state the cube has now if it had the first one, four instructions a state.
Stage ==
  (programCounter \div 4) +
    IF programCounter % 4 = 3 \/ (programCounter % 4 = 2 /\ Come > 0)
    THEN 1 ELSE 0
LearntRight ==
  IF program[4].op = "SnapCal"
  THEN \A f \in Face, c \in Colour : cal[f][c] # "wrong"
  ELSE Trusted => ~mismatch
CalInv ==
  /\ \A f \in Face : Colour \subseteq DOMAIN cal[f]
  /\ /\ clean /\ program \in {CalProgram("SnapCal"), CalProgram("ValidateCal")}
     /\ programCounter < Len(program) - 1
     /\ programCounter < 3 \/ cube = StateAt(Stage)
     => LearntRight

\* The time of an automatic solve is taken with the cube solved, if the calibration
\* by which the cube was recognised is right.
Taken == elapsed' = "final" /\ elapsed # "final" /\ clean /\ Trusted => cube = Solved
SolvedTimeIsTrue == [][Taken]_vars

\* What is saved after a calibration of a cube that was solved has every colour
\* sampled from the face that showed it; and the test of a calibration that is right,
\* and still is when the test ends, finds no mismatch on a cube that was solved.
SavedRight ==
  SaveCal /\ clean /\ cube = Solved =>
    IF program[4].op = "SnapCal"
    THEN \A f \in Face, c \in Colour : cal[f][c] # "wrong"
    ELSE Trusted => ~mismatch
CalibrationIsRight == [][SavedRight]_vars

\* When the abort comes the motors get switched off, whatever is queued before.
Aborting == phase = "abort" /\ autoSolveArm = "overdue"
AbortStopsMotors == Aborting ~> ~enabled

\* Nothing goes on for ever: unless the board was reset every program ends, also
\* when its echoes are mixed with others, and an armed robot does not stay
\* armed, it solves or the abort disarms it.
RunsEnd ==
  /\ IsRunning ~> ~IsRunning \/ lost
  /\ autoSolveArm # "off" ~> autoSolveArm = "off"
=============================================================================
