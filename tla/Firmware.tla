------------------------------ MODULE Firmware ------------------------------
(***************************************************************************)
(* ArduinoUno_Phase3_Center_Drive.ino: the board that turns the cube.      *)
(* loop() takes one byte at a time from the serial line, executes it to    *)
(* the end and echoes it.  A turn is echoed when it is done; the switches  *)
(* are echoed BEFORE the pins change, which is a step of its own here.     *)
(* The bytes are strings; println texts are one byte of toHost.            *)
(***************************************************************************)
EXTENDS Sequences

CONSTANTS
  Cube,     \* the states of the cube, its pieces against its six centres
  Turn,     \* the bytes that turn one or two faces
  Digit,    \* the bytes "1" .. "9" that choose a speed table
  Effect,   \* Effect[t][c]: the cube c after the turn t
  FirstSpeed \* the initial value of speed

Switch == {"[", "]", "esc", " "}
Byte == Turn \cup Digit \cup Switch
Said == Byte \cup {"+", "Shutdown!", "Off!", "On!"}

ASSUME ByteAssumption ==
  /\ Turn \cap Digit = {}
  /\ (Turn \cup Digit) \cap (Switch \cup {"idle", "+"}) = {}
ASSUME EffectAssumption == Effect \in [Turn -> [Cube -> Cube]]
ASSUME SpeedAssumption == FirstSpeed \in Digit

VARIABLES
  toBoard,    \* bytes on their way to the board and in its receive buffer
  toHost,     \* bytes the host has not read yet
  doing,      \* the byte loop() is executing, or "idle"
  enabled,    \* the DISABLE pin is low: the motors hold and turn
  motorsOnEh,
  speed,
  cube        \* the cube in the machine

boardVars == <<toBoard, toHost, doing, enabled, motorsOnEh, speed, cube>>

BoardTypeOK ==
  /\ toBoard \in Seq(Byte)
  /\ toHost \in Seq(Said)
  /\ doing \in Turn \cup Switch \cup {"idle"}
  /\ enabled \in BOOLEAN
  /\ motorsOnEh \in BOOLEAN
  /\ speed \in Digit
  /\ cube \in Cube

\* setup(): motors off, and a greeting.
BoardInit ==
  /\ toBoard = <<>>
  /\ toHost = <<"+">>
  /\ doing = "idle"
  /\ enabled = FALSE
  /\ motorsOnEh = FALSE
  /\ speed = FirstSpeed
  /\ cube \in Cube

Answer(b) == toHost' = Append(toHost, b)

\* The head of loop(): Serial.read() returns a byte of the set S.
Receive(S) ==
  /\ doing = "idle"
  /\ toBoard # <<>>
  /\ Head(toBoard) \in S
  /\ toBoard' = Tail(toBoard)

SetSpeed ==
  /\ Receive(Digit)
  /\ speed' = Head(toBoard)
  /\ Answer(Head(toBoard))
  /\ UNCHANGED <<doing, enabled, motorsOnEh, cube>>

\* Mutant of BeginTurn: the turn is echoed before it is made.
BeginTurnAnswers ==
  /\ Receive(Turn)
  /\ doing' = Head(toBoard)
  /\ Answer(Head(toBoard))
  /\ UNCHANGED <<enabled, motorsOnEh, speed, cube>>

BeginTurn ==
  /\ Receive(Turn)
  /\ doing' = Head(toBoard)
  /\ UNCHANGED <<toHost, enabled, motorsOnEh, speed, cube>>

\* The steps are pulsed whatever the DISABLE pin says; without holding
\* current nothing moves.
EndTurn ==
  /\ doing \in Turn
  /\ cube' = IF enabled THEN Effect[doing][cube] ELSE cube
  /\ Answer(doing)
  /\ doing' = "idle"
  /\ UNCHANGED <<toBoard, enabled, motorsOnEh, speed>>

BeginSwitch ==
  /\ Receive(Switch)
  /\ doing' = Head(toBoard)
  /\ Answer(CASE Head(toBoard) = "esc" -> "Shutdown!"
              [] Head(toBoard) = " " -> IF motorsOnEh THEN "Off!" ELSE "On!"
              [] OTHER -> Head(toBoard))
  /\ UNCHANGED <<enabled, motorsOnEh, speed, cube>>

\* Mutant of EndSwitch: "[" and "]" toggle like the space.
EndSwitchToggles ==
  /\ doing \in Switch
  /\ enabled' = (doing # "esc" /\ ~motorsOnEh)
  /\ motorsOnEh' = IF doing = "esc" THEN motorsOnEh ELSE enabled'
  /\ doing' = "idle"
  /\ UNCHANGED <<toBoard, toHost, speed, cube>>

\* Mutant of EndSwitch: the shutdown clears motorsOnEh but not the pin.
EndSwitchOnlyFlag ==
  /\ doing \in Switch
  /\ enabled' = IF doing = "esc" THEN enabled
                ELSE doing = "[" \/ (doing = " " /\ ~motorsOnEh)
  /\ motorsOnEh' = IF doing = "esc" THEN FALSE ELSE enabled'
  /\ doing' = "idle"
  /\ UNCHANGED <<toBoard, toHost, speed, cube>>

\* The shutdown leaves motorsOnEh as it was.
EndSwitch ==
  /\ doing \in Switch
  /\ enabled' = (doing = "[" \/ (doing = " " /\ ~motorsOnEh))
  /\ motorsOnEh' = IF doing = "esc" THEN motorsOnEh ELSE enabled'
  /\ doing' = "idle"
  /\ UNCHANGED <<toBoard, toHost, speed, cube>>

BoardStep == SetSpeed \/ BeginTurn \/ EndTurn \/ BeginSwitch \/ EndSwitch

\* Power lost, or the reset the serial adapter pulls: what was in the receive
\* buffer is gone, a turn under way stops on the way or was just complete.
BoardReset ==
  /\ toBoard' = <<>>
  /\ Answer("+")
  /\ doing' = "idle"
  /\ enabled' = FALSE
  /\ motorsOnEh' = FALSE
  /\ speed' = FirstSpeed
  /\ cube' \in IF doing \in Turn /\ enabled THEN {cube, Effect[doing][cube]}
                                           ELSE {cube}

-----------------------------------------------------------------------------
\* The bytes that will have been echoed when the board is done with its input.
Owed == toHost \o (IF doing \in Turn THEN <<doing>> ELSE <<>>) \o toBoard

\* loop() neither loses, adds nor reorders an echo: what the line owes to the
\* host stays the same whatever the board does, as long as no key prints a text
\* of its own.
OwedKept ==
  BoardStep /\ (toBoard = <<>> \/ Head(toBoard) \notin {"esc", " "})
    => Owed' = Owed
EchoesInOrder == [][OwedKept]_boardVars

\* When motorsOnEh says off the motors are off: a space typed to stop them
\* never starts them.
OffMeansOff == doing \notin Switch /\ ~motorsOnEh => ~enabled
=============================================================================
