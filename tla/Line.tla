-------------------------------- MODULE Line --------------------------------
(***************************************************************************)
(* The serial line from end to end: cubedriver with its SerialNonBlocking  *)
(* and its poll() loop, the tty of the host, and the board of              *)
(* ArduinoUno_Phase3_Center_Drive.ino, which may be reset at any time.     *)
(* Robot takes the two directions between them for queues.  The strings    *)
(* may be those of cubedriver or the other keys of the firmware, which a   *)
(* person types.                                                           *)
(***************************************************************************)
EXTENDS Firmware, SerialNonBlocking

CONSTANTS
  MaxCommands, \* bound on the bytes written
  MaxGreeted   \* bound on the starts of the board

ASSUME LineAssumption ==
  /\ Strings \subseteq Seq(Byte) /\ Said \subseteq Bytes
  /\ MaxCommands \in Nat /\ MaxGreeted \in Nat
  /\ MaxCommands + MaxGreeted <= MaxBytes

lineVars == <<boardVars, vars>>

\* All that the board has said so far and cubedriver has or can still get.
Heard == serRcv \o ret \o ttyIn \o toHost
Greetings == Len(SelectSeq(Heard, LAMBDA b : b = "+"))

LineInit == BoardInit /\ Init

\* cubedriver
App ==
  /\ \/ Loop \/ Throw
     \/ \E s \in Strings :
          /\ Len(transmitted) + Len(ttyOut) + Len(writeBuffer) + Len(s) <= MaxCommands
          /\ Write(s)
  /\ UNCHANGED boardVars

\* The UARTs: one byte in either direction.
ToBoard ==
  /\ Transmit
  /\ toBoard' = Append(toBoard, Head(ttyOut))
  /\ UNCHANGED <<toHost, doing, enabled, motorsOnEh, speed, cube>>

ToHost ==
  /\ toHost # <<>>
  /\ Incoming /\ ttyIn' = Append(ttyIn, Head(toHost))
  /\ toHost' = Tail(toHost)
  /\ UNCHANGED <<toBoard, doing, enabled, motorsOnEh, speed, cube>>

Board == BoardStep /\ UNCHANGED vars

Reset == Greetings < MaxGreeted /\ BoardReset /\ UNCHANGED vars

LineNext == App \/ ToBoard \/ ToHost \/ Board \/ Reset

\* The loop goes round, what poll() reports again and again is read, the UARTs
\* work and the board runs.
LineFairness ==
  /\ WF_lineVars(Loop /\ UNCHANGED boardVars)
  /\ SF_lineVars(EndApp /\ UNCHANGED boardVars) /\ SF_lineVars(BeginRead /\ UNCHANGED boardVars)
  /\ WF_lineVars(ToBoard) /\ WF_lineVars(ToHost) /\ WF_lineVars(Board)

LineSpec == LineInit /\ [][LineNext]_lineVars /\ LineFairness

-----------------------------------------------------------------------------
\* Each direction is a ByteStream: whatever part of a string the tty takes at
\* a time, what write() was given leaves the host once, in order, and what
\* arrives is returned by read() once, in order, also when the line fails.
StreamsInOrder == WritesInOrder /\ ReadsInOrder

\* Unless the line fails, what is written arrives: an escape stops the motors,
\* however much is queued before it in writeBuffer, the tty and the board, and
\* every echo reaches the program: none stays in the tty for a read() that stops
\* early.
Escaping ==
  LET out == toBoard \o ttyOut \o writeBuffer
  IN out # <<>> /\ out[Len(out)] = "esc"
BytesArrive ==
  /\ Escaping ~> ~enabled \/ phase = "ended"
  /\ \A n \in 1 .. MaxBytes : Len(Heard) >= n ~> Len(serRcv) >= n \/ phase = "ended"
=============================================================================
