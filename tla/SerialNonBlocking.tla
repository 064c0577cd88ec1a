-------------------------- MODULE SerialNonBlocking --------------------------
(***************************************************************************)
(* cubedriver/serial.cpp, class SerialNonBlocking, and the part of         *)
(* App::loop() that drives it with poll().  The tty of the host has a      *)
(* queue in each direction; write() takes what fits and refuses when it is *)
(* full, read() returns at most one buffer.  A line that fails throws, and *)
(* the exception ends the program.                                         *)
(***************************************************************************)
EXTENDS Integers, Sequences

CONSTANTS
  Bytes,
  Strings,     \* the strings that the application writes
  TtyRoom,     \* bytes the output queue of the tty holds
  ReadBuffer,  \* sizeof(buff) in read()
  MayFail,     \* whether the line may fail
  MaxBytes     \* bound on the bytes of each direction

ASSUME StringsAssumption == Strings \subseteq Seq(Bytes)
ASSUME SizeAssumption ==
  /\ TtyRoom \in Nat \ {0} /\ ReadBuffer \in Nat \ {0} /\ MaxBytes \in Nat
  /\ MayFail \in BOOLEAN

VARIABLES
  writeBuffer,
  ttyOut,     \* output queue of the tty
  transmitted,\* bytes that left it: what the board gets
  ttyIn,      \* input queue of the tty
  ret,        \* the result that read() is collecting
  serRcv,     \* everything read() has returned
  pollout,    \* poll() reported POLLOUT
  phase       \* where loop() is, "ended" after an exception

outVars == <<writeBuffer, ttyOut, transmitted>>
inVars == <<ttyIn, ret, serRcv>>
vars == <<outVars, inVars, pollout, phase>>

TypeOK ==
  /\ writeBuffer \in Seq(Bytes) /\ ttyOut \in Seq(Bytes)
  /\ transmitted \in Seq(Bytes)
  /\ ttyIn \in Seq(Bytes) /\ ret \in Seq(Bytes) /\ serRcv \in Seq(Bytes)
  /\ pollout \in BOOLEAN
  /\ phase \in {"poll", "out", "in", "reading", "app", "ended"}
  /\ Len(ttyOut) <= TtyRoom
  /\ phase \notin {"reading", "ended"} => ret = <<>>

Init ==
  /\ writeBuffer = <<>> /\ ttyOut = <<>> /\ transmitted = <<>>
  /\ ttyIn = <<>> /\ ret = <<>> /\ serRcv = <<>>
  /\ pollout = FALSE /\ phase = "poll"

First(s, n) == SubSeq(s, 1, n)
\* Mutant of After: an off-by-one in what is left.
AfterOneLess(s, n) == SubSeq(s, n + 2, Len(s))

After(s, n) == SubSeq(s, n + 1, Len(s))

Room == TtyRoom - Len(ttyOut)

\* The results of ::write(fd, s): as many bytes as the tty takes, at least one
\* when there is room, and 0 for the EWOULDBLOCK of a full queue.
Written(s) ==
  {n \in 0 .. Len(s) : n <= Room /\ (n = 0 => Room = 0 \/ s = <<>>)}

\* Mutant of Poll: POLLOUT is never asked for.
PollInputOnly ==
  /\ phase = "poll"
  /\ pollout' = FALSE
  /\ phase' = "out"
  /\ UNCHANGED <<outVars, inVars>>

\* poll(): POLLOUT is asked for only while writes are buffered.
Poll ==
  /\ phase = "poll"
  /\ pollout' = (writeBuffer # <<>> /\ Room > 0)
  /\ phase' = "out"
  /\ UNCHANGED <<outVars, inVars>>

OnReadyToWrite ==
  /\ phase = "out"
  /\ IF pollout /\ writeBuffer # <<>>
     THEN \E n \in Written(writeBuffer) :
            /\ ttyOut' = ttyOut \o First(writeBuffer, n)
            /\ writeBuffer' = After(writeBuffer, n)
     ELSE UNCHANGED <<ttyOut, writeBuffer>>
  /\ phase' = "in"
  /\ UNCHANGED <<transmitted, inVars, pollout>>

\* serRcv += ser->read() only when poll() reported input.
SkipRead ==
  /\ phase = "in"
  /\ phase' = "app"
  /\ UNCHANGED <<outVars, inVars, pollout>>

BeginRead ==
  /\ phase = "in" /\ ttyIn # <<>>
  /\ ret' = <<>>
  /\ phase' = "reading"
  /\ UNCHANGED <<outVars, ttyIn, serRcv, pollout>>

\* Mutant of ReadSome: every buffer overwrites the one before.
ReadSomeReplaces ==
  /\ phase = "reading" /\ ttyIn # <<>>
  /\ LET n == IF Len(ttyIn) < ReadBuffer THEN Len(ttyIn) ELSE ReadBuffer
     IN ret' = First(ttyIn, n) /\ ttyIn' = After(ttyIn, n)
  /\ UNCHANGED <<outVars, serRcv, pollout, phase>>

\* ::read(fd, buff) until nothing is left; more may come in between.
ReadSome ==
  /\ phase = "reading" /\ ttyIn # <<>>
  /\ LET n == IF Len(ttyIn) < ReadBuffer THEN Len(ttyIn) ELSE ReadBuffer
     IN ret' = ret \o First(ttyIn, n) /\ ttyIn' = After(ttyIn, n)
  /\ UNCHANGED <<outVars, serRcv, pollout, phase>>

\* Mutant of EndRead: an empty first ::read() is needed to end.
EndReadIfEmpty ==
  /\ phase = "reading" /\ ttyIn = <<>> /\ ret = <<>>
  /\ phase' = "app"
  /\ UNCHANGED <<outVars, inVars, pollout>>

EndRead ==
  /\ phase = "reading" /\ ttyIn = <<>>
  /\ serRcv' = serRcv \o ret
  /\ ret' = <<>>
  /\ phase' = "app"
  /\ UNCHANGED <<outVars, ttyIn, pollout>>

\* Mutant of Write: the tty is tried although bytes are buffered.
WriteOvertakes(str) ==
  /\ phase = "app"
  /\ Len(transmitted) + Len(ttyOut) + Len(writeBuffer) + Len(str) <= MaxBytes
  /\ \E n \in Written(str) :
       /\ ttyOut' = ttyOut \o First(str, n)
       /\ writeBuffer' = writeBuffer \o After(str, n)
  /\ UNCHANGED <<transmitted, inVars, pollout, phase>>

\* write(str): what was buffered before goes first.
Write(str) ==
  /\ phase = "app"
  /\ Len(transmitted) + Len(ttyOut) + Len(writeBuffer) + Len(str) <= MaxBytes
  /\ \E n \in IF writeBuffer = <<>> THEN Written(str) ELSE {0} :
       /\ ttyOut' = ttyOut \o First(str, n)
       /\ writeBuffer' = writeBuffer \o After(str, n)
  /\ UNCHANGED <<transmitted, inVars, pollout, phase>>

EndApp ==
  /\ phase = "app"
  /\ phase' = "poll"
  /\ UNCHANGED <<outVars, inVars, pollout>>

\* A system call fails: the bytes that read() has already taken are lost.
Throw ==
  /\ MayFail
  /\ phase \in {"out", "reading", "app"}
  /\ phase' = "ended"
  /\ UNCHANGED <<outVars, inVars, pollout>>

Loop ==
  \/ Poll \/ OnReadyToWrite \/ SkipRead \/ BeginRead \/ ReadSome \/ EndRead
  \/ EndApp

(***************************************************************************)
(* The line and the board.                                                 *)
(***************************************************************************)
Transmit ==
  /\ ttyOut # <<>>
  /\ transmitted' = Append(transmitted, Head(ttyOut))
  /\ ttyOut' = Tail(ttyOut)
  /\ UNCHANGED <<writeBuffer, inVars, pollout, phase>>

Incoming ==
  /\ Len(serRcv) + Len(ret) + Len(ttyIn) < MaxBytes
  /\ \E b \in Bytes : ttyIn' = Append(ttyIn, b)
  /\ UNCHANGED <<outVars, ret, serRcv, pollout, phase>>

Next ==
  Loop \/ (\E s \in Strings : Write(s)) \/ Throw \/ Transmit \/ Incoming

Spec == Init /\ [][Next]_vars

-----------------------------------------------------------------------------
\* Each direction is a ByteStream.
Out == INSTANCE ByteStream WITH
  sent <- transmitted \o ttyOut \o writeBuffer, got <- transmitted
In == INSTANCE ByteStream WITH
  sent <- serRcv \o ret \o ttyIn, got <- serRcv

\* What write() was given leaves the host once, in order, although the tty may
\* take any part of it at any time.
WritesInOrder == Out!Spec

\* What arrives is returned by read() once, in order, unless the line fails.
ReadsInOrder == In!Spec
=============================================================================
