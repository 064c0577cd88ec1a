------------------------------ MODULE UvcVideo ------------------------------
(***************************************************************************)
(* The stream of a camera on an isochronous endpoint, as in                *)
(* uvcvideo_kmod/uvc_video.c: starting and stopping it, the interrupt      *)
(* handler that makes frames of payloads, suspend and resume, and the      *)
(* camera being unplugged.  The camera, the bus and the USB core are       *)
(* external: the camera sends frames of FrameLen payloads, in all of which *)
(* FID is the parity of the frame and in the last of which EOF is set; a   *)
(* payload may arrive marked as erroneous, be reported lost, or be too     *)
(* short for a header.  The core gives back one URB at a time.             *)
(***************************************************************************)
EXTENDS UvcQueue

CONSTANTS
  Urbs,    \* UVC_URBS
  PerUrb   \* payloads in one URB

ASSUME UrbsAssumption == Urbs \in Nat \ {0} /\ PerUrb \in Nat \ {0}

VARIABLES
  lastFid,   \* stream->last_fid
  clock,     \* stream->clock.samples is allocated
  frozen,
  inFlight,  \* how many URBs the core has
  handler,   \* uvc_video_complete: payloads of its URB left, and its buffer
  job,       \* what a process is doing with the stream
  submitted, \* the URBs it has submitted
  camera,    \* the frame being sent and the payload to come
  plug,      \* the camera is plugged in, gone, or gone and unregistered
  power      \* of the computer

streamVars == <<lastFid, clock, frozen, inFlight, handler>>
processVars == <<job, submitted, power>>
videoVars == <<queueVars, streamVars, processVars, camera, plug>>

Fid == {0, 1}
NoFid == -1
Idle == [left |-> 0, buf |-> None, busy |-> FALSE]
Job == {"none", "commit", "submit", "abort", "stop",
        "release", "suspend", "recommit", "resubmit", "reabort"}

VideoTypeOK ==
  /\ QueueTypeOK
  /\ lastFid \in Fid \cup {NoFid} /\ clock \in BOOLEAN /\ frozen \in BOOLEAN
  /\ inFlight \in 0 .. Urbs /\ submitted \in 0 .. Urbs
  /\ handler \in [left : 0 .. PerUrb, buf : Buffer \cup {None}, busy : BOOLEAN]
  /\ job \in Job
  /\ camera \in [on : BOOLEAN, fid : Fid, next : 1 .. FrameLen]
  /\ plug \in {"in", "gone", "unregistered"}
  /\ power \in {"on", "falling", "suspended", "rising"}

VideoInit ==
  /\ QueueInit
  /\ lastFid = NoFid /\ clock = FALSE /\ frozen = FALSE
  /\ inFlight = 0 /\ handler = Idle
  /\ job = "none" /\ submitted = 0
  /\ camera = [on |-> FALSE, fid |-> 0, next |-> 1]
  /\ plug = "in" /\ power = "on"

-----------------------------------------------------------------------------
(***************************************************************************)
(* uvc_video_decode_isoc, for one payload p.                               *)
(***************************************************************************)
Eof == camera.next = FrameLen

\* uvc_video_decode_start: "again" is EAGAIN, "skip" any other error.
Answer(h, ret) == [h |-> h, ret |-> ret]

\* Out of step with the camera until FID changes.
OutOfSync(h) == h.held[h.buf].state # "active" /\ camera.fid = h.fid

\* A new frame begins, and there is one in the buffer.
Complete(h) == camera.fid # h.fid /\ h.held[h.buf].used # 0

DecodeStart(h, p) ==
  IF h.buf = None THEN Answer([h EXCEPT !.fid = camera.fid], "skip")
  ELSE LET marked == [h EXCEPT !.held[h.buf].error = @ \/ p.err]
           active == [marked EXCEPT !.held[h.buf].state = "active"]
       IN IF OutOfSync(h) THEN Answer(marked, "skip")
          ELSE IF Complete(h)
          THEN Answer([active EXCEPT !.held[h.buf].state = "ready"], "again")
          ELSE Answer([active EXCEPT !.fid = camera.fid], "data")

\* The payload is the next of the frame that is in the buffer.
Fits(c) == c.used + 1 = camera.next /\ (c.used = 0 \/ c.current)

\* uvc_video_decode_data: what does not fit completes the frame.
DecodeData(h) ==
  LET c == h.held[h.buf]
  IN [h EXCEPT !.held[h.buf] =
        IF c.used = FrameLen THEN [c EXCEPT !.state = "ready"]
        ELSE [c EXCEPT !.used = @ + 1, !.torn = @ \/ ~Fits(c), !.current = TRUE]]

\* uvc_video_decode_end.
DecodeEnd(h) ==
  IF Eof /\ h.held[h.buf].used # 0
  THEN [h EXCEPT !.held[h.buf].state = "ready"] ELSE h

\* A frame of the wrong length is an error: no format is compressed.
Delivered(h) ==
  IF h.held[h.buf].state # "ready" THEN h
  ELSE NextBuffer([h EXCEPT !.held[h.buf].error = @ \/ h.held[h.buf].used # FrameLen])

Started(h, p) ==
  LET first == DecodeStart(h, p)
  IN IF first.ret = "again" THEN DecodeStart(NextBuffer(first.h), p) ELSE first

\* A payload with data, one without, one that was lost and one without header.
Payload == [kind : {"data", "empty", "lost", "bad"}, err : BOOLEAN]

Decoded(h, p) ==
  CASE p.kind = "bad" ->
         IF h.buf # None /\ (Eof \/ camera.fid # h.fid)
         THEN [h EXCEPT !.held[h.buf].cut = @ \/ h.held[h.buf].state = "active"]
         ELSE h
    [] p.kind = "lost" ->
         IF h.buf = None THEN h ELSE [h EXCEPT !.held[h.buf].error = TRUE]
    [] p.kind = "empty" -> Started(h, p).h
    [] p.kind = "data" ->
         LET start == Started(h, p)
         IN IF start.ret = "data" THEN Delivered(DecodeEnd(DecodeData(start.h)))
            ELSE start.h

-----------------------------------------------------------------------------
(***************************************************************************)
(* The camera.  When a frame has been sent, none of the buffers holds      *)
(* payloads of the one that is being sent.                                 *)
(***************************************************************************)
CameraSends ==
  camera' = IF Eof THEN [camera EXCEPT !.fid = 1 - @, !.next = 1]
            ELSE [camera EXCEPT !.next = @ + 1]
Aged(contents) ==
  IF Eof THEN [b \in Buffer |-> [contents[b] EXCEPT !.current = FALSE]] ELSE contents

\* The frames that are being filled will not be complete.
Cut(contents) ==
  [b \in Buffer |-> [contents[b] EXCEPT !.cut = @ \/ contents[b].state = "active"]]

\* No URB is there to take what is sent.
CameraUnheard ==
  /\ camera.on /\ plug = "in" /\ inFlight = 0 /\ power = "on"
  /\ CameraSends
  /\ held' = Aged(Cut(held))
  /\ UNCHANGED <<vb, posted, irqqueue, done, streaming, disconnected,
                 streamVars, processVars, plug>>

-----------------------------------------------------------------------------
(***************************************************************************)
(* uvc_video_complete.                                                     *)
(***************************************************************************)
Given == inFlight > 0 /\ ~handler.busy /\ inFlight' = inFlight - 1

\* The URB is full: the handler takes the first buffer.
UrbCompletes ==
  /\ Given /\ camera.on /\ plug = "in"
  /\ handler' = [left |-> PerUrb, buf |-> FirstBuffer, busy |-> TRUE]
  /\ UNCHANGED <<queueVars, lastFid, clock, frozen, processVars, camera, plug>>

\* Any other status ends the URB, and takes the buffers from the queue.
UrbEnds(shutdown) ==
  /\ Given
  /\ IF frozen /\ ~shutdown THEN UNCHANGED queueVars ELSE QueueCancel(shutdown)
  /\ UNCHANGED <<lastFid, clock, frozen, handler>>

UrbFails == plug = "in" /\ UrbEnds(FALSE) /\ UNCHANGED <<processVars, camera, plug>>

UrbShutDown == plug # "in" /\ UrbEnds(TRUE) /\ UNCHANGED <<processVars, camera, plug>>

DecodePayload ==
  /\ handler.busy /\ handler.left > 0
  /\ \E p \in Payload :
       LET h == Decoded([buf |-> handler.buf, held |-> held, irqqueue |-> irqqueue,
                         vb |-> vb, done |-> done, fid |-> lastFid], p)
       IN /\ handler' = [handler EXCEPT !.left = @ - 1, !.buf = h.buf]
          /\ irqqueue' = h.irqqueue /\ vb' = h.vb /\ done' = h.done
          /\ lastFid' = h.fid
          /\ IF p.kind = "empty" THEN held' = h.held /\ UNCHANGED camera
             ELSE held' = Aged(h.held) /\ CameraSends
  /\ UNCHANGED <<posted, streaming, disconnected, clock, frozen, inFlight,
                 processVars, plug>>

\* The URB goes back to the core, which may refuse it.
Resubmit ==
  /\ handler.busy /\ handler.left = 0
  /\ handler' = Idle
  /\ inFlight' \in {inFlight} \cup IF plug = "in" THEN {inFlight + 1} ELSE {}
  /\ UNCHANGED <<queueVars, lastFid, clock, frozen, processVars, camera, plug>>

Interrupt ==
  UrbCompletes \/ UrbFails \/ UrbShutDown \/ DecodePayload \/ Resubmit

-----------------------------------------------------------------------------
(***************************************************************************)
(* uvc_video_enable, uvc_video_suspend, uvc_video_resume.  A process       *)
(* submits the URBs one by one and kills them one by one; the handler may  *)
(* run in between.                                                         *)
(***************************************************************************)
\* uvc_video_enable(stream, 1), up to the commit.
StartStream ==
  /\ job = "none" /\ ~streaming
  /\ clock' = TRUE
  /\ QueueEnable
  /\ job' = "commit"
  /\ UNCHANGED <<lastFid, frozen, inFlight, handler, submitted, power, camera, plug>>

\* uvc_init_video, up to the first URB.
CommitStream ==
  /\ job \in {"commit", "recommit"}
  /\ plug = "in"
  /\ IF job = "recommit" /\ ~streaming
     THEN /\ job' = "none" /\ power' = "on"
          /\ UNCHANGED <<lastFid, camera>>
     ELSE /\ job' = IF job = "commit" THEN "submit" ELSE "resubmit"
          /\ lastFid' = NoFid
          /\ camera' = [on |-> TRUE, fid |-> 0, next |-> 1]
          /\ UNCHANGED power
  /\ submitted' = 0
  /\ UNCHANGED <<queueVars, clock, frozen, inFlight, handler, plug>>

\* The device refuses the parameters or the alternate setting.
CommitFails ==
  /\ job \in {"commit", "recommit"}
  /\ IF job = "commit"
     THEN job' = "abort" /\ UNCHANGED <<queueVars, power>>
     ELSE job' = "none" /\ power' = "on" /\ QueueDisable
  /\ UNCHANGED <<streamVars, submitted, camera, plug>>

SubmitUrb ==
  /\ job \in {"submit", "resubmit"} /\ submitted < Urbs
  /\ plug = "in"
  /\ submitted' = submitted + 1 /\ inFlight' = inFlight + 1
  /\ IF submitted + 1 = Urbs
     THEN job' = "none" /\ power' = "on"
     ELSE UNCHANGED <<job, power>>
  /\ UNCHANGED <<queueVars, lastFid, clock, frozen, handler, camera, plug>>

SubmitFails ==
  /\ job \in {"submit", "resubmit"}
  /\ job' = IF job = "submit" THEN "abort" ELSE "reabort"
  /\ UNCHANGED <<queueVars, streamVars, submitted, power, camera, plug>>

\* uvc_uninit_video: the handler sees that the URB was killed.
Killing == job \in {"abort", "stop", "release", "suspend", "reabort"}
KillUrb ==
  /\ Killing
  /\ UrbEnds(FALSE)
  /\ UNCHANGED <<processVars, camera, plug>>


\* Mutant of Killed: the handler of the last URB may be running still.
KilledSoon == Killing /\ inFlight = 0

Killed == Killing /\ inFlight = 0 /\ ~handler.busy
CameraOff == camera' = [on |-> FALSE, fid |-> 0, next |-> 1]

\* The end of uvc_video_enable(stream, 0), and of a failed (stream, 1).
StreamStopped ==
  /\ Killed /\ job \in {"abort", "stop"}
  /\ job' = "none"
  /\ CameraOff
  /\ QueueDisable
  /\ clock' = FALSE
  /\ UNCHANGED <<lastFid, frozen, inFlight, handler, submitted, power, plug>>

\* uvc_v4l2_release: uvc_video_enable(stream, 0) and uvc_free_buffers.
StreamReleased ==
  /\ Killed /\ job = "release"
  /\ job' = "none"
  /\ CameraOff
  /\ streaming' = FALSE
  /\ vb' = [b \in Buffer |-> "dequeued"]
  /\ held' = [b \in Buffer |-> Empty("idle")]
  /\ posted' = <<>> /\ irqqueue' = <<>> /\ done' = <<>>
  /\ clock' = FALSE
  /\ UNCHANGED <<disconnected, lastFid, frozen, inFlight, handler,
                 submitted, power, plug>>

Suspend ==
  /\ job = "none" /\ power = "on" /\ plug = "in"
  /\ IF streaming
     THEN frozen' = TRUE /\ job' = "suspend" /\ power' = "falling"
     ELSE power' = "suspended" /\ UNCHANGED <<frozen, job>>
  /\ UNCHANGED <<queueVars, lastFid, clock, inFlight, handler, submitted, camera, plug>>

\* The URBs are gone and the buffers untouched.
Suspended ==
  /\ Killed /\ job = "suspend"
  /\ job' = "none" /\ power' = "suspended"
  /\ CameraOff
  /\ held' = Cut(held)
  /\ UNCHANGED <<vb, posted, irqqueue, done, streaming, disconnected, streamVars,
                 submitted, plug>>

Resume ==
  /\ power = "suspended"
  /\ power' = "rising" /\ job' = "recommit"
  /\ frozen' = FALSE
  /\ UNCHANGED <<queueVars, lastFid, clock, inFlight, handler, submitted, camera, plug>>

\* Mutant of ResumeFailed: the queue is left enabled.
ResumeFailedQuietly ==
  /\ Killed /\ job = "reabort"
  /\ job' = "none" /\ power' = "on"
  /\ UNCHANGED <<queueVars, streamVars, submitted, camera, plug>>

\* The end of a resume that failed: the application is to notice.
ResumeFailed ==
  /\ Killed /\ job = "reabort"
  /\ job' = "none" /\ power' = "on"
  /\ QueueDisable
  /\ UNCHANGED <<streamVars, submitted, camera, plug>>

\* The camera is unplugged: the core refuses URBs and shuts down the ones it
\* has, before uvc_disconnect unregisters the device.
Unplug ==
  /\ plug = "in" /\ power = "on"
  /\ plug' = "gone"
  /\ UNCHANGED <<queueVars, streamVars, processVars, camera>>

Unregister ==
  /\ plug = "gone" /\ inFlight = 0 /\ ~handler.busy
  /\ plug' = "unregistered"
  /\ UNCHANGED <<queueVars, streamVars, processVars, camera>>

\* What goes on without the application.
Driver ==
  \/ Interrupt \/ CameraUnheard
  \/ CommitStream \/ CommitFails \/ SubmitUrb \/ SubmitFails
  \/ KillUrb \/ Suspended \/ Resume \/ ResumeFailed
  \/ Unplug \/ Unregister
=============================================================================
