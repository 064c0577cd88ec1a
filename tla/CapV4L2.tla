------------------------------ MODULE CapV4L2 -------------------------------
(***************************************************************************)
(* The program's side of a camera: the CapV4L2 object of                   *)
(* src/cubedriver/capv4l2.cpp and the loop that calls it, over the driver  *)
(* of UvcVideo.  Every error of an ioctl is an exception, which ends the   *)
(* program: the destructors stop the stream and close the device.  The     *)
(* program may be started again, and the camera be plugged in again.       *)
(***************************************************************************)
EXTENDS UvcVideo

VARIABLES
  pc,          \* where the program is
  cur,         \* the buffer that is converted, or None
  captureOn_,
  polls        \* App::loop polls the camera first, main of capv4l2.cpp does not

appVars == <<pc, cur, captureOn_, polls>>
vars == <<videoVars, appVars>>

\* In "starting" it waits for STREAMON, in "dequeue" for DQBUF; "queue" is the
\* second half of QBUF; in "unwinding" and "closing" destructors run.
Place == {"off", "post", "starting", "loop", "call", "dequeue", "convert",
          "queue", "unwinding", "closing"}

TypeOK ==
  /\ VideoTypeOK
  /\ pc \in Place /\ cur \in Buffer \cup {None}
  /\ captureOn_ \in BOOLEAN /\ polls \in BOOLEAN

Init ==
  /\ VideoInit
  /\ pc = "off" /\ cur = None /\ captureOn_ = FALSE /\ polls \in BOOLEAN

\* The program runs, and every call it made of the driver has ended.
Runs == power = "on" /\ job = "none"
Registered == plug # "unregistered"

Throw == pc' = "unwinding" /\ UNCHANGED <<cur, captureOn_, polls>>

-----------------------------------------------------------------------------
\* The constructor opens the device and has the buffers allocated.
Open ==
  /\ Runs /\ pc = "off" /\ plug = "in"
  /\ pc' = "post"
  /\ held' = [b \in Buffer |-> Empty("idle")]
  /\ UNCHANGED <<vb, posted, irqqueue, done, streaming, disconnected,
                 streamVars, processVars, camera, plug, cur, captureOn_, polls>>

\* captureOn: the buffers in the order of their indices, and STREAMON.
Unposted == {b \in Buffer : vb[b] = "dequeued"}

PostBuffer ==
  /\ Runs /\ pc = "post" /\ Unposted # {}
  /\ IF Registered /\ ~disconnected
     THEN BufferPrepare(Min(Unposted)) /\ UNCHANGED appVars
     ELSE Throw /\ UNCHANGED queueVars
  /\ UNCHANGED <<streamVars, processVars, camera, plug>>

StreamOn ==
  /\ Runs /\ pc = "post" /\ Unposted = {}
  /\ IF Registered
     THEN StartStream /\ pc' = "starting" /\ UNCHANGED <<cur, captureOn_, polls>>
     ELSE Throw /\ UNCHANGED videoVars

StreamIsOn ==
  /\ Runs /\ pc = "starting"
  /\ IF streaming
     THEN captureOn_' = TRUE /\ pc' = "loop" /\ UNCHANGED <<cur, polls>>
     ELSE Throw
  /\ UNCHANGED videoVars

\* Mutant of Loop: poll is not asked.
LoopUnasked ==
  /\ Runs /\ pc = "loop"
  /\ pc' = "call"
  /\ UNCHANGED <<videoVars, cur, captureOn_, polls>>

\* One turn of App::loop: the camera has something to say.
Loop ==
  /\ Runs /\ pc = "loop"
  /\ polls => PollReady \/ ~Registered
  /\ pc' = "call"
  /\ UNCHANGED <<videoVars, cur, captureOn_, polls>>

\* App::loop ends.
Quit == Runs /\ pc = "loop" /\ Throw /\ UNCHANGED videoVars

\* nextFrameBlocking: DQBUF, which waits, the conversion, and QBUF.
CallDequeue ==
  /\ Runs /\ pc = "call"
  /\ IF Registered THEN pc' = "dequeue" /\ UNCHANGED <<cur, captureOn_, polls>>
     ELSE Throw
  /\ UNCHANGED videoVars

Dequeue ==
  /\ Runs /\ pc = "dequeue" /\ DequeueReady
  /\ IF streaming
     THEN /\ DequeueBuffer
          /\ pc' = "convert" /\ cur' = Head(done)
          /\ UNCHANGED <<captureOn_, polls>>
     ELSE Throw /\ UNCHANGED queueVars
  /\ UNCHANGED <<streamVars, processVars, camera, plug>>

Requeue ==
  /\ Runs /\ pc = "convert"
  /\ IF Registered /\ ~disconnected
     THEN /\ BufferPrepare(cur)
          /\ pc' = IF streaming THEN "queue" ELSE "loop"
          /\ cur' = IF streaming THEN cur ELSE None
          /\ UNCHANGED <<captureOn_, polls>>
     ELSE Throw /\ UNCHANGED queueVars
  /\ UNCHANGED <<streamVars, processVars, camera, plug>>

RequeueEnds ==
  /\ Runs /\ pc = "queue"
  /\ BufferQueue(cur)
  /\ pc' = "loop" /\ cur' = None
  /\ UNCHANGED <<streamVars, processVars, camera, plug, captureOn_, polls>>

\* captureOff, in the destructor: an error of STREAMOFF is ignored.
CaptureOff ==
  /\ Runs /\ pc = "unwinding"
  /\ pc' = "closing" /\ cur' = None /\ captureOn_' = FALSE
  /\ job' = IF captureOn_ /\ Registered THEN "stop" ELSE "none"
  /\ UNCHANGED <<queueVars, streamVars, submitted, power, camera, plug, polls>>

\* uvc_v4l2_release.
Close ==
  /\ Runs /\ pc = "closing"
  /\ pc' = "off" /\ job' = "release"
  /\ UNCHANGED <<queueVars, streamVars, submitted, power, camera, plug,
                 cur, captureOn_, polls>>

\* A suspension waits for the calls of the program; DQBUF is one it breaks off.
SuspendComputer == pc \notin {"starting", "queue"} /\ Suspend /\ UNCHANGED appVars

\* The camera is plugged in again: another device to the driver.
Replug ==
  /\ Runs /\ pc = "off" /\ plug = "unregistered"
  /\ plug' = "in" /\ disconnected' = FALSE
  /\ UNCHANGED <<vb, held, posted, irqqueue, done, streaming, streamVars,
                 processVars, camera, appVars>>

Program ==
  \/ Open \/ PostBuffer \/ StreamOn \/ StreamIsOn \/ Loop \/ CallDequeue
  \/ Dequeue \/ Requeue \/ RequeueEnds \/ CaptureOff \/ Close

DriverStep == (Driver \/ StreamStopped \/ StreamReleased) /\ UNCHANGED appVars

Next == Program \/ Quit \/ DriverStep \/ SuspendComputer \/ Replug

\* The handler runs to its end, the core gives back the URBs of a camera that
\* is gone and those it is told to kill, a suspended computer is resumed, and
\* the program takes what it waits for in the time it has in between.
HandlerRuns ==
  handler.busy /\ handler' \in [left : 0 .. PerUrb, buf : Buffer \cup {None}, busy : BOOLEAN]

Spec ==
  /\ Init /\ [][Next]_vars
  /\ WF_handler(HandlerRuns)
  /\ WF_vars(UrbShutDown /\ UNCHANGED appVars) /\ SF_vars(KillUrb /\ UNCHANGED appVars)
  /\ WF_vars((Suspended \/ Resume \/ CommitStream \/ SubmitUrb \/ ResumeFailed)
             /\ UNCHANGED appVars)
  /\ SF_vars(Dequeue)

-----------------------------------------------------------------------------
\* A buffer is in the list its state says, once and in no other, and the
\* handler fills the first one of irqqueue: never one the program converts.
\* (uvc_queue.c, the lists under irqlock; uvc_video.c, buf across payloads.)
OneOwner ==
  /\ \A b \in Buffer :
       /\ vb[b] = "active" <=> b \in ToSet(irqqueue)
       /\ vb[b] = "done" <=> b \in ToSet(done)
       /\ vb[b] = "queued" <=> b \in ToSet(posted) \/ (pc = "queue" /\ b = cur)
  /\ IsInjective(irqqueue \o done \o posted)
  /\ handler.buf # None => irqqueue # <<>> /\ handler.buf = irqqueue[1]
  /\ pc = "convert" => vb[cur] = "dequeued"

\* What the driver calls a good frame is one: its payloads are the first ones
\* of one frame, and all of them, unless a change of FID or an end of frame
\* was lost without a word.  (uvc_video_decode_start, the check of the length
\* in uvc_video_decode_isoc, uvc_queue_next_buffer.)
WholeFrames ==
  pc = "convert" /\ held[cur].state = "done" /\ ~held[cur].cut
    => ~held[cur].torn /\ held[cur].used = FrameLen

\* Nobody waits in vain: the loop that polls never waits in DQBUF, for the other
\* camera and the serial line are served by the same thread (App::loop), and
\* after the camera has gone nobody does, not even with a QBUF that raced with
\* the last URB.  (uvc_queue_cancel; the second look at the flag, in
\* uvc_buffer_queue.)
NobodyWaitsInVain ==
  /\ polls /\ pc = "dequeue" => DequeueReady
  /\ disconnected /\ pc = "dequeue" => irqqueue = <<>> /\ DequeueReady

\* The clock samples are there as long as a handler may use them.
\* (uvc_video_enable: uvc_video_clock_cleanup after uvc_uninit_video.)
ClockOutlivesUrbs == inFlight > 0 \/ handler.busy => clock

\* Whoever waits for a frame is woken when the camera is unplugged while URBs
\* are out, and when a resume fails.  (uvc_queue_cancel; uvc_video_resume.)
NoticeEnds ==
  pc = "dequeue" /\ ((plug # "in" /\ inFlight > 0) \/ job = "reabort")
    ~> pc # "dequeue"
-----------------------------------------------------------------------------
\* What makes these inductive.  Who is doing what: URBs are out only while the
\* stream is enabled and not being committed, the handler has one of those that
\* were submitted, and each job has its place in the program or in the way to
\* sleep and back.
ProcessInv ==
  /\ inFlight + (IF handler.busy THEN 1 ELSE 0) <= submitted
  /\ inFlight > 0 \/ handler.busy =>
       streaming /\ job \notin {"commit", "recommit"} /\ power # "suspended"
  /\ ~handler.busy => handler = Idle
  /\ streaming => clock /\ posted = <<>>
  /\ ~streaming => irqqueue = <<>>
  /\ job \in {"commit", "submit", "resubmit", "suspend"} => streaming
  /\ job \in {"commit", "submit", "abort"} => pc = "starting"
  /\ job = "stop" => pc = "closing"
  /\ job = "release" => pc = "off"
  /\ power = "suspended" => job = "none"
  /\ pc = "post" => ~streaming
  /\ pc = "off" /\ job # "release" => ~streaming /\ posted = <<>>
  /\ pc = "queue" => job = "none" /\ power = "on" /\ streaming

\* What is in the buffers.  One that waits to be filled is fresh.  The one under
\* way holds, unless it is known to be spoilt, a part of the frame the camera is
\* sending, and payloads that are missing in it are missing at its end.
Fresh(b) == held[b] = Empty("queued")
Spoilt(c) == c.error \/ c.cut
Growing(c) ==
  /\ c.current /\ lastFid = camera.fid /\ c.used < camera.next
  /\ c.torn => c.used + 1 < camera.next

FillInv ==
  /\ \A b \in Buffer :
       held[b].state = "done" /\ ~held[b].cut => ~held[b].torn /\ held[b].used = FrameLen
  /\ \A b \in ToSet(posted) : Fresh(b)
  /\ pc = "queue" => Fresh(cur)
  /\ \A i \in 2 .. Len(irqqueue) : Fresh(irqqueue[i])
  /\ irqqueue # <<>> =>
       LET c == held[irqqueue[1]]
       IN /\ c.state \in {"queued", "active"}
          /\ c.used = 0 => ~c.torn
          /\ c.used # 0 => c.state = "active" /\ (Spoilt(c) \/ Growing(c))
          /\ handler.busy /\ handler.buf = None => Fresh(irqqueue[1])
          /\ job \in {"commit", "recommit"} \/ power = "suspended" => c.used = 0 \/ Spoilt(c)

\* Who has which buffer while the stream is enabled: the program at most the one
\* it converts.  A camera that is gone has none.
WaitInv ==
  /\ disconnected => irqqueue = <<>>
  /\ pc \in {"convert", "queue"} => cur \in Buffer
  /\ streaming /\ pc \in {"starting", "loop", "call", "dequeue", "convert", "queue"} =>
       \A b \in Buffer : vb[b] = "dequeued" => pc = "convert" /\ b = cur
  /\ polls /\ pc = "call" => DequeueReady \/ ~Registered
  /\ polls /\ pc = "dequeue" => DequeueReady

IInv == TypeOK /\ ProcessInv /\ OneOwner /\ FillInv /\ WaitInv
=============================================================================
