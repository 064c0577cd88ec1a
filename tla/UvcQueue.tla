------------------------------ MODULE UvcQueue ------------------------------
(***************************************************************************)
(* The buffers of a camera: uvcvideo_kmod/uvc_queue.c on top of videobuf2. *)
(* A buffer is the application's, waits in videobuf2 for the stream to be  *)
(* enabled, waits on irqqueue for the interrupt handler to fill it, or is  *)
(* done and waits to be taken.  The mutex of the queue makes each call of  *)
(* the application one step; what irqlock protects is one step as well.    *)
(***************************************************************************)
EXTENDS Integers, SequencesExt

CONSTANTS
  Buffer,         \* the indices of the buffers
  FrameLen,       \* the length of a buffer and of a frame, in payloads
  DropCorrupted   \* UVC_QUEUE_DROP_CORRUPTED, unless the module has nodrop

\* (cubedriver.cpp:471 asks for two.)
ASSUME BufferAssumption == Buffer \subseteq Nat /\ Buffer # {}
ASSUME FrameLenAssumption == FrameLen \in Nat \ {0}
ASSUME DropAssumption == DropCorrupted \in BOOLEAN

None == -1
ASSUME NoneAssumption == None \notin Buffer

VARIABLES
  vb,        \* what videobuf2 knows of each buffer
  held,      \* what the driver knows of it, and what is in it
  posted,    \* the buffers queued while the stream is disabled
  irqqueue,  \* the buffers to be filled, irqqueue[1] under way
  done,      \* videobuf2's done_list
  streaming, \* videobuf2's queue is enabled
  disconnected  \* UVC_QUEUE_DISCONNECTED

queueVars == <<vb, held, posted, irqqueue, done, streaming, disconnected>>

\* State and error are the driver's, used is bytesused.  The rest is what the
\* driver cannot see: whether the payloads in the buffer are the first ones of
\* one frame, whether that frame is the one the device is sending, and whether
\* payloads of it were lost without a word.
Content == [state : {"idle", "queued", "active", "ready", "done", "error"},
            error : BOOLEAN, used : 0 .. FrameLen,
            torn : BOOLEAN, current : BOOLEAN, cut : BOOLEAN]

Empty(state) == [state |-> state, error |-> FALSE, used |-> 0,
                 torn |-> FALSE, current |-> FALSE, cut |-> FALSE]

QueueTypeOK ==
  /\ vb \in [Buffer -> {"dequeued", "queued", "active", "done"}]
  /\ held \in [Buffer -> Content]
  /\ posted \in Seq(Buffer) /\ irqqueue \in Seq(Buffer) /\ done \in Seq(Buffer)
  /\ streaming \in BOOLEAN /\ disconnected \in BOOLEAN

QueueInit ==
  /\ vb = [b \in Buffer |-> "dequeued"]
  /\ held = [b \in Buffer |-> Empty("idle")]
  /\ posted = <<>> /\ irqqueue = <<>> /\ done = <<>>
  /\ streaming = FALSE /\ disconnected = FALSE

-----------------------------------------------------------------------------
(***************************************************************************)
(* QBUF: videobuf2 asks uvc_buffer_prepare, and hands the buffer over with *)
(* uvc_buffer_queue when the stream is enabled.  The two lock separately.  *)
(***************************************************************************)
BufferPrepare(b) ==
  /\ vb[b] = "dequeued" /\ ~disconnected
  /\ held' = [held EXCEPT ![b] = Empty("queued")]
  /\ vb' = [vb EXCEPT ![b] = "queued"]
  /\ posted' = IF streaming THEN posted ELSE Append(posted, b)
  /\ UNCHANGED <<irqqueue, done, streaming, disconnected>>

\* Mutant of BufferQueue: the flag has been seen to, by BufferPrepare.
BufferQueueUnchecked(b) ==
  /\ irqqueue' = Append(irqqueue, b)
  /\ vb' = [vb EXCEPT ![b] = "active"]
  /\ UNCHANGED <<held, done, posted, streaming, disconnected>>

BufferQueue(b) ==
  /\ IF disconnected
     THEN /\ held' = [held EXCEPT ![b].state = "error"]
          /\ vb' = [vb EXCEPT ![b] = "done"]
          /\ done' = Append(done, b)
          /\ UNCHANGED irqqueue
     ELSE /\ irqqueue' = Append(irqqueue, b)
          /\ vb' = [vb EXCEPT ![b] = "active"]
          /\ UNCHANGED <<held, done>>
  /\ UNCHANGED <<posted, streaming, disconnected>>

\* DQBUF waits for this.
DequeueReady == done # <<>> \/ ~streaming

DequeueBuffer ==
  /\ streaming /\ done # <<>>
  /\ vb' = [vb EXCEPT ![Head(done)] = "dequeued"]
  /\ done' = Tail(done)
  /\ UNCHANGED <<held, posted, irqqueue, streaming, disconnected>>

\* poll() also reports that nothing is queued.
PollReady == done # <<>> \/ \A b \in Buffer : vb[b] = "dequeued"

\* uvc_queue_enable(queue, 1): what is posted goes to uvc_buffer_queue.
QueueEnable ==
  /\ streaming' = TRUE /\ posted' = <<>>
  /\ IF disconnected
     THEN /\ held' = [b \in Buffer |-> IF b \in ToSet(posted)
                                       THEN [held[b] EXCEPT !.state = "error"]
                                       ELSE held[b]]
          /\ done' = done \o posted
          /\ UNCHANGED irqqueue
     ELSE /\ irqqueue' = irqqueue \o posted
          /\ UNCHANGED <<held, done>>
  /\ vb' = [b \in Buffer |->
              IF b \notin ToSet(posted) THEN vb[b]
              ELSE IF disconnected THEN "done" ELSE "active"]
  /\ UNCHANGED disconnected

\* Mutant of QueueDisable: the buffers stay on irqqueue.
QueueDisableForgets ==
  IF streaming
  THEN /\ streaming' = FALSE
       /\ vb' = [b \in Buffer |-> "dequeued"]
       /\ held' = [b \in Buffer |-> Empty("idle")]
       /\ posted' = <<>> /\ done' = <<>>
       /\ UNCHANGED <<disconnected, irqqueue>>
  ELSE UNCHANGED queueVars

\* uvc_queue_enable(queue, 0): videobuf2 takes everything back, unless the
\* stream is not enabled.  Nobody looks into a buffer that was taken back or
\* cancelled before BufferPrepare has reset it: it may be empty.
QueueDisable ==
  IF streaming
  THEN /\ streaming' = FALSE
       /\ vb' = [b \in Buffer |-> "dequeued"]
       /\ held' = [b \in Buffer |-> Empty("idle")]
       /\ posted' = <<>> /\ irqqueue' = <<>> /\ done' = <<>>
       /\ UNCHANGED disconnected
  ELSE UNCHANGED queueVars

\* uvc_queue_cancel, in the interrupt handler.
QueueCancel(disconnect) ==
  /\ held' = [b \in Buffer |-> IF b \in ToSet(irqqueue)
                               THEN Empty("error") ELSE held[b]]
  /\ vb' = [b \in Buffer |-> IF b \in ToSet(irqqueue) THEN "done" ELSE vb[b]]
  /\ done' = done \o irqqueue
  /\ irqqueue' = <<>>
  /\ disconnected' = (disconnected \/ disconnect)
  /\ UNCHANGED <<posted, streaming>>

-----------------------------------------------------------------------------
(***************************************************************************)
(* The interrupt handler works on what it has in hand: a record of the     *)
(* buffer it fills, or None, and the parts of the queue it may change.     *)
(***************************************************************************)
FirstBuffer == IF irqqueue = <<>> THEN None ELSE irqqueue[1]

\* Mutant of NextBuffer: the error of a frame is forgotten.
NextBufferUnchecked(h) ==
  [h EXCEPT !.held[h.buf].state = "done",
            !.irqqueue = Tail(@),
            !.vb[h.buf] = "done",
            !.done = Append(@, h.buf),
            !.buf = IF Len(h.irqqueue) > 1 THEN h.irqqueue[2] ELSE None]

\* uvc_queue_next_buffer: an incomplete frame is written over by the next one.
NextBuffer(h) ==
  IF DropCorrupted /\ h.held[h.buf].error
  THEN [h EXCEPT !.held[h.buf] = Empty("queued")]
  ELSE [h EXCEPT !.held[h.buf].state =
                   IF h.held[h.buf].error THEN "error" ELSE "done",
                 !.irqqueue = Tail(@),
                 !.vb[h.buf] = "done",
                 !.done = Append(@, h.buf),
                 !.buf = IF Len(h.irqqueue) > 1 THEN h.irqqueue[2] ELSE None]
=============================================================================
