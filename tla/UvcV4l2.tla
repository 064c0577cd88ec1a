------------------------------ MODULE UvcV4l2 -------------------------------
(***************************************************************************)
(* The file handles of a video node, uvcvideo_kmod/uvc_v4l2.c: the ioctls  *)
(* that need privileges, how a handle acquires and dismisses them, and the *)
(* format and the buffers they protect.  Threads run ioctls at the same    *)
(* time; stream->mutex makes some of their steps one step.                 *)
(***************************************************************************)
EXTENDS UvcFormat

CONSTANTS
  Thread, Handle,
  Shared,        \* two threads may use a handle at the same time
  Descriptors,   \* the descriptors of the cameras that may be plugged in
  Requests,      \* the [fcc, w, h] that programs ask for
  Fractions,     \* the <<numerator, denominator>> that programs ask for
  Sizes,         \* what a camera says of the size of a compressed frame
  Payloads,      \* and of the bandwidth it needs
  Packets,       \* wMaxPacketSize of the alternate settings
  Quirks,        \* of UVC_QUIRK_PROBE_MINMAX and UVC_QUIRK_FIX_BANDWIDTH
  None

ASSUME HandlesAssumption ==
  /\ None \notin Handle /\ Shared \in BOOLEAN
  /\ IsFiniteSet(Thread) /\ IsFiniteSet(Handle)

\* What is read from a descriptor, and asked for, are numbers without a sign.
ASSUME NumbersAssumption ==
  /\ Sizes \subseteq Nat /\ \A r \in Requests : r.w \in Nat /\ r.h \in Nat
  /\ \A ds \in Descriptors :
       LET fs == Parse(ds)
       IN /\ DOMAIN fs \subseteq Nat
          /\ \A f \in DOMAIN fs :
               /\ fs[f].frames \in Seq(ToSet(fs[f].frames))
               /\ \A frame \in ToSet(fs[f].frames) :
                    frame.width \in Nat /\ frame.height \in Nat /\ frame.size \in Nat

VARIABLES
  formats,   \* stream->format
  state,     \* the handles
  active,    \* stream->active
  def_format, cur,   \* stream->def_format, cur_format and cur_frame, as indices
  ctrl,      \* stream->ctrl: format, frame, interval, size, payload
  queue,     \* the buffers: their size, 0 when there are none, and who asked
  thread,    \* what each thread is doing
  arg        \* what its ioctl was given, and what S_FMT has chosen

parsed == <<formats, def_format>>
vars == <<parsed, state, active, cur, ctrl, queue, thread, arg>>

Idle == [op |-> "none", at |-> "idle", handle |-> None]
Format(c) == formats[c.format]
Frame(c) == Format(c).frames[c.frame]
NoBuffers == [size |-> 0, owner |-> None, streaming |-> FALSE]

At == {"idle", "acquire", "increment", "undo", "grant", "work", "assign",
       "dismiss", "decrement", "passive", "close"}
OpName == {"none", "S_INPUT", "S_FMT", "S_PARM", "REQBUFS", "STREAMON", "STREAMOFF", "release"}

LockTypeOK ==
  /\ state \in [Handle -> {"closed", "passive", "active"}]
  /\ active \in Int
  /\ thread \in [Thread -> [op : OpName, at : At, handle : Handle \cup {None}]]

TypeOK ==
  /\ LockTypeOK
  /\ def_format \in DOMAIN formats
  /\ cur \in [format : DOMAIN formats, frame : Nat] /\ cur.frame \in DOMAIN Format(cur).frames
  /\ queue \in [size : Nat, owner : Handle \cup {None}, streaming : BOOLEAN]

\* uvc_get_video_ctrl: what a camera may answer.  It keeps what it was asked
\* for, and says how large a compressed frame may be, and what bandwidth it
\* needs.
Answer(c, interval, size, payload) ==
  LET format == formats[c.format]
      frame == format.frames[c.frame]
      fixed == ~format.compressed /\ "FIX_BANDWIDTH" \in Quirks
  IN [format |-> c.format, frame |-> c.frame, interval |-> interval,
      size |-> Fixup(format, frame, size),
      payload |-> IF fixed THEN EstimatedBandwidth(format, frame, interval, TRUE) ELSE payload]

Answers(c, interval) ==
  {Answer(c, interval, size, payload) : size \in Sizes, payload \in Payloads}

\* uvc_probe_video: what needs too much is asked again, for another quality,
\* and then taken as it is.  (The bandwidth is kept in 16 bits.)
Exceeds(answer) == answer.payload % 65536 > MaxPacketSize(Packets)
Probed(c, interval) ==
  {a \in Answers(c, interval) : ~Exceeds(a) \/ "PROBE_MINMAX" \notin Quirks}

\* uvc_video_init: the camera's own choice, or the first format and frame.
Init ==
  /\ formats \in {Parse(ds) : ds \in Descriptors}
  /\ state = [h \in Handle |-> "closed"] /\ active = 0
  /\ \E f \in DOMAIN formats :
       /\ def_format = f
       /\ cur \in [format : {f}, frame : DOMAIN formats[f].frames]
       /\ ctrl \in Answers(cur, Frame(cur).default)
  /\ queue = NoBuffers
  /\ thread = [t \in Thread |-> Idle] /\ arg = [t \in Thread |-> None]

-----------------------------------------------------------------------------
InUse(h) == \E t \in Thread : thread[t].handle = h
Goes(t, at) == thread' = [thread EXCEPT ![t].at = at] /\ UNCHANGED arg
Ends(t) == thread' = [thread EXCEPT ![t] = Idle] /\ arg' = [arg EXCEPT ![t] = None]

\* uvc_v4l2_open
Open(h) ==
  /\ state[h] = "closed"
  /\ state' = [state EXCEPT ![h] = "passive"]
  /\ UNCHANGED <<parsed, active, cur, ctrl, queue, thread, arg>>

\* uvc_v4l2_do_ioctl: VIDIOC_S_INPUT acquires privileges and no more.
Operations ==
  {"S_INPUT", "STREAMON", "STREAMOFF"} \X {None}
    \cup {"S_FMT"} \X Requests \cup {"S_PARM"} \X Fractions \cup {"REQBUFS"} \X {0, 1}
Acquires(op) == op \in {"S_INPUT", "S_FMT", "S_PARM", "REQBUFS"}

Call(t, h, o) ==
  /\ thread[t] = Idle /\ state[h] # "closed" /\ (Shared \/ ~InUse(h))
  /\ \A u \in Thread : thread[u].handle = h => thread[u].op # "release"
  /\ thread' = [thread EXCEPT ![t] =
       [op |-> o[1], handle |-> h, at |-> IF Acquires(o[1]) THEN "acquire" ELSE "work"]]
  /\ arg' = [arg EXCEPT ![t] = o[2]]
  /\ UNCHANGED <<parsed, state, active, cur, ctrl, queue>>

\* uvc_acquire_privileges: the test, the atomic increment, the grant.
Acquire(t) ==
  /\ thread[t].at = "acquire"
  /\ Goes(t, IF state[thread[t].handle] = "active" THEN "work" ELSE "increment")
  /\ UNCHANGED <<parsed, state, active, cur, ctrl, queue>>

\* Mutant of Increment: the count is not looked at.
IncrementOnly(t) ==
  /\ thread[t].at = "increment"
  /\ active' = active + 1
  /\ Goes(t, "grant")
  /\ UNCHANGED <<parsed, state, cur, ctrl, queue>>

Increment(t) ==
  /\ thread[t].at = "increment"
  /\ active' = active + 1
  /\ Goes(t, IF active' = 1 THEN "grant" ELSE "undo")
  /\ UNCHANGED <<parsed, state, cur, ctrl, queue>>

\* Mutant of Undo: EBUSY without the decrement.
UndoForgets(t) ==
  /\ thread[t].at = "undo"
  /\ Ends(t)
  /\ UNCHANGED <<parsed, state, active, cur, ctrl, queue>>

Undo(t) ==
  /\ thread[t].at = "undo"
  /\ active' = active - 1
  /\ Ends(t)
  /\ UNCHANGED <<parsed, state, cur, ctrl, queue>>

Grant(t) ==
  /\ thread[t].at = "grant"
  /\ state' = [state EXCEPT ![thread[t].handle] = "active"]
  /\ Goes(t, "work")
  /\ UNCHANGED <<parsed, active, cur, ctrl, queue>>

\* uvc_dismiss_privileges: the test, the atomic decrement, the state.
Dismiss(t) ==
  /\ thread[t].at = "dismiss"
  /\ Goes(t, IF state[thread[t].handle] = "active" THEN "decrement" ELSE "passive")
  /\ UNCHANGED <<parsed, state, active, cur, ctrl, queue>>

Decrement(t) ==
  /\ thread[t].at = "decrement"
  /\ active' = active - 1
  /\ Goes(t, "passive")
  /\ UNCHANGED <<parsed, state, cur, ctrl, queue>>

Passive(t) ==
  /\ thread[t].at = "passive"
  /\ state' = [state EXCEPT ![thread[t].handle] = "passive"]
  /\ IF thread[t].op = "release" THEN Goes(t, "close") ELSE Ends(t)
  /\ UNCHANGED <<parsed, active, cur, ctrl, queue>>

-----------------------------------------------------------------------------
Works(t, op) == thread[t].at = "work" /\ thread[t].op = op

SetInput(t) ==
  /\ Works(t, "S_INPUT")
  /\ Ends(t)
  /\ UNCHANGED <<parsed, state, active, cur, ctrl, queue>>

\* uvc_v4l2_try_format, the probe under stream->mutex: the camera may refuse.
ChosenFormat(r) == TryFormat(formats, def_format, r.fcc)
Chosen(r) ==
  LET f == ChosenFormat(r)
  IN [format |-> f, frame |-> TryFrame(formats[f], r.w, r.h)]

Failed(t) == Ends(t) /\ UNCHANGED <<parsed, state, active, cur, ctrl, queue>>

TryFmt(t) ==
  /\ Works(t, "S_FMT")
  /\ \/ Failed(t)
     \/ /\ formats[ChosenFormat(arg[t])].frames # <<>>
        /\ LET c == Chosen(arg[t])
               frame == formats[c.format].frames[c.frame]
           IN \E probe \in Probed(c, TryFrameInterval(frame, frame.default)) :
                /\ thread' = [thread EXCEPT ![t].at = "assign"]
                /\ arg' = [arg EXCEPT ![t] = [request |-> @, cur |-> c, ctrl |-> probe]]
                /\ UNCHANGED <<parsed, state, active, cur, ctrl, queue>>

\* Mutant of SetFormat: only streaming keeps the format from changing.
SetFormatAllocated(t) ==
  /\ thread[t].at = "assign"
  /\ IF queue.streaming THEN UNCHANGED <<cur, ctrl>>
     ELSE cur' = arg[t].cur /\ ctrl' = arg[t].ctrl
  /\ Ends(t)
  /\ UNCHANGED <<parsed, state, active, queue>>

\* The rest of uvc_v4l2_set_format, under stream->mutex again.
SetFormat(t) ==
  /\ thread[t].at = "assign"
  /\ IF queue.size # 0 THEN UNCHANGED <<cur, ctrl>>
     ELSE cur' = arg[t].cur /\ ctrl' = arg[t].ctrl
  /\ Ends(t)
  /\ UNCHANGED <<parsed, state, active, queue>>

\* uvc_v4l2_get_format and uvc_v4l2_get_streamparm, under stream->mutex.
GetFormat == [fcc |-> Format(cur).fcc, w |-> Frame(cur).width, h |-> Frame(cur).height]
GetParm == Simplify(ctrl.interval, Unit)

\* uvc_v4l2_set_streamparm, under stream->mutex.
Interval(fraction) == TryFrameInterval(Frame(cur), FractionToInterval(fraction[1], fraction[2]))

SetParm(t) ==
  /\ Works(t, "S_PARM")
  /\ \/ Failed(t)
     \/ /\ ~queue.streaming
        /\ ctrl' \in Probed(ctrl, Interval(arg[t]))
        /\ Ends(t)
        /\ UNCHANGED <<parsed, state, active, cur, queue>>

\* VIDIOC_REQBUFS: videobuf2 refuses while it streams, frees what there is
\* and allocates by uvc_queue_setup, which may fail.
ReqBufs(t) ==
  /\ Works(t, "REQBUFS")
  /\ \/ Failed(t) /\ queue.streaming
     \/ /\ ~queue.streaming /\ arg[t] > 0
        /\ queue' \in {[size |-> ctrl.size, owner |-> thread[t].handle, streaming |-> FALSE],
                      NoBuffers}
        /\ Ends(t)
        /\ UNCHANGED <<parsed, state, active, cur, ctrl>>
     \/ /\ ~queue.streaming /\ arg[t] = 0
        /\ queue' = NoBuffers
        /\ Goes(t, "dismiss")
        /\ UNCHANGED <<parsed, state, active, cur, ctrl>>

HasPrivileges(t) == state[thread[t].handle] = "active"

\* uvc_video_enable(stream, 1), under stream->mutex: also when it streams.
StreamOn(t) ==
  /\ Works(t, "STREAMON")
  /\ \/ Failed(t)
     \/ /\ HasPrivileges(t) /\ queue.size # 0 /\ FastEnough(Packets) # {}
        /\ queue' = [queue EXCEPT !.streaming = TRUE]
        /\ Ends(t)
        /\ UNCHANGED <<parsed, state, active, cur, ctrl>>

\* uvc_video_enable(stream, 0), without it.
StreamOff(t) ==
  /\ Works(t, "STREAMOFF")
  /\ queue' = IF HasPrivileges(t) THEN [queue EXCEPT !.streaming = FALSE] ELSE queue
  /\ Ends(t)
  /\ UNCHANGED <<parsed, state, active, cur, ctrl>>

-----------------------------------------------------------------------------
\* uvc_v4l2_release, when no ioctl uses the handle any more.
BeginRelease(t, h) ==
  /\ thread[t] = Idle /\ state[h] # "closed" /\ ~InUse(h)
  /\ thread' = [thread EXCEPT ![t] = [op |-> "release", at |-> "work", handle |-> h]]
  /\ UNCHANGED <<parsed, state, active, cur, ctrl, queue, arg>>

\* Mutant of FreeBuffers: the privileges go, the buffers stay.
KeepBuffers(t) ==
  /\ Works(t, "release")
  /\ Goes(t, "dismiss")
  /\ UNCHANGED <<parsed, state, active, cur, ctrl, queue>>

FreeBuffers(t) ==
  /\ Works(t, "release")
  /\ queue' = IF HasPrivileges(t) THEN NoBuffers ELSE queue
  /\ Goes(t, "dismiss")
  /\ UNCHANGED <<parsed, state, active, cur, ctrl>>

Close(t) ==
  /\ thread[t].at = "close"
  /\ state' = [state EXCEPT ![thread[t].handle] = "closed"]
  /\ Ends(t)
  /\ UNCHANGED <<parsed, active, cur, ctrl, queue>>

Step(t) ==
  \/ Acquire(t) \/ Increment(t) \/ Undo(t) \/ Grant(t)
  \/ Dismiss(t) \/ Decrement(t) \/ Passive(t)
  \/ SetInput(t) \/ TryFmt(t) \/ SetFormat(t) \/ SetParm(t) \/ ReqBufs(t)
  \/ StreamOn(t) \/ StreamOff(t) \/ FreeBuffers(t) \/ Close(t)

Next ==
  \/ \E h \in Handle : Open(h)
  \/ \E t \in Thread, h \in Handle : BeginRelease(t, h) \/ \E o \in Operations : Call(t, h, o)
  \/ \E t \in Thread : Step(t)

Spec == Init /\ [][Next]_vars

-----------------------------------------------------------------------------
\* Who holds the privileges: from the increment that was the first to the
\* decrement.
Granted(h) == \E t \in Thread : thread[t].at = "grant" /\ thread[t].handle = h
Letting(h) == \E t \in Thread : thread[t].at = "passive" /\ thread[t].handle = h
Holds(h) == Granted(h) \/ (state[h] = "active" /\ ~Letting(h))
holder == IF \E h \in Handle : Holds(h) THEN CHOOSE h \in Handle : Holds(h) ELSE None

Lock == INSTANCE PrivilegeLock WITH NoHandle <- None

\* The handles are a lock: one handle has it until that handle dismisses it.
\* (uvc_acquire_privileges, uvc_dismiss_privileges.)
IsLock == Lock!Spec

\* Buffers belong to the handle that has the privileges until it has freed
\* them: nobody loses the right to free what it allocated.  And when no ioctl is
\* acquiring or dismissing, the count says whether there is a holder: a refused
\* handle has left nothing behind that locks all out.
\* (VIDIOC_REQBUFS, uvc_v4l2_release; uvc_acquire_privileges.)
OwnerHolds ==
  /\ queue.size # 0 => Holds(queue.owner)
  /\ (\A t \in Thread : thread[t].at \notin {"undo", "grant", "passive"}) =>
       active = Cardinality({h \in Handle : state[h] = "active"})

\* OwnerHolds and IsLock, made inductive: a thread that is busy has an open handle
\* of its own; it knows whether that handle is active; the count is that of
\* the holders and of those who were refused and have not said so yet; and
\* who lets go has no buffers left.
UseInv ==
  \A t \in Thread :
    /\ thread[t].at = "idle" <=> thread[t].handle = None
    /\ thread[t].handle # None =>
         /\ state[thread[t].handle] # "closed"
         /\ \A u \in Thread : thread[u].handle = thread[t].handle => u = t

PrivilegeInv ==
  \A t \in Thread :
    /\ thread[t].at \in {"increment", "undo", "grant", "close"} =>
         state[thread[t].handle] = "passive"
    /\ thread[t].at = "decrement" \/ (thread[t].at = "work" /\ Acquires(thread[t].op)) =>
         state[thread[t].handle] = "active"

Holders == {h \in Handle : Holds(h)}
Undoing == {t \in Thread : thread[t].at = "undo"}

CountInv ==
  /\ active = Cardinality(Holders) + Cardinality(Undoing)
  /\ \A g, h \in Holders : g = h

BufferInv ==
  /\ {"size", "owner"} \subseteq DOMAIN queue
  /\ queue.size # 0 =>
       /\ queue.owner \in Handle /\ state[queue.owner] = "active"
       /\ \A t \in Thread : thread[t].handle = queue.owner =>
            thread[t].at \notin {"dismiss", "decrement", "passive"}

IInv == LockTypeOK /\ UseInv /\ PrivilegeInv /\ CountInv /\ BufferInv

\* The buffers are as large as the frames that the camera was asked for, if
\* it does not compress them: the format may not change under the buffers,
\* though it is tried without the lock it is set with.
BuffersFit ==
  queue.size # 0 /\ ~Format(ctrl).compressed => queue.size >= ctrl.size

\* BuffersFit, made inductive: what the camera has been asked for, and what a thread
\* is about to set, is a frame it has, and of its size.
Place(c) == [format |-> c.format, frame |-> c.frame]
IsSized(c) ==
  /\ c.format \in DOMAIN formats /\ c.frame \in DOMAIN Format(c).frames
  /\ c.size \in Nat
  /\ ~Format(c).compressed => c.size = Frame(c).size

FitInv ==
  /\ \E ds \in Descriptors : formats = Parse(ds)
  /\ def_format \in DOMAIN formats
  /\ IsSized(ctrl) /\ cur = Place(ctrl)
  /\ DOMAIN arg = Thread
  /\ \A t \in Thread : thread[t].op = "S_FMT" =>
       IF thread[t].at = "assign"
       THEN IsSized(arg[t].ctrl) /\ arg[t].cur = Place(arg[t].ctrl)
       ELSE arg[t] \in Requests
  /\ \A t \in Thread : thread[t].at = "assign" => thread[t].op = "S_FMT"
  /\ BuffersFit

\* What S_FMT and TRY_FMT choose is the frame that is nearest, with an interval
\* it offers; a program that sets the format or the interval it has got gets the
\* same one again, if the frame lists its intervals: the fraction is near enough.
\* And every size and every interval that is enumerated can be had by who comes
\* to have the privileges.
\* (The comments in uvc_v4l2_try_format; uvc_simplify_fraction,
\* uvc_fraction_to_interval, uvc_try_frame_interval, VIDIOC_ENUM_FRAMEINTERVALS.)
NearestChosen ==
  /\ \A t \in Thread : thread[t].at = "assign" =>
       LET c == arg[t].cur  r == arg[t].request
       IN /\ NearestFrame(Format(c), Frame(c), r.w, r.h)
          /\ Offers(Frame(c), arg[t].ctrl.interval)
  /\ Chosen(GetFormat) = cur
  /\ ~Frame(cur).stepwise => Interval(GetParm) = ctrl.interval
  /\ \A size \in EnumFrameSizes(formats, Format(cur).fcc) :
       LET c == Chosen(size)
       IN active = 0 =>
          /\ [fcc |-> Format(c).fcc, w |-> Frame(c).width, h |-> Frame(c).height] = size
          /\ \A fraction \in EnumIntervals(formats, size) :
               Simplify(TryFrameInterval(Frame(c), FractionToInterval(fraction[1], fraction[2])), Unit)
                 = fraction
=============================================================================
