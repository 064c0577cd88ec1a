--------------------------- MODULE PrivilegeLock ----------------------------
(***************************************************************************)
(* What the privileges of uvcvideo_kmod/uvc_v4l2.c promise: "Only a single *)
(* instance can be in a privileged state at a given time."                 *)
(***************************************************************************)
CONSTANTS Handle, NoHandle

VARIABLE holder

Init == holder = NoHandle

Acquire(h) == holder = NoHandle /\ holder' = h
Dismiss(h) == holder = h /\ holder' = NoHandle

Next == \E h \in Handle : Acquire(h) \/ Dismiss(h)

Spec == Init /\ [][Next]_holder
=============================================================================
