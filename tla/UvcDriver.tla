----------------------------- MODULE UvcDriver ------------------------------
(***************************************************************************)
(* The life of a camera in uvcvideo_kmod: uvc_probe of uvc_driver.c finds  *)
(* the chains and registers a video node for each stream, programs open    *)
(* and close the nodes (uvc_v4l2.c), the status URB of uvc_status.c runs   *)
(* while one is open, the computer suspends and resumes, and the camera is *)
(* unplugged.  The uvc_device is freed by whoever lets go of it last.      *)
(***************************************************************************)
EXTENDS UvcChain

CONSTANTS
  Cameras,    \* the descriptors of the cameras that may be plugged in
  Handle

Ids == 1 .. 8   \* of the entities: a byte, in the code

\* uvc_register_terms: the streaming terminals of the chains, in order, that a
\* streaming interface belongs to.
Terms(es, ss, chains) ==
  LET Streaming(id) == ById(es, id).type \in {"STREAM_IN", "STREAM_OUT"} /\ id \in ss
  IN SelectSeq(FlattenSeq(chains), Streaming)

\* A process has its handles.  A camera has each streaming terminal once, and no
\* two chains have it: its node is registered once.
ASSUME HandleAssumption == IsFiniteSet(Handle)
ASSUME CamerasAssumption ==
  \A ds \in Cameras :
    LET parsed == ParseControl(ds)
        terms == Terms(parsed.entities, parsed.streams, ScanDevice(parsed.entities).chains)
    IN terms \in Seq(Ids) /\ IsInjective(terms)

VARIABLES
  entities, streams, \* what uvc_parse_control has found, and terminals with a stream
  scan,              \* the chains
  step,              \* where uvc_probe, or uvc_unregister_video, is
  todo,              \* the streams it has still to come to
  node,              \* the video nodes
  nstreams, users,   \* of uvc_device
  gone,              \* UVC_DEV_DISCONNECTED
  asleep,            \* suspended
  urb,               \* dev->int_urb
  deaf,              \* why no status may come though a node is open
  handle,            \* the opened files, and where uvc_v4l2_open or _release is
  deleted            \* how often uvc_delete has run

vars == <<entities, streams, scan, step, todo, node, nstreams, users, gone, asleep, urb, deaf, handle, deleted>>

Streams(chains) == Terms(entities, streams, chains)
IsRegistered(id) == node[id] = "registered"
Closed == [at |-> "closed", node |-> 0]

TypeOK ==
  /\ step \in {"scan", "register", "status", "bound", "hold", "unregister", "off"}
  /\ todo \in Seq(Ids)
  /\ node \in [Ids -> {"none", "registered", "unregistered", "released"}]
  /\ nstreams \in Nat /\ users \in Nat /\ deleted \in Nat
  /\ gone \in BOOLEAN /\ asleep \in BOOLEAN /\ deaf \in BOOLEAN
  /\ urb \in {"none", "idle", "submitted"}
  /\ handle \in [Handle -> [at : {"closed", "opening", "open", "closing", "letting"},
                           node : Ids \cup {0}]]

Init ==
  /\ \E ds \in Cameras :
       LET parsed == ParseControl(ds) IN entities = parsed.entities /\ streams = parsed.streams
  /\ scan = [linked |-> {}, twice |-> {}, chains |-> <<>>]
  /\ step = "scan" /\ todo = <<>>
  /\ node = [id \in Ids |-> "none"]
  /\ nstreams = 0 /\ users = 0 /\ gone = FALSE /\ asleep = FALSE
  /\ urb = "none" /\ deaf = FALSE
  /\ handle = [h \in Handle |-> Closed]
  /\ deleted = 0

fileVars == <<users, handle>>
statusVars == <<urb, deaf>>
found == <<entities, streams, scan>>

-----------------------------------------------------------------------------
\* uvc_probe
Scan ==
  /\ step = "scan"
  /\ scan' = ScanDevice(entities)
  /\ step' = IF scan'.chains = <<>> THEN "hold" ELSE "register"
  /\ todo' = Streams(ScanDevice(entities).chains)
  /\ UNCHANGED <<entities, streams, node, nstreams, gone, asleep, statusVars, fileVars, deleted>>

\* uvc_register_video, for the stream that is next: it may be opened at once.
Register ==
  /\ step = "register" /\ todo # <<>>
  /\ \/ /\ node' = [node EXCEPT ![Head(todo)] = "registered"]
        /\ nstreams' = nstreams + 1
        /\ todo' = Tail(todo) /\ UNCHANGED step
     \/ step' = "hold" /\ UNCHANGED <<node, nstreams, todo>>
  /\ UNCHANGED <<found, gone, asleep, statusVars, fileVars, deleted>>

Registered ==
  /\ step = "register" /\ todo = <<>>
  /\ step' = "status"
  /\ UNCHANGED <<found, todo, node, nstreams, gone, asleep, statusVars, fileVars, deleted>>

\* uvc_status_init: who has opened a node before has started nothing.
StatusInit ==
  /\ step = "status"
  /\ step' = "bound"
  /\ urb' \in {"none", "idle"}
  /\ deaf' = (users > 0 \/ urb' = "none")
  /\ UNCHANGED <<found, todo, node, nstreams, gone, asleep, fileVars, deleted>>

-----------------------------------------------------------------------------
\* uvc_release and uvc_delete, when a node has no user and is not registered.
OpenOn(hs, id) == \E h \in Handle : hs[h].node = id

LetGo(nodes, hs, id) ==
  IF nodes[id] = "unregistered" /\ ~OpenOn(hs, id)
  THEN /\ node' = [nodes EXCEPT ![id] = "released"]
       /\ nstreams' = nstreams - 1
       /\ deleted' = deleted + IF nstreams = 1 THEN 1 ELSE 0
  ELSE node' = nodes /\ UNCHANGED <<nstreams, deleted>>

\* The disconnect of the control interface: the USB core has cancelled the
\* URBs.  It waits for uvc_probe, uvc_suspend and uvc_resume.
Disconnect ==
  /\ step = "bound"
  /\ gone' = TRUE /\ step' = "hold"
  /\ urb' = IF urb = "submitted" THEN "idle" ELSE urb
  /\ UNCHANGED <<found, todo, node, nstreams, asleep, deaf, fileVars, deleted>>

\* Mutant of Hold: uvc_unregister_video does not count itself.
HoldNothing ==
  /\ step = "hold"
  /\ step' = "unregister" /\ todo' = Streams(scan.chains)
  /\ UNCHANGED <<found, node, nstreams, gone, asleep, statusVars, fileVars, deleted>>

\* uvc_unregister_video, also when uvc_probe has failed.
Hold ==
  /\ step = "hold"
  /\ nstreams' = nstreams + 1
  /\ step' = "unregister" /\ todo' = Streams(scan.chains)
  /\ UNCHANGED <<found, node, gone, asleep, statusVars, fileVars, deleted>>

Unregister ==
  /\ step = "unregister" /\ todo # <<>>
  /\ IF IsRegistered(Head(todo))
     THEN LetGo([node EXCEPT ![Head(todo)] = "unregistered"], handle, Head(todo))
     ELSE UNCHANGED <<node, nstreams, deleted>>
  /\ todo' = Tail(todo)
  /\ UNCHANGED <<found, step, gone, asleep, statusVars, fileVars>>

Unregistered ==
  /\ step = "unregister" /\ todo = <<>>
  /\ nstreams' = nstreams - 1
  /\ deleted' = deleted + IF nstreams = 1 THEN 1 ELSE 0
  /\ step' = "off"
  /\ UNCHANGED <<found, todo, node, gone, asleep, statusVars, fileVars>>

-----------------------------------------------------------------------------
\* uvc_v4l2_open: usb_autopm_get_interface wakes the camera, and fails when
\* it is gone.  The node is held meanwhile.
BeginOpen(h, id) ==
  /\ handle[h] = Closed /\ node[id] = "registered" /\ ~gone
  /\ handle' = [handle EXCEPT ![h] = [at |-> "opening", node |-> id]]
  /\ UNCHANGED <<found, step, todo, node, nstreams, users, gone, asleep, statusVars, deleted>>

\* uvc_status_start
Submits(fails) ==
  CASE urb = "none" -> urb' = "none"
    [] urb # "none" /\ fails -> UNCHANGED urb
    [] OTHER -> urb' = "submitted"

Open(h) ==
  /\ handle[h].at = "opening" /\ ~asleep
  /\ handle' = [handle EXCEPT ![h].at = "open"]
  /\ users' = users + 1
  /\ IF users > 0 THEN UNCHANGED <<urb, deaf>>
     ELSE /\ gone => urb = "none"
          /\ Submits(FALSE)
          /\ deaf' = (urb = "none")
  /\ UNCHANGED <<found, step, todo, node, nstreams, gone, asleep, deleted>>

\* Out of memory, or autopm or the status URB refused.
OpenFails(h) ==
  /\ handle[h].at = "opening"
  /\ handle' = [handle EXCEPT ![h] = Closed]
  /\ LetGo(node, handle', handle[h].node)
  /\ UNCHANGED <<found, step, todo, users, gone, asleep, statusVars>>

\* uvc_v4l2_release, and after it the last reference to the node.
BeginClose(h) ==
  /\ handle[h].at = "open" /\ ~asleep
  /\ handle' = [handle EXCEPT ![h].at = "closing"]
  /\ UNCHANGED <<found, step, todo, node, nstreams, users, gone, asleep, statusVars, deleted>>

\* Mutant of Close: the status URB is stopped by whoever closes.
CloseStops(h) ==
  /\ handle[h].at = "closing"
  /\ handle' = [handle EXCEPT ![h].at = "letting"]
  /\ users' = users - 1
  /\ urb' = IF urb = "submitted" THEN "idle" ELSE urb
  /\ UNCHANGED <<found, step, todo, node, nstreams, gone, asleep, deaf, deleted>>

Close(h) ==
  /\ handle[h].at = "closing"
  /\ handle' = [handle EXCEPT ![h].at = "letting"]
  /\ users' = users - 1
  /\ urb' = IF users = 1 /\ urb = "submitted" THEN "idle" ELSE urb
  /\ UNCHANGED <<found, step, todo, node, nstreams, gone, asleep, deaf, deleted>>

\* Mutant of Released: the device is only deleted by uvc_unregister_video.
ReleasedKeeps(h) ==
  /\ handle[h].at = "letting"
  /\ handle' = [handle EXCEPT ![h] = Closed]
  /\ UNCHANGED <<found, step, todo, node, nstreams, users, gone, asleep, statusVars, deleted>>

Released(h) ==
  /\ handle[h].at = "letting"
  /\ handle' = [handle EXCEPT ![h] = Closed]
  /\ LetGo(node, handle', handle[h].node)
  /\ UNCHANGED <<found, step, todo, users, gone, asleep, statusVars>>

-----------------------------------------------------------------------------
\* uvc_status_complete: an event, or an error after which nothing comes.
StatusDies ==
  /\ urb = "submitted" /\ deleted = 0
  /\ urb' = "idle" /\ deaf' = TRUE
  /\ UNCHANGED <<found, step, todo, node, nstreams, gone, asleep, fileVars, deleted>>

\* uvc_suspend: when no program is in the driver.
Quiet == \A h \in Handle : handle[h].at \in {"closed", "open"}

Suspend ==
  /\ step = "bound" /\ ~asleep /\ Quiet
  /\ asleep' = TRUE
  /\ urb' = IF users > 0 /\ urb = "submitted" THEN "idle" ELSE urb
  /\ UNCHANGED <<found, step, todo, node, nstreams, gone, deaf, fileVars, deleted>>

\* uvc_resume and uvc_reset_resume: uvc_ctrl_resume_device or the URB may be
\* refused.
Resume ==
  /\ step \in {"bound", "off"} /\ asleep
  /\ asleep' = FALSE
  /\ \E fails \in {FALSE, TRUE} :
       IF users > 0 /\ ~gone
       THEN Submits(fails) /\ deaf' = (fails \/ urb = "none")
       ELSE UNCHANGED <<urb, deaf>>
  /\ UNCHANGED <<found, step, todo, node, nstreams, gone, fileVars, deleted>>

Next ==
  \/ Scan \/ Register \/ Registered \/ StatusInit
  \/ Disconnect \/ Hold \/ Unregister \/ Unregistered
  \/ StatusDies \/ Suspend \/ Resume
  \/ \E h \in Handle :
       \/ \E id \in Ids : BeginOpen(h, id)
       \/ Open(h) \/ OpenFails(h) \/ BeginClose(h) \/ Close(h) \/ Released(h)

\* The USB core and the kernel finish what they have begun, and a program
\* whose node is unregistered closes it: every ioctl says ENODEV.
Fairness ==
  /\ WF_vars(Hold \/ Unregister \/ Unregistered \/ Resume)
  /\ \A h \in Handle :
       WF_vars(\/ Open(h) \/ OpenFails(h) \/ Close(h) \/ Released(h)
               \/ BeginClose(h) /\ node[handle[h].node] = "unregistered")

Spec == Init /\ [][Next]_vars /\ Fairness

-----------------------------------------------------------------------------
\* An entity of a chain is in its list once, and no other chain, good or bad,
\* has ever taken it from there; and whatever it gets its pictures from is in
\* its chain too.  (uvc_scan_chain: an entity must not be part of an existing
\* chain; uvc_mc_register_entity links entities that are initialised.)
ChainsSound ==
  \A i \in DOMAIN scan.chains :
    /\ ToSet(scan.chains[i]) \cap scan.twice = {}
    /\ \A link \in MediaLinks(entities, scan.chains[i]) : link[1] \in ToSet(scan.chains[i])

\* While a node is open and the camera awake, its status is listened to,
\* except when the URB was refused or has failed, or the node was opened
\* before there was one.  And it is not while nobody has a node open.
StatusFollowsUsers ==
  /\ users > 0 /\ step = "bound" /\ ~asleep /\ ~deaf => urb = "submitted"
  /\ users = 0 \/ asleep => urb # "submitted"

\* The device is there for whoever is still in its code.
NobodyHoldsTheDeleted ==
  deleted > 0 =>
    /\ \A h \in Handle : handle[h] = Closed
    /\ deleted = 1 /\ step = "off"

\* A camera that is unplugged, or whose probe fails, is forgotten.
GoneIsDeleted == (step = "hold") ~> (deleted = 1)
-----------------------------------------------------------------------------
\* What makes the last two inductive.  The counters count: users whoever has a
\* node open, nstreams the nodes that are not released and, while it runs,
\* uvc_unregister_video.
Using == {h \in Handle : handle[h].at \in {"open", "closing"}}
Alive == {id \in Ids : node[id] \in {"registered", "unregistered"}}
CountInv ==
  /\ users = Cardinality(Using)
  /\ nstreams = Cardinality(Alive) + (IF step = "unregister" THEN 1 ELSE 0)
  /\ deleted = (IF step = "off" /\ nstreams = 0 THEN 1 ELSE 0)

\* What is registered is found again by uvc_unregister_video, and is not
\* registered afterwards; a node that somebody is in is not released.
AllNone == \A id \in Ids : node[id] = "none"
RegisteredIn(terms) == \A id \in Ids : node[id] = "registered" => id \in ToSet(terms)
NodeInv ==
  /\ step = "scan" =>
       /\ AllNone
       /\ \E ds \in Cameras :
            LET parsed == ParseControl(ds) IN entities = parsed.entities /\ streams = parsed.streams
  /\ step = "register" =>
       /\ IsInjective(todo) /\ ToSet(todo) \subseteq ToSet(Streams(scan.chains))
       /\ \A id \in ToSet(todo) : node[id] = "none"
  /\ step \notin {"scan", "unregister", "off"} => RegisteredIn(Streams(scan.chains))
  /\ step # "scan" => Streams(scan.chains) \in Seq(Ids)
  /\ step \notin {"unregister", "off"} => \A id \in Ids : node[id] \in {"none", "registered"}
  /\ step = "unregister" => RegisteredIn(todo)
  /\ step = "off" => RegisteredIn(<<>>)
  /\ \A h \in Handle : IF handle[h].at = "closed" THEN handle[h] = Closed
                        ELSE handle[h].node \in Alive

IInv ==
  /\ TypeOK /\ CountInv /\ NodeInv
  /\ StatusFollowsUsers /\ (gone => step \in {"hold", "unregister", "off"})
=============================================================================
