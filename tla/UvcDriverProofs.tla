--------------------------- MODULE UvcDriverProofs ---------------------------
(***************************************************************************)
(* The life of a camera in UvcDriver, for any cameras whose streaming      *)
(* terminals are found once each and any number of opened files: whoever   *)
(* is in the driver finds the device there, and the status URB follows the *)
(* users.  And the chains of any sensible camera are sound, by induction   *)
(* over the entities, the turns of a scan and the inputs of a selector.    *)
(***************************************************************************)
EXTENDS UvcDriver, SequenceTheorems, FiniteSetTheorems, WellFoundedInduction, TLAPS

USE HandleAssumption

-----------------------------------------------------------------------------
\* Sequences and finite sets.
LEMMA SetOfTail ==
  ASSUME NEW S, NEW s \in Seq(S), s # <<>>
  PROVE  /\ Head(s) \in S /\ Head(s) \in ToSet(s) /\ Tail(s) \in Seq(S)
         /\ ToSet(s) = ToSet(Tail(s)) \cup {Head(s)}
         /\ IsInjective(s) => IsInjective(Tail(s)) /\ Head(s) \notin ToSet(Tail(s))
<1> DEFINE t == Tail(s)
<1>1. /\ t \in Seq(S) /\ Len(t) = Len(s) - 1 /\ DOMAIN t = 1 .. Len(s) - 1
      /\ DOMAIN s = 1 .. Len(s) /\ Len(s) \in Nat \ {0}
      /\ \A i \in 1 .. Len(s) - 1 : t[i] = s[i + 1]
      /\ Head(s) = s[1]
  BY HeadTailProperties, LenProperties, EmptySeq
<1> HIDE DEF t
<1>2. s[1] \in ToSet(s) /\ s[1] \in S
  BY <1>1, ElementOfSeq DEF ToSet
<1>3. \A i \in DOMAIN t : i + 1 \in DOMAIN s /\ t[i] = s[i + 1] /\ i + 1 # 1
  BY <1>1
<1>4. \A i \in DOMAIN s : i = 1 \/ (i - 1 \in DOMAIN t /\ s[i] = t[i - 1])
  BY <1>1
<1>5. ToSet(s) = ToSet(t) \cup {s[1]}
  BY <1>2, <1>3, <1>4 DEF ToSet
<1>6. ASSUME IsInjective(s) PROVE IsInjective(t) /\ s[1] \notin ToSet(t)
  <2>1. IsInjective(t)
    BY <1>1, <1>3, <1>6 DEF IsInjective
  <2>2. s[1] \notin ToSet(t)
    BY <1>1, <1>3, <1>6 DEF IsInjective, ToSet
  <2> QED BY <2>1, <2>2
<1> QED BY <1>1, <1>2, <1>5, <1>6 DEF t

LEMMA SetOfEmpty == ToSet(<<>>) = {}
BY DEF ToSet

\* One more or one less of a finite set.
LEMMA OneMore ==
  ASSUME NEW S, IsFiniteSet(S), NEW x
  PROVE  /\ Cardinality(S) \in Nat
         /\ Cardinality(S) = 0 <=> S = {}
         /\ x \notin S => Cardinality(S \cup {x}) = Cardinality(S) + 1
         /\ x \in S => Cardinality(S \ {x}) = Cardinality(S) - 1
<1>1. Cardinality(S) \in Nat /\ (Cardinality(S) = 0 <=> S = {})
  BY FS_CardinalityType, FS_EmptySet
<1>2. x \notin S => Cardinality(S \cup {x}) = Cardinality(S) + 1
  BY FS_AddElement
<1>3. x \in S => Cardinality(S \ {x}) = Cardinality(S) - 1
  BY FS_RemoveElement
<1> QED BY <1>1, <1>2, <1>3

NodeState == {"none", "registered", "unregistered", "released"}
AliveIn(nodes) == {id \in Ids : nodes[id] \in {"registered", "unregistered"}}

LEMMA AliveFinite ==
  ASSUME NEW nodes
  PROVE  IsFiniteSet(AliveIn(nodes))
<1>1. IsFiniteSet(Ids)
  <2>1. 1 \in Int /\ 8 \in Int
    OBVIOUS
  <2>2. IsFiniteSet(1 .. 8)
    BY <2>1, FS_Interval, Zenon
  <2> QED BY <2>2 DEF Ids
<1> QED BY <1>1, FS_Subset DEF AliveIn

LEMMA AliveCounted == Cardinality(Alive) \in Nat /\ (Cardinality(Alive) = 0 <=> Alive = {})
<1>1. IsFiniteSet(Alive)
  BY AliveFinite DEF Alive, AliveIn
<1> QED BY <1>1, OneMore

LEMMA UsingFinite == IsFiniteSet(Using)
BY FS_Subset DEF Using

\* uvc_release: the node goes, and with the last one the device, when nobody
\* has it.  k is 1 while uvc_unregister_video counts itself.
LEMMA LetsGo ==
  ASSUME NEW nodes \in [Ids -> NodeState], NEW hs, NEW id \in Ids, NEW k \in {0, 1},
         nstreams = Cardinality(AliveIn(nodes)) + k, LetGo(nodes, hs, id)
  PROVE  /\ node' \in [Ids -> NodeState]
         /\ nstreams' = Cardinality(AliveIn(node')) + k
         /\ \A i \in Ids \ {id} : node'[i] = nodes[i]
         /\ \/ node' = nodes /\ nstreams' = nstreams /\ deleted' = deleted
            \/ /\ nodes[id] = "unregistered" /\ node'[id] = "released" /\ ~OpenOn(hs, id)
               /\ nstreams' = nstreams - 1 /\ nstreams > k
               /\ deleted' = deleted + (IF nstreams = 1 THEN 1 ELSE 0)
<1>1. CASE nodes[id] = "unregistered" /\ ~OpenOn(hs, id)
  <2>1. /\ node' = [nodes EXCEPT ![id] = "released"] /\ nstreams' = nstreams - 1
        /\ deleted' = deleted + (IF nstreams = 1 THEN 1 ELSE 0)
    BY <1>1 DEF LetGo
  <2>2. /\ node' \in [Ids -> NodeState] /\ node'[id] = "released"
        /\ \A i \in Ids \ {id} : node'[i] = nodes[i]
    BY <2>1 DEF NodeState
  <2>3. id \in AliveIn(nodes) /\ AliveIn(node') = AliveIn(nodes) \ {id}
    BY <1>1, <2>2 DEF AliveIn
  <2>4. /\ Cardinality(AliveIn(nodes)) \in Nat \ {0}
        /\ Cardinality(AliveIn(node')) = Cardinality(AliveIn(nodes)) - 1
    BY <2>3, AliveFinite, OneMore
  <2> QED BY <1>1, <2>1, <2>2, <2>4
<1>2. CASE ~(nodes[id] = "unregistered" /\ ~OpenOn(hs, id))
  BY <1>2 DEF LetGo
<1> QED BY <1>1, <1>2

-----------------------------------------------------------------------------
(***************************************************************************)
(* The steps.                                                              *)
(***************************************************************************)
LEMMA InvInit == Init => IInv
<1> SUFFICES ASSUME Init PROVE IInv
  OBVIOUS
<1> USE DEF Init
<1>1. TypeOK
  <2>1. node \in [Ids -> {"none", "registered", "unregistered", "released"}]
    OBVIOUS
  <2>2. handle \in [Handle -> [at : {"closed", "opening", "open", "closing", "letting"},
                               node : Ids \cup {0}]]
    BY DEF Closed
  <2> QED BY <2>1, <2>2, EmptySeq DEF TypeOK
<1>2. CountInv
  <2>1. Using = {} /\ Alive = {}
    BY DEF Using, Alive, Closed
  <2> QED BY <2>1, FS_EmptySet DEF CountInv
<1>3. NodeInv
  <2>1. \E ds \in Cameras :
          LET parsed == ParseControl(ds) IN entities = parsed.entities /\ streams = parsed.streams
    OBVIOUS
  <2> HIDE DEF Init
  <2>2. step = "scan" /\ AllNone /\ \A h \in Handle : handle[h] = Closed
    BY DEF Init, AllNone
  <2> QED BY <2>1, <2>2 DEF NodeInv, AllNone, Closed
<1>4. StatusFollowsUsers /\ gone = FALSE
  BY DEF StatusFollowsUsers
<1> QED BY <1>1, <1>2, <1>3, <1>4 DEF IInv

USE DEF found, statusVars, fileVars

\* The chains are found: none of the nodes is there yet.
LEMMA ScanKeeps == IInv /\ Scan => IInv'
<1> SUFFICES ASSUME IInv, Scan PROVE IInv'
  OBVIOUS
<1>1. /\ step = "scan" /\ step' \in {"hold", "register"} /\ scan' = ScanDevice(entities)
      /\ todo' = Streams(ScanDevice(entities).chains)
      /\ UNCHANGED <<entities, streams, node, nstreams, gone, asleep, statusVars, fileVars, deleted>>
  BY DEF Scan
<1>2. Streams(scan'.chains) = Terms(entities, streams, ScanDevice(entities).chains)
  BY <1>1 DEF Streams
<1>3. todo' \in Seq(Ids) /\ IsInjective(todo') /\ todo' = (Streams(scan.chains))'
  <2>1. todo' = Terms(entities, streams, ScanDevice(entities).chains)
    BY <1>1 DEF Streams
  <2>2. PICK ds \in Cameras :
          entities = ParseControl(ds).entities /\ streams = ParseControl(ds).streams
    BY <1>1 DEF IInv, NodeInv
  <2>3. todo' \in Seq(Ids) /\ IsInjective(todo')
    BY <2>1, <2>2, CamerasAssumption
  <2> QED BY <2>1, <2>3, <1>1 DEF Streams
<1>4. AllNone
  BY <1>1 DEF IInv, NodeInv
<1>5. TypeOK'
  BY <1>1, <1>3 DEF IInv, TypeOK
<1>6. CountInv'
  <2>1. UNCHANGED <<Using, Alive>>
    BY <1>1 DEF Using, Alive
  <2> QED BY <1>1, <2>1 DEF IInv, CountInv
<1>7. NodeInv'
  <2>1. ToSet(todo') \subseteq Ids
    BY <1>3, ElementOfSeq, LenProperties DEF ToSet
  <2>2. \A id \in ToSet(todo') : node'[id] = "none"
    BY <1>1, <1>4, <2>1 DEF AllNone
  <2>3. \A id \in Ids : node'[id] = "none"
    BY <1>1, <1>4 DEF AllNone
  <2>4. \A h \in Handle : handle[h] = Closed
    BY <1>4 DEF IInv, NodeInv, AllNone, Alive
  <2> QED BY <1>1, <1>3, <2>2, <2>3, <2>4 DEF NodeInv, RegisteredIn, Closed
<1>8. StatusFollowsUsers' /\ (gone' => step' \in {"hold", "unregister", "off"})
  BY <1>1 DEF IInv, StatusFollowsUsers
<1> QED BY <1>5, <1>6, <1>7, <1>8 DEF IInv

\* What goes on while the nodes, their users and their counters stay.
LEMMA Counted ==
  ASSUME CountInv, UNCHANGED <<node, nstreams, deleted, users, handle>>,
         step' = step \/ {step, step'} \cap {"unregister", "off"} = {}
  PROVE  CountInv'
<1>1. UNCHANGED <<Using, Alive>>
  BY DEF Using, Alive
<1> QED BY <1>1 DEF CountInv

LEMMA RegisterKeeps == IInv /\ Register => IInv'
<1> SUFFICES ASSUME IInv, Register PROVE IInv'
  OBVIOUS
<1>1. /\ step = "register" /\ todo # <<>> /\ todo \in Seq(Ids)
      /\ UNCHANGED <<found, gone, asleep, statusVars, fileVars, deleted>>
      /\ IsInjective(todo) /\ ToSet(todo) \subseteq ToSet(Streams(scan.chains))
      /\ \A id \in ToSet(todo) : node[id] = "none"
      /\ RegisteredIn(Streams(scan.chains)) /\ Streams(scan.chains) \in Seq(Ids)
      /\ \A id \in Ids : node[id] \in {"none", "registered"}
  BY DEF IInv, TypeOK, NodeInv, Register
<1>2. (Streams(scan.chains))' = Streams(scan.chains)
  BY <1>1 DEF Streams
<1>3. CASE step' = "hold" /\ UNCHANGED <<node, nstreams, todo>>
  <2>1. TypeOK'
    BY <1>1, <1>3 DEF IInv, TypeOK
  <2>2. CountInv'
    BY <1>1, <1>3, Counted DEF IInv
  <2>3. NodeInv'
    BY <1>1, <1>2, <1>3 DEF IInv, NodeInv, RegisteredIn, Alive
  <2>4. StatusFollowsUsers' /\ (gone' => step' \in {"hold", "unregister", "off"})
    BY <1>1, <1>3 DEF IInv, StatusFollowsUsers
  <2> QED BY <2>1, <2>2, <2>3, <2>4 DEF IInv
<1>4. CASE /\ node' = [node EXCEPT ![Head(todo)] = "registered"]
           /\ nstreams' = nstreams + 1
           /\ todo' = Tail(todo) /\ UNCHANGED step
  <2> DEFINE id == Head(todo)
  <2>1. /\ id \in Ids /\ id \in ToSet(todo) /\ todo' \in Seq(Ids)
        /\ ToSet(todo') \subseteq ToSet(todo)
        /\ IsInjective(todo') /\ id \notin ToSet(todo')
    BY <1>1, <1>4, SetOfTail
  <2>2. node[id] = "none" /\ node' = [node EXCEPT ![id] = "registered"]
    BY <1>1, <1>4, <2>1
  <2> HIDE DEF id
  <2>3. TypeOK'
    <3>1. node' \in [Ids -> {"none", "registered", "unregistered", "released"}]
      BY <2>1, <2>2 DEF IInv, TypeOK
    <3> QED BY <1>1, <1>4, <2>1, <3>1 DEF IInv, TypeOK
  <2>4. node'[id] = "registered" /\ \A i \in Ids \ {id} : node'[i] = node[i]
    BY <2>1, <2>2 DEF IInv, TypeOK
  <2>5. CountInv'
    <3>1. id \notin Alive /\ Alive' = Alive \cup {id} /\ Using' = Using
      BY <1>1, <2>1, <2>2, <2>4 DEF Alive, Using
    <3>2. IsFiniteSet(Alive)
      BY AliveFinite DEF Alive, AliveIn
    <3>3. Cardinality(Alive') = Cardinality(Alive) + 1 /\ Cardinality(Alive) \in Nat
      BY <3>1, <3>2, OneMore
    <3> QED BY <1>1, <1>4, <3>1, <3>3 DEF IInv, CountInv
  <2>6. NodeInv'
    <3>1. \A i \in ToSet(todo') : node'[i] = "none"
      <4>1. ToSet(todo') \subseteq Ids
        BY <2>1, ElementOfSeq, LenProperties DEF ToSet
      <4> QED BY <1>1, <2>1, <2>4, <4>1
    <3>2. RegisteredIn(Streams(scan.chains))'
      BY <1>1, <1>2, <2>1, <2>4 DEF RegisteredIn
    <3>3. \A i \in Ids : node'[i] \in {"none", "registered"}
      BY <1>1, <2>4
    <3>4. \A h \in Handle : IF handle'[h].at = "closed" THEN handle'[h] = Closed
                            ELSE handle'[h].node \in Alive'
      BY <1>1, <2>4 DEF IInv, NodeInv, Alive
    <3> QED BY <1>1, <1>2, <1>4, <2>1, <3>1, <3>2, <3>3, <3>4 DEF NodeInv
  <2>7. StatusFollowsUsers' /\ (gone' => step' \in {"hold", "unregister", "off"})
    BY <1>1, <1>4 DEF IInv, StatusFollowsUsers
  <2> QED BY <2>3, <2>5, <2>6, <2>7 DEF IInv
<1> QED BY <1>3, <1>4 DEF Register

\* Steps of the probe, the USB core and the power: no node comes or goes.
LEMMA NodesStay ==
  ASSUME TypeOK, NodeInv, UNCHANGED <<found, node, handle>>,
         step' = step \/ (step' # "register" /\ {step, step'} \cap {"scan", "unregister", "off"} = {}),
         step' = step => todo' = todo
  PROVE  NodeInv'
<1>1. (Streams(scan.chains))' = Streams(scan.chains)
  BY DEF Streams
<1>2. UNCHANGED Alive
  BY DEF Alive
<1>3. CASE step' = step
  BY <1>1, <1>2, <1>3 DEF NodeInv, RegisteredIn, AllNone
<1>4. CASE step' # "register" /\ {step, step'} \cap {"scan", "unregister", "off"} = {}
  BY <1>1, <1>2, <1>4 DEF NodeInv, RegisteredIn
<1> QED BY <1>3, <1>4

LEMMA RegisteredKeeps == IInv /\ Registered => IInv'
<1> SUFFICES ASSUME IInv, Registered PROVE IInv'
  OBVIOUS
<1>1. TypeOK'
  BY DEF IInv, TypeOK, Registered
<1>2. CountInv'
  BY Counted DEF IInv, Registered
<1>3. NodeInv'
  BY NodesStay DEF IInv, Registered
<1>4. StatusFollowsUsers' /\ (gone' => step' \in {"hold", "unregister", "off"})
  BY DEF IInv, TypeOK, StatusFollowsUsers, Registered
<1> QED BY <1>1, <1>2, <1>3, <1>4 DEF IInv

LEMMA StatusInitKeeps == IInv /\ StatusInit => IInv'
<1> SUFFICES ASSUME IInv, StatusInit PROVE IInv'
  OBVIOUS
<1>1. TypeOK'
  BY DEF IInv, TypeOK, StatusInit
<1>2. CountInv'
  BY Counted DEF IInv, StatusInit
<1>3. NodeInv'
  BY NodesStay DEF IInv, StatusInit
<1>4. StatusFollowsUsers' /\ (gone' => step' \in {"hold", "unregister", "off"})
  BY DEF IInv, TypeOK, StatusFollowsUsers, StatusInit
<1> QED BY <1>1, <1>2, <1>3, <1>4 DEF IInv

LEMMA DisconnectKeeps == IInv /\ Disconnect => IInv'
<1> SUFFICES ASSUME IInv, Disconnect PROVE IInv'
  OBVIOUS
<1>1. TypeOK'
  BY DEF IInv, TypeOK, Disconnect
<1>2. CountInv'
  BY Counted DEF IInv, Disconnect
<1>3. NodeInv'
  BY NodesStay DEF IInv, Disconnect
<1>4. StatusFollowsUsers' /\ (gone' => step' \in {"hold", "unregister", "off"})
  BY DEF IInv, TypeOK, StatusFollowsUsers, Disconnect
<1> QED BY <1>1, <1>2, <1>3, <1>4 DEF IInv

LEMMA StatusDiesKeeps == IInv /\ StatusDies => IInv'
<1> SUFFICES ASSUME IInv, StatusDies PROVE IInv'
  OBVIOUS
<1>1. TypeOK'
  BY DEF IInv, TypeOK, StatusDies
<1>2. CountInv'
  BY Counted DEF IInv, StatusDies
<1>3. NodeInv'
  BY NodesStay DEF IInv, StatusDies
<1>4. StatusFollowsUsers' /\ (gone' => step' \in {"hold", "unregister", "off"})
  BY DEF IInv, TypeOK, StatusFollowsUsers, StatusDies
<1> QED BY <1>1, <1>2, <1>3, <1>4 DEF IInv

LEMMA SuspendKeeps == IInv /\ Suspend => IInv'
<1> SUFFICES ASSUME IInv, Suspend PROVE IInv'
  OBVIOUS
<1>1. TypeOK'
  BY DEF IInv, TypeOK, Suspend
<1>2. CountInv'
  BY Counted DEF IInv, Suspend
<1>3. NodeInv'
  BY NodesStay DEF IInv, Suspend
<1>4. StatusFollowsUsers' /\ (gone' => step' \in {"hold", "unregister", "off"})
  BY DEF IInv, TypeOK, StatusFollowsUsers, Suspend
<1> QED BY <1>1, <1>2, <1>3, <1>4 DEF IInv

LEMMA ResumeKeeps == IInv /\ Resume => IInv'
<1> SUFFICES ASSUME IInv, Resume PROVE IInv'
  OBVIOUS
<1>1. TypeOK'
  BY DEF IInv, TypeOK, Resume, Submits
<1>2. CountInv'
  BY Counted DEF IInv, Resume
<1>3. NodeInv'
  BY NodesStay DEF IInv, Resume
<1>4. StatusFollowsUsers' /\ (gone' => step' \in {"hold", "unregister", "off"})
  <2>1. /\ step' = step /\ UNCHANGED <<gone, users>> /\ asleep' = FALSE
        /\ urb \in {"none", "idle", "submitted"} /\ users \in Nat
        /\ users = 0 => urb # "submitted"
    BY DEF IInv, TypeOK, StatusFollowsUsers, Resume
  <2>2. CASE users > 0 /\ ~gone
    <3>1. PICK fails \in {FALSE, TRUE} : Submits(fails) /\ deaf' = (fails \/ urb = "none")
      BY <2>2 DEF Resume
    <3>2. deaf' \/ urb' = "submitted"
      BY <3>1 DEF Submits
    <3> QED BY <2>1, <2>2, <3>2 DEF IInv, StatusFollowsUsers
  <2>3. CASE ~(users > 0 /\ ~gone)
    <3>1. UNCHANGED <<urb, deaf>>
      BY <2>3 DEF Resume
    <3> QED BY <2>1, <2>3, <3>1 DEF IInv, StatusFollowsUsers
  <2> QED BY <2>2, <2>3
<1> QED BY <1>1, <1>2, <1>3, <1>4 DEF IInv

LEMMA HoldKeeps == IInv /\ Hold => IInv'
<1> SUFFICES ASSUME IInv, Hold PROVE IInv'
  OBVIOUS
<1>1. /\ step = "hold" /\ step' = "unregister" /\ nstreams' = nstreams + 1
      /\ todo' = Streams(scan.chains) /\ todo' \in Seq(Ids)
      /\ UNCHANGED <<found, node, gone, asleep, statusVars, fileVars, deleted>>
  BY DEF IInv, NodeInv, Hold
<1>2. UNCHANGED <<Using, Alive>> /\ (Streams(scan.chains))' = Streams(scan.chains)
  BY <1>1 DEF Using, Alive, Streams
<1>3. TypeOK'
  BY <1>1 DEF IInv, TypeOK
<1>4. CountInv'
  <2>1. nstreams = Cardinality(Alive) /\ nstreams \in Nat /\ deleted = 0
    BY <1>1, AliveCounted DEF IInv, CountInv
  <2> QED BY <1>1, <1>2, <2>1 DEF IInv, CountInv
<1>5. NodeInv'
  BY <1>1, <1>2 DEF IInv, NodeInv, RegisteredIn
<1>6. StatusFollowsUsers' /\ (gone' => step' \in {"hold", "unregister", "off"})
  BY <1>1 DEF IInv, StatusFollowsUsers
<1> QED BY <1>3, <1>4, <1>5, <1>6 DEF IInv

LEMMA UnregisterKeeps == IInv /\ Unregister => IInv'
<1> SUFFICES ASSUME IInv, Unregister PROVE IInv'
  OBVIOUS
<1> DEFINE id == Head(todo)
           nodes == [node EXCEPT ![id] = "unregistered"]
<1>1. /\ step = "unregister" /\ todo # <<>> /\ todo' = Tail(todo) /\ todo \in Seq(Ids)
      /\ UNCHANGED <<found, step, gone, asleep, statusVars, fileVars>>
      /\ node \in [Ids -> NodeState] /\ RegisteredIn(todo)
  BY DEF IInv, TypeOK, NodeInv, NodeState, Unregister
<1>2. id \in Ids /\ todo' \in Seq(Ids) /\ ToSet(todo) = ToSet(todo') \cup {id}
  BY <1>1, SetOfTail
<1>3. UNCHANGED Using /\ (Streams(scan.chains))' = Streams(scan.chains)
  BY <1>1 DEF Using, Streams
<1>4. StatusFollowsUsers' /\ (gone' => step' \in {"hold", "unregister", "off"})
  BY <1>1 DEF IInv, StatusFollowsUsers
<1>5. CASE ~IsRegistered(id)
  <2>1. UNCHANGED <<node, nstreams, deleted>>
    BY <1>5 DEF Unregister
  <2>2. UNCHANGED Alive /\ node[id] # "registered"
    BY <1>5, <2>1 DEF Alive, IsRegistered
  <2>3. TypeOK'
    BY <1>1, <1>2, <2>1 DEF IInv, TypeOK
  <2>4. CountInv'
    BY <1>1, <1>3, <2>1, <2>2 DEF IInv, CountInv
  <2>5. NodeInv'
    BY <1>1, <1>2, <1>3, <2>1, <2>2 DEF IInv, NodeInv, RegisteredIn
  <2> QED BY <1>4, <2>3, <2>4, <2>5 DEF IInv
<1>6. CASE IsRegistered(id)
  <2>1. LetGo(nodes, handle, id) /\ node[id] = "registered"
    BY <1>6 DEF Unregister, IsRegistered
  <2>2. /\ nodes \in [Ids -> NodeState] /\ nodes[id] = "unregistered"
        /\ \A i \in Ids \ {id} : nodes[i] = node[i]
    BY <1>1, <1>2 DEF NodeState
  <2> HIDE DEF nodes, id
  <2>3. AliveIn(nodes) = Alive
    BY <2>1, <2>2 DEF AliveIn, Alive
  <2>4. nstreams = Cardinality(AliveIn(nodes)) + 1 /\ deleted = 0 /\ nstreams \in Nat
    BY <1>1, <2>3 DEF IInv, TypeOK, CountInv
  <2>5. /\ node' \in [Ids -> NodeState]
        /\ nstreams' = Cardinality(AliveIn(node')) + 1
        /\ \A i \in Ids \ {id} : node'[i] = nodes[i]
        /\ \/ node' = nodes /\ nstreams' = nstreams /\ deleted' = deleted
           \/ /\ nodes[id] = "unregistered" /\ node'[id] = "released" /\ ~OpenOn(handle, id)
              /\ nstreams' = nstreams - 1 /\ nstreams > 1
              /\ deleted' = deleted + (IF nstreams = 1 THEN 1 ELSE 0)
    BY <1>2, <2>1, <2>2, <2>4, LetsGo
  <2>6. Alive' = AliveIn(node')
    BY DEF Alive, AliveIn
  <2>7. deleted' = 0 /\ nstreams' \in Nat
    BY <2>4, <2>5
  <2>8. TypeOK'
    BY <1>1, <1>2, <2>5, <2>7 DEF IInv, TypeOK, NodeState
  <2>9. CountInv'
    BY <1>1, <1>3, <2>5, <2>6, <2>7 DEF IInv, CountInv
  <2>10. RegisteredIn(todo)'
    BY <1>1, <1>2, <2>2, <2>5 DEF RegisteredIn
  <2>11. \A h \in Handle : IF handle[h].at = "closed" THEN handle[h] = Closed
                           ELSE handle[h].node \in Alive'
    <3> SUFFICES ASSUME NEW h \in Handle, handle[h].at # "closed"
                 PROVE  handle[h].node \in Alive'
      BY DEF IInv, NodeInv
    <3>1. handle[h].node \in Ids /\ node[handle[h].node] \in {"registered", "unregistered"}
      BY DEF IInv, NodeInv, Alive
    <3>2. CASE handle[h].node = id
      BY <2>2, <2>5, <3>1, <3>2 DEF OpenOn, Alive
    <3>3. CASE handle[h].node # id
      BY <2>2, <2>5, <3>1, <3>3 DEF Alive
    <3> QED BY <3>2, <3>3
  <2>12. NodeInv'
    BY <1>1, <1>3, <2>10, <2>11 DEF IInv, NodeInv
  <2> QED BY <1>4, <2>8, <2>9, <2>12 DEF IInv
<1> QED BY <1>5, <1>6

LEMMA UnregisteredKeeps == IInv /\ Unregistered => IInv'
<1> SUFFICES ASSUME IInv, Unregistered PROVE IInv'
  OBVIOUS
<1>1. /\ step = "unregister" /\ todo = <<>> /\ step' = "off"
      /\ nstreams' = nstreams - 1
      /\ deleted' = deleted + (IF nstreams = 1 THEN 1 ELSE 0)
      /\ UNCHANGED <<found, todo, node, gone, asleep, statusVars, fileVars>>
  BY DEF Unregistered
<1>2. UNCHANGED <<Using, Alive>> /\ (Streams(scan.chains))' = Streams(scan.chains)
  BY <1>1 DEF Using, Alive, Streams
<1>3. nstreams = Cardinality(Alive) + 1 /\ deleted = 0 /\ Cardinality(Alive) \in Nat
  <2>1. Cardinality(Alive) \in Nat
    BY AliveCounted
  <2> QED BY <1>1, <2>1 DEF IInv, CountInv
<1>4. TypeOK'
  BY <1>1, <1>3 DEF IInv, TypeOK
<1>5. CountInv'
  BY <1>1, <1>2, <1>3 DEF IInv, CountInv
<1>6. NodeInv'
  BY <1>1, <1>2 DEF IInv, NodeInv, RegisteredIn
<1>7. StatusFollowsUsers' /\ (gone' => step' \in {"hold", "unregister", "off"})
  BY <1>1 DEF IInv, StatusFollowsUsers
<1> QED BY <1>4, <1>5, <1>6, <1>7 DEF IInv

-----------------------------------------------------------------------------
(***************************************************************************)
(* Programs that open and close the nodes.                                 *)
(***************************************************************************)
At == {"closed", "opening", "open", "closing", "letting"}

\* Where a handle gets to, its node stays.
LEMMA Moves ==
  ASSUME TypeOK, NEW h \in Handle, NEW x \in At,
         handle' = [handle EXCEPT ![h].at = x]
  PROVE  /\ handle' \in [Handle -> [at : At, node : Ids \cup {0}]]
         /\ handle'[h].at = x /\ handle'[h].node = handle[h].node
         /\ \A g \in Handle \ {h} : handle'[g] = handle[g]
<1>1. handle \in [Handle -> [at : At, node : Ids \cup {0}]]
  BY DEF TypeOK, At
<1> QED BY <1>1

LEMMA MovesKeep ==
  ASSUME IInv, NEW h \in Handle, NEW x \in At \ {"closed"}, handle[h].at # "closed",
         handle' = [handle EXCEPT ![h].at = x],
         UNCHANGED <<found, step, todo, node>>
  PROVE  NodeInv'
<1>1. /\ \A g \in Handle : handle'[g].node = handle[g].node
      /\ \A g \in Handle \ {h} : handle'[g] = handle[g]
      /\ handle'[h].at = x
  BY Moves DEF IInv
<1>2. UNCHANGED Alive /\ (Streams(scan.chains))' = Streams(scan.chains)
  BY DEF Alive, Streams
<1>3. \A g \in Handle : IF handle'[g].at = "closed" THEN handle'[g] = Closed
                        ELSE handle'[g].node \in Alive'
  BY <1>1, <1>2 DEF IInv, NodeInv
<1> QED BY <1>2, <1>3 DEF IInv, NodeInv, RegisteredIn, AllNone

LEMMA BeginOpenKeeps ==
  ASSUME IInv, NEW h \in Handle, NEW id \in Ids, BeginOpen(h, id)
  PROVE  IInv'
<1> DEFINE opened == [at |-> "opening", node |-> id]
<1>1. /\ handle[h] = Closed /\ node[id] = "registered" /\ ~gone
      /\ handle' = [handle EXCEPT ![h] = opened]
      /\ UNCHANGED <<found, step, todo, node, nstreams, users, gone, asleep, statusVars, deleted>>
  BY DEF BeginOpen
<1>2. opened \in [at : At, node : Ids \cup {0}] /\ opened.at = "opening" /\ opened.node = id
  BY DEF At
<1> HIDE DEF opened
<1>3. /\ handle' \in [Handle -> [at : At, node : Ids \cup {0}]] /\ handle'[h] = opened
      /\ \A g \in Handle \ {h} : handle'[g] = handle[g]
  BY <1>1, <1>2 DEF IInv, TypeOK, At
<1>4. /\ UNCHANGED <<Using, Alive>> /\ id \in Alive
      /\ (Streams(scan.chains))' = Streams(scan.chains)
  BY <1>1, <1>2, <1>3 DEF Using, Alive, Streams, Closed
<1>5. TypeOK'
  BY <1>1, <1>3 DEF IInv, TypeOK, At
<1>6. CountInv'
  BY <1>1, <1>4 DEF IInv, CountInv
<1>7. NodeInv'
  <2>1. \A g \in Handle : IF handle'[g].at = "closed" THEN handle'[g] = Closed
                          ELSE handle'[g].node \in Alive'
    BY <1>2, <1>3, <1>4 DEF IInv, NodeInv
  <2> QED BY <1>1, <1>4, <2>1 DEF IInv, NodeInv, RegisteredIn, AllNone
<1>8. StatusFollowsUsers' /\ (gone' => step' \in {"hold", "unregister", "off"})
  BY <1>1 DEF IInv, StatusFollowsUsers
<1> QED BY <1>5, <1>6, <1>7, <1>8 DEF IInv

LEMMA OpenKeeps ==
  ASSUME IInv, NEW h \in Handle, Open(h)
  PROVE  IInv'
<1>1. /\ handle[h].at = "opening" /\ ~asleep
      /\ handle' = [handle EXCEPT ![h].at = "open"] /\ users' = users + 1
      /\ UNCHANGED <<found, step, todo, node, nstreams, gone, asleep, deleted>>
  BY DEF Open
<1>2. /\ handle' \in [Handle -> [at : At, node : Ids \cup {0}]]
      /\ handle'[h].at = "open"
      /\ \A g \in Handle \ {h} : handle'[g] = handle[g]
  BY <1>1, Moves DEF IInv, At
<1>3. /\ urb' \in {"none", "idle", "submitted"} /\ deaf' \in BOOLEAN
      /\ users = 0 => deaf' \/ urb' = "submitted"
      /\ users > 0 => UNCHANGED <<urb, deaf>>
  <2>1. urb \in {"none", "idle", "submitted"} /\ deaf \in BOOLEAN /\ users \in Nat
    BY DEF IInv, TypeOK
  <2>2. CASE users > 0
    BY <2>1, <2>2 DEF Open
  <2>3. CASE users = 0
    <3> ~(users > 0)
      BY <2>3
    <3>1. Submits(FALSE) /\ deaf' = (urb = "none")
      BY DEF Open
    <3>2. CASE urb = "none"
      BY <2>1, <2>3, <3>1, <3>2 DEF Submits
    <3>3. CASE urb # "none"
      <4>1. urb' = "submitted"
        BY <3>1, <3>3 DEF Submits
      <4> QED BY <2>1, <2>3, <3>1, <3>3, <4>1
    <3> QED BY <3>2, <3>3
  <2> QED BY <2>1, <2>2, <2>3
<1>4. TypeOK'
  BY <1>1, <1>2, <1>3 DEF IInv, TypeOK, At
<1>5. CountInv'
  <2>1. Using' = Using \cup {h} /\ h \notin Using /\ UNCHANGED Alive
    BY <1>1, <1>2 DEF Using, Alive
  <2>2. Cardinality(Using') = Cardinality(Using) + 1
    BY <2>1, UsingFinite, OneMore
  <2> QED BY <1>1, <2>1, <2>2 DEF IInv, CountInv
<1>6. NodeInv'
  BY <1>1, MovesKeep DEF At
<1>7. StatusFollowsUsers' /\ (gone' => step' \in {"hold", "unregister", "off"})
  BY <1>1, <1>3 DEF IInv, TypeOK, StatusFollowsUsers
<1> QED BY <1>4, <1>5, <1>6, <1>7 DEF IInv

LEMMA BeginCloseKeeps ==
  ASSUME IInv, NEW h \in Handle, BeginClose(h)
  PROVE  IInv'
<1>1. /\ handle[h].at = "open" /\ handle' = [handle EXCEPT ![h].at = "closing"]
      /\ UNCHANGED <<found, step, todo, node, nstreams, users, gone, asleep, statusVars, deleted>>
  BY DEF BeginClose
<1>2. /\ handle' \in [Handle -> [at : At, node : Ids \cup {0}]]
      /\ handle'[h].at = "closing"
      /\ \A g \in Handle \ {h} : handle'[g] = handle[g]
  BY <1>1, Moves DEF IInv, At
<1>3. TypeOK'
  BY <1>1, <1>2 DEF IInv, TypeOK, At
<1>4. CountInv'
  <2>1. UNCHANGED <<Using, Alive>>
    BY <1>1, <1>2 DEF Using, Alive
  <2> QED BY <1>1, <2>1 DEF IInv, CountInv
<1>5. NodeInv'
  BY <1>1, MovesKeep DEF At
<1>6. StatusFollowsUsers' /\ (gone' => step' \in {"hold", "unregister", "off"})
  BY <1>1 DEF IInv, StatusFollowsUsers
<1> QED BY <1>3, <1>4, <1>5, <1>6 DEF IInv

LEMMA CloseKeeps ==
  ASSUME IInv, NEW h \in Handle, Close(h)
  PROVE  IInv'
<1>1. /\ handle[h].at = "closing" /\ handle' = [handle EXCEPT ![h].at = "letting"]
      /\ users' = users - 1
      /\ urb' = IF users = 1 /\ urb = "submitted" THEN "idle" ELSE urb
      /\ UNCHANGED <<found, step, todo, node, nstreams, gone, asleep, deaf, deleted>>
  BY DEF Close
<1>2. /\ handle' \in [Handle -> [at : At, node : Ids \cup {0}]]
      /\ handle'[h].at = "letting"
      /\ \A g \in Handle \ {h} : handle'[g] = handle[g]
  BY <1>1, Moves DEF IInv, At
<1>3. Using' = Using \ {h} /\ h \in Using /\ UNCHANGED Alive
  BY <1>1, <1>2 DEF Using, Alive
<1>4. /\ Cardinality(Using') = Cardinality(Using) - 1
      /\ users = Cardinality(Using) /\ users \in Nat \ {0} /\ users' \in Nat
  <2>1. Cardinality(Using') = Cardinality(Using) - 1 /\ Cardinality(Using) \in Nat \ {0}
    BY <1>3, UsingFinite, OneMore
  <2>2. users = Cardinality(Using)
    BY DEF IInv, CountInv
  <2> QED BY <1>1, <2>1, <2>2
<1>5. TypeOK'
  BY <1>1, <1>2, <1>4 DEF IInv, TypeOK, At
<1>6. CountInv'
  BY <1>1, <1>3, <1>4 DEF IInv, CountInv
<1>7. NodeInv'
  BY <1>1, MovesKeep DEF At
<1>8. StatusFollowsUsers' /\ (gone' => step' \in {"hold", "unregister", "off"})
  BY <1>1, <1>4 DEF IInv, StatusFollowsUsers
<1> QED BY <1>5, <1>6, <1>7, <1>8 DEF IInv

\* Whoever leaves a node may be the last in it, and in the device.
LEMMA LeavingKeeps ==
  ASSUME IInv, NEW h \in Handle, handle[h].at \in {"opening", "letting"},
         handle' = [handle EXCEPT ![h] = Closed],
         LetGo(node, handle', handle[h].node),
         UNCHANGED <<found, step, todo, users, gone, asleep, statusVars>>
  PROVE  IInv'
<1> DEFINE id == handle[h].node
           k == IF step = "unregister" THEN 1 ELSE 0
<1>1. /\ id \in Ids /\ node[id] \in {"registered", "unregistered"}
      /\ node \in [Ids -> NodeState] /\ nstreams \in Nat /\ deleted \in Nat
  BY DEF IInv, TypeOK, NodeInv, Alive, NodeState
<1>2. /\ handle' \in [Handle -> [at : At, node : Ids \cup {0}]] /\ handle'[h] = Closed
      /\ \A g \in Handle \ {h} : handle'[g] = handle[g]
  BY DEF IInv, TypeOK, At, Closed
<1>3. k \in {0, 1} /\ nstreams = Cardinality(AliveIn(node)) + k
  BY DEF IInv, CountInv, Alive, AliveIn
<1>4. LetGo(node, handle', id)
  OBVIOUS
<1> HIDE DEF id
<1>5. /\ node' \in [Ids -> NodeState]
      /\ nstreams' = Cardinality(AliveIn(node')) + k
      /\ \A i \in Ids \ {id} : node'[i] = node[i]
      /\ \/ node' = node /\ nstreams' = nstreams /\ deleted' = deleted
         \/ /\ node[id] = "unregistered" /\ node'[id] = "released" /\ ~OpenOn(handle', id)
            /\ nstreams' = nstreams - 1 /\ nstreams > k
            /\ deleted' = deleted + (IF nstreams = 1 THEN 1 ELSE 0)
  <2> HIDE DEF k
  <2> QED BY <1>1, <1>3, <1>4, LetsGo
<1>6. UNCHANGED Using
  BY <1>2 DEF Using, Closed
<1>7. Alive' = AliveIn(node')
  BY DEF Alive, AliveIn
<1>8. node[id] = "unregistered" => step \in {"unregister", "off"}
  BY <1>1 DEF IInv, NodeInv
<1>9. deleted' = (IF step = "off" /\ nstreams' = 0 THEN 1 ELSE 0) /\ nstreams' \in Nat
  BY <1>1, <1>3, <1>5, <1>8 DEF IInv, CountInv
<1>10. TypeOK'
  BY <1>2, <1>5, <1>9 DEF IInv, TypeOK, At, NodeState
<1>11. CountInv'
  BY <1>5, <1>6, <1>7, <1>9 DEF IInv, CountInv
<1>12. NodeInv'
  <2>1. \A g \in Handle : IF handle'[g].at = "closed" THEN handle'[g] = Closed
                          ELSE handle'[g].node \in Alive'
    <3> SUFFICES ASSUME NEW g \in Handle
                 PROVE  IF handle'[g].at = "closed" THEN handle'[g] = Closed
                        ELSE handle'[g].node \in Alive'
      OBVIOUS
    <3>1. IF handle[g].at = "closed" THEN handle[g] = Closed ELSE handle[g].node \in Alive
      BY DEF IInv, NodeInv
    <3>2. CASE g = h
      BY <1>2, <3>2 DEF Closed
    <3>3. CASE g # h /\ handle[g].at = "closed"
      BY <1>2, <3>1, <3>3
    <3>4. CASE g # h /\ handle[g].at # "closed"
      <4>1. handle'[g] = handle[g] /\ handle[g].node \in Alive
        BY <1>2, <3>1, <3>4
      <4>2. handle'[g].node \in Alive'
        <5>1. CASE handle'[g].node = id
          BY <1>5, <4>1, <5>1 DEF OpenOn, Alive
        <5>2. CASE handle'[g].node # id
          BY <1>5, <4>1, <5>2 DEF Alive
        <5> QED BY <5>1, <5>2
      <4> QED BY <3>4, <4>1, <4>2
    <3> QED BY <3>2, <3>3, <3>4
  <2>2. (Streams(scan.chains))' = Streams(scan.chains)
    BY DEF Streams
  <2>3. \A i \in Ids : node'[i] = node[i] \/ (node[i] = "unregistered" /\ node'[i] = "released")
    BY <1>5
  <2>4. step \notin {"unregister", "off"} => node' = node
    BY <1>5, <1>8
  <2>5. \A i \in Ids : node'[i] = "registered" => node[i] = "registered"
    BY <2>3
  <2> QED BY <2>1, <2>2, <2>4, <2>5 DEF IInv, NodeInv, RegisteredIn, AllNone
<1>13. StatusFollowsUsers' /\ (gone' => step' \in {"hold", "unregister", "off"})
  BY DEF IInv, StatusFollowsUsers
<1> QED BY <1>10, <1>11, <1>12, <1>13 DEF IInv

LEMMA InvStep == IInv /\ [Next]_vars => IInv'
<1> SUFFICES ASSUME IInv, [Next]_vars PROVE IInv'
  OBVIOUS
<1>1. ASSUME NEW h \in Handle,
             \/ \E id \in Ids : BeginOpen(h, id)
             \/ Open(h) \/ OpenFails(h) \/ BeginClose(h) \/ Close(h) \/ Released(h)
      PROVE  IInv'
  <2>1. CASE OpenFails(h)
    BY <2>1, LeavingKeeps DEF OpenFails
  <2>2. CASE Released(h)
    BY <2>2, LeavingKeeps DEF Released
  <2> QED BY <1>1, <2>1, <2>2, BeginOpenKeeps, OpenKeeps, BeginCloseKeeps, CloseKeeps
<1>2. CASE UNCHANGED vars
  <2>1. CountInv'
    BY <1>2, Counted DEF IInv, vars
  <2>2. NodeInv'
    BY <1>2, NodesStay DEF IInv, vars
  <2> QED BY <1>2, <2>1, <2>2 DEF IInv, TypeOK, StatusFollowsUsers, vars
<1> QED BY <1>1, <1>2, ScanKeeps, RegisterKeeps, RegisteredKeeps, StatusInitKeeps,
           DisconnectKeeps, HoldKeeps, UnregisterKeeps, UnregisteredKeeps,
           StatusDiesKeeps, SuspendKeeps, ResumeKeeps DEF Next

-----------------------------------------------------------------------------
\* Whatever opens, closes, sleeps, fails and is unplugged in whatever order: the
\* counters of uvc_device count, and what is registered is unregistered.
THEOREM Life == Spec => []IInv
<1>1. Init /\ [][Next]_vars => []IInv
  BY InvInit, InvStep, PTL
<1> QED BY <1>1, PTL DEF Spec

\* The variables of the driver keep their types.
THEOREM TypeCorrect == Spec => []TypeOK
<1>1. IInv => TypeOK
  BY DEF IInv
<1> QED BY <1>1, Life, PTL

\* While a node is open the status URB is submitted, unless it was refused, has
\* failed, or the node was opened before there was one; and it is not while
\* nobody has one open (uvc_status_start, uvc_status_stop, uvc_suspend).
THEOREM StatusIsHeard == Spec => []StatusFollowsUsers
<1>1. IInv => StatusFollowsUsers
  BY DEF IInv
<1> QED BY <1>1, Life, PTL

\* uvc_delete runs once, when uvc_unregister_video is over and no file is open or
\* being opened or closed (uvc_release, uvc_unregister_video).
THEOREM DeletedLast == Spec => []NobodyHoldsTheDeleted
<1>1. IInv => NobodyHoldsTheDeleted
  <2> SUFFICES ASSUME IInv, deleted > 0
               PROVE  (\A h \in Handle : handle[h] = Closed) /\ deleted = 1 /\ step = "off"
    BY DEF NobodyHoldsTheDeleted
  <2>1. deleted = 1 /\ step = "off" /\ nstreams = 0
    BY DEF IInv, CountInv
  <2>2. Alive = {}
    BY <2>1, AliveCounted DEF IInv, CountInv
  <2> QED BY <2>1, <2>2 DEF IInv, NodeInv
<1> QED BY <1>1, Life, PTL

-----------------------------------------------------------------------------
\* Folds from the left, as sequences of steps.
\* Induction.
LEMMA NatInd ==
  ASSUME NEW S, 0 \in S, \A n \in Nat : n \in S => n + 1 \in S
  PROVE  Nat \subseteq S
<1> SUFFICES ASSUME Nat \ S # {} PROVE FALSE
  OBVIOUS
<1>1. PICK x \in Nat \ S : \A y \in Nat \ S : <<y, x>> \notin OpToRel(<, Nat)
  BY WFMin, NatLessThanWellFounded
<1>2. x # 0 /\ x - 1 \in Nat /\ x - 1 < x /\ (x - 1) + 1 = x
  OBVIOUS
<1>3. <<x - 1, x>> \in OpToRel(<, Nat)
  BY <1>2 DEF OpToRel
<1>4. x - 1 \in Nat \ S
  BY <1>2
<1> QED BY <1>1, <1>3, <1>4

\* The greatest of the first numbers.
LEMMA GreatestOf ==
  ASSUME NEW n \in Nat, NEW s \in SUBSET (1 .. n), s # {}
  PROVE  Max(s) \in s /\ \A x \in s : x <= Max(s)
<1> DEFINE E == {m \in Nat : \A t \in SUBSET (1 .. m) : t # {} =>
                    \E x \in t : \A y \in t : x >= y}
<1>1. 0 \in E
  <2>1. 1 .. 0 = {}
    OBVIOUS
  <2>2. \A t \in SUBSET {} : t = {}
    OBVIOUS
  <2> QED BY <2>1, <2>2
<1>2. \A m \in Nat : m \in E => m + 1 \in E
  <2> SUFFICES ASSUME NEW m \in Nat, m \in E, NEW t \in SUBSET (1 .. m + 1), t # {}
               PROVE  \E x \in t : \A y \in t : x >= y
    OBVIOUS
  <2>1. CASE m + 1 \in t
    BY <2>1
  <2>2. CASE m + 1 \notin t
    <3>1. t \in SUBSET (1 .. m)
      BY <2>2
    <3> QED BY <3>1
  <2> QED BY <2>1, <2>2
<1>3. \E x \in s : \A y \in s : x >= y
  <2>1. Nat \subseteq E
    <3> HIDE DEF E
    <3> QED BY <1>1, <1>2, NatInd
  <2> QED BY <2>1
<1>4. Max(s) \in s /\ \A y \in s : Max(s) >= y
  BY Zenon, <1>3 DEF Max
<1> QED BY <1>4

LEMMA GreatestIs ==
  ASSUME NEW n \in Nat, NEW s \in SUBSET (1 .. n), NEW x \in s, \A y \in s : y <= x
  PROVE  Max(s) = x
<1> DEFINE m == Max(s)
<1>1. m \in s /\ \A y \in s : y <= m
  BY GreatestOf
<1> HIDE DEF m
<1>2. m \in 1 .. n /\ x \in 1 .. n /\ x <= m /\ m <= x
  BY <1>1
<1>3. m = x
  BY <1>2
<1> QED BY <1>3 DEF m

\* What a fold from the left makes of each set of places.
IsFold(g, base, n, apply) ==
  \A s \in SUBSET (1 .. n) :
    g[s] = IF s = {} THEN base ELSE apply[<<Max(s), g[s \ {Max(s)}]>>]

StepOf(T, n) == [(1 .. n) \X T -> T]

\* It has a value for every set.
LEMMA FoldTable ==
  ASSUME NEW T, NEW base \in T, NEW n \in Nat, NEW apply \in StepOf(T, n)
  PROVE  \E g \in [SUBSET (1 .. n) -> T] : IsFold(g, base, n, apply)
<1> DEFINE Good(m) == {g \in [SUBSET (1 .. m) -> T] :
                         \A s \in SUBSET (1 .. m) :
                           g[s] = IF s = {} THEN base ELSE apply[<<Max(s), g[s \ {Max(s)}]>>]}
           S == {m \in Nat : m <= n => Good(m) # {}}
<1>0. apply \in [(1 .. n) \X T -> T]
  BY DEF StepOf
<1>1. 0 \in S
  <2>1. [s \in SUBSET (1 .. 0) |-> base] \in Good(0)
    OBVIOUS
  <2> QED BY <2>1
<1>2. \A m \in Nat : m \in S => m + 1 \in S
  <2> SUFFICES ASSUME NEW m \in Nat, m + 1 <= n, m \in S PROVE Good(m + 1) # {}
    <3> HIDE DEF Good
    <3> QED OBVIOUS
  <2>0. PICK g : g \in Good(m)
    <3> HIDE DEF Good
    <3> QED OBVIOUS
  <2> DEFINE h == [s \in SUBSET (1 .. m + 1) |->
                     IF m + 1 \in s THEN apply[<<m + 1, g[s \ {m + 1}]>>] ELSE g[s]]
  <2>1. \A s \in SUBSET (1 .. m + 1) : IF m + 1 \in s THEN s \ {m + 1} \in SUBSET (1 .. m)
                                                       ELSE s \in SUBSET (1 .. m)
    OBVIOUS
  <2>2. h \in [SUBSET (1 .. m + 1) -> T]
    <3>1. m + 1 \in 1 .. n
      OBVIOUS
    <3>2. \A s \in SUBSET (1 .. m) : g[s] \in T /\ apply[<<m + 1, g[s]>>] \in T
      BY <1>0, <2>0, <3>1
    <3> QED BY <2>1, <3>2
  <2>3. ASSUME NEW s \in SUBSET (1 .. m + 1)
        PROVE  h[s] = IF s = {} THEN base ELSE apply[<<Max(s), h[s \ {Max(s)}]>>]
    <3>1. CASE s = {}
      <4>1. h[s] = g[{}] /\ g[{}] = base
        BY <3>1, <2>0
      <4> QED BY <3>1, <4>1
    <3>2. CASE m + 1 \in s
      <4>1. Max(s) = m + 1
        <5>1. m + 1 \in Nat /\ \A y \in s : y <= m + 1
          OBVIOUS
        <5> QED BY <5>1, <3>2, GreatestIs
      <4>2. s \ {m + 1} \in SUBSET (1 .. m) /\ s \ {m + 1} \in SUBSET (1 .. m + 1)
        BY <2>1, <3>2
      <4>3. h[s \ {m + 1}] = g[s \ {m + 1}]
        BY <4>2
      <4> QED BY <3>2, <4>1, <4>3
    <3>3. CASE s # {} /\ m + 1 \notin s
      <4>1. s \in SUBSET (1 .. m)
        BY <2>1, <3>3
      <4>2. Max(s) \in s
        BY <4>1, <3>3, GreatestOf
      <4>3. s \ {Max(s)} \in SUBSET (1 .. m + 1) /\ m + 1 \notin s \ {Max(s)}
        BY <4>1, <3>3
      <4>4. h[s] = g[s] /\ h[s \ {Max(s)}] = g[s \ {Max(s)}]
        BY <3>3, <4>3
      <4>5. g[s] = apply[<<Max(s), g[s \ {Max(s)}]>>]
        BY <2>0, <3>3, <4>1
      <4> QED BY <3>3, <4>4, <4>5
    <3> QED BY <3>1, <3>2, <3>3
  <2> HIDE DEF h
  <2>4. h \in Good(m + 1)
    BY <2>2, <2>3
  <2> QED BY <2>4
<1>3. Nat \subseteq S
  <2> HIDE DEF S
  <2> QED BY <1>1, <1>2, NatInd
<1>4. Good(n) # {}
  <2> HIDE DEF Good
  <2> QED BY <1>3
<1> QED BY <1>4 DEF IsFold

\* The first numbers without the last of them.
LEMMA WithoutLast ==
  ASSUME NEW n \in Nat, NEW k \in 1 .. n
  PROVE  /\ 1 .. k \in SUBSET (1 .. n) /\ 1 .. k # {} /\ Max(1 .. k) = k
         /\ (1 .. k) \ {k} = 1 .. k - 1
<1>1. 1 .. k \in SUBSET (1 .. n) /\ 1 .. k # {} /\ k \in 1 .. k /\ \A y \in 1 .. k : y <= k
  OBVIOUS
<1>2. Max(1 .. k) = k
  BY <1>1, GreatestIs
<1> QED BY <1>1, <1>2

AreSteps(g, base, n, apply, last) ==
  g[0] = base /\ g[n] = last /\ \A k \in 1 .. n : g[k] = apply[<<k, g[k - 1]>>]

\* The places one after the other, whatever the fold makes of them.
LEMMA FoldSteps ==
  ASSUME NEW T, NEW base \in T, NEW n \in Nat, NEW apply \in StepOf(T, n), NEW iter,
         iter[{}] = base,
         \A s \in SUBSET (1 .. n) :
           s # {} /\ iter[s \ {Max(s)}] \in T => iter[s] = apply[<<Max(s), iter[s \ {Max(s)}]>>]
  PROVE  \E g \in [0 .. n -> T] : AreSteps(g, base, n, apply, iter[1 .. n])
<1> DEFINE E == {k \in Nat : k <= n => iter[1 .. k] \in T}
           g == [k \in 0 .. n |-> iter[1 .. k]]
<1>0. apply \in [(1 .. n) \X T -> T]
  BY DEF StepOf
<1>1. 0 \in E
  <2>1. 1 .. 0 = {}
    OBVIOUS
  <2> QED BY <2>1
<1>2. ASSUME NEW k \in 1 .. n, iter[1 .. k - 1] \in T
      PROVE  iter[1 .. k] = apply[<<k, iter[1 .. k - 1]>>]
  BY <1>2, WithoutLast
<1>3. \A k \in Nat : k \in E => k + 1 \in E
  <2> SUFFICES ASSUME NEW k \in Nat, k \in E, k + 1 <= n PROVE iter[1 .. k + 1] \in T
    OBVIOUS
  <2>1. k + 1 \in 1 .. n /\ (k + 1) - 1 = k
    OBVIOUS
  <2>3. k <= n => iter[1 .. k] \in T
    <3>1. k \in {i \in Nat : i <= n => iter[1 .. i] \in T}
      OBVIOUS
    <3> QED BY ONLY <3>1
  <2>4. iter[1 .. k] \in T
    BY <2>3
  <2>2. iter[1 .. k + 1] = apply[<<k + 1, iter[1 .. k]>>]
    BY <1>2, <2>1, <2>4
  <2> QED BY <1>0, <2>1, <2>2, <2>4
<1>4. Nat \subseteq E
  <2> HIDE DEF E
  <2> QED BY <1>1, <1>3, NatInd
<1>5. \A k \in 0 .. n : iter[1 .. k] \in T
  BY <1>4
<1>6. g \in [0 .. n -> T]
  BY <1>5
<1>7. g[0] = base /\ g[n] = iter[1 .. n]
  <2>1. 0 \in 0 .. n /\ n \in 0 .. n /\ 1 .. 0 = {}
    OBVIOUS
  <2> QED BY <2>1
<1>8. ASSUME NEW k \in 1 .. n PROVE g[k] = apply[<<k, g[k - 1]>>]
  <2>1. k \in 0 .. n /\ k - 1 \in 0 .. n
    OBVIOUS
  <2> QED BY <1>2, <1>5, <2>1
<1> HIDE DEF g
<1> QED BY <1>6, <1>7, <1>8 DEF AreSteps

-----------------------------------------------------------------------------
\* The states of a scan.
ScanState ==
  [chain : Seq(Nat), linked : SUBSET Nat, listed : SUBSET Nat, twice : SUBSET Nat,
   failed : BOOLEAN, processing : Nat, selector : Nat, next : Nat, prev : Nat]

LEMMA SetOfAppend ==
  ASSUME NEW S, NEW q \in Seq(S), NEW x \in S
  PROVE  ToSet(Append(q, x)) = ToSet(q) \cup {x}
<1> DEFINE a == Append(q, x)
           n == Len(q)
<1>1. /\ n \in Nat /\ DOMAIN q = 1 .. n /\ a \in Seq(S) /\ Len(a) = n + 1
      /\ \A i \in 1 .. n : a[i] = q[i]
      /\ a[n + 1] = x
  BY AppendProperties, LenProperties
<1>2. DOMAIN a = 1 .. n + 1
  BY <1>1, LenProperties
<1> HIDE DEF a, n
<1>3. \A i \in 1 .. n + 1 : i = n + 1 \/ i \in 1 .. n
  BY <1>1
<1>4. \A i \in 1 .. n : i \in 1 .. n + 1
  BY <1>1
<1>5. n + 1 \in 1 .. n + 1
  BY <1>1
<1>6. \A y : (\E i \in DOMAIN a : a[i] = y) <=> (\E i \in DOMAIN q : q[i] = y) \/ y = x
  BY <1>1, <1>2, <1>3, <1>4, <1>5
<1>7. ToSet(a) = ToSet(q) \cup {x}
  BY <1>6 DEF ToSet
<1> QED BY <1>7 DEF a

\* What is the same while an entity is only looked at, and what is after it was
\* taken into the chain.
Looks(s, r) ==
  /\ r \in ScanState
  /\ r.chain = s.chain /\ r.linked = s.linked /\ r.listed = s.listed /\ r.twice = s.twice

Takes(s, id, r) ==
  /\ r \in ScanState
  /\ ToSet(r.chain) = ToSet(s.chain) \cup {id}
  /\ r.linked = s.linked \cup {id} /\ r.listed = s.listed \cup {id}
  /\ r.twice = IF id \in s.listed THEN s.twice \cup {id} ELSE s.twice

Stays(s, r) == r.next = s.next /\ r.prev = s.prev

LEMMA FailsOf ==
  ASSUME NEW s \in ScanState
  PROVE  Looks(s, Fails(s)) /\ Stays(s, Fails(s)) /\ Fails(s).failed
BY DEF ScanState, Fails, Looks, Stays

LEMMA LinkOf ==
  ASSUME NEW s \in ScanState, NEW e, e.id \in Nat
  PROVE  Takes(s, e.id, Link(s, e)) /\ Stays(s, Link(s, e)) /\ Link(s, e).failed = s.failed
<1>1. Append(s.chain, e.id) \in Seq(Nat) /\ ToSet(Append(s.chain, e.id)) = ToSet(s.chain) \cup {e.id}
  BY SetOfAppend, AppendProperties DEF ScanState
<1>2. Link(s, e) \in ScanState
  BY <1>1 DEF ScanState, Link
<1>3. Link(s, e).chain = Append(s.chain, e.id)
  BY DEF ScanState, Link
<1>4. /\ Link(s, e).linked = s.linked \cup {e.id} /\ Link(s, e).listed = s.listed \cup {e.id}
      /\ Link(s, e).twice = IF e.id \in s.listed THEN s.twice \cup {e.id} ELSE s.twice
  BY DEF ScanState, Link
<1>5. Stays(s, Link(s, e)) /\ Link(s, e).failed = s.failed
  BY DEF ScanState, Link, Stays
<1> QED BY <1>1, <1>2, <1>3, <1>4, <1>5 DEF Takes

\* What may be taken in passing, and then is: units with one source, and outputs.
Hung(f, id, prev) ==
  References(f, id) /\ Len(f.sources) = 1 /\ ~IsInput(f) /\ f.id # prev

LEMMA ForwardOf ==
  ASSUME NEW s \in ScanState, NEW f \in Entity, Plain(f), NEW id, NEW prev,
         NEW r, r = Forward(s, f, id, prev)
  PROVE  /\ Stays(s, r)
         /\ Looks(s, r) \/ (Takes(s, f.id, r) /\ Hung(f, id, prev))
         /\ s.failed => r = s
         /\ ~References(f, id) \/ f.id = prev => r = s
<1> DEFINE Out == f.type \in {"DISPLAY", "MEDIA_OUT", "STREAM_OUT"}
<1>0. f.id \in Nat /\ f.sources \in Seq(Nat \ {0}) /\ f.type \in STRING
  BY DEF Entity
<1>1. CASE s.failed \/ ~References(f, id) \/ f.id = prev
  <2>1. r = s
    BY <1>1 DEF Forward
  <2> QED BY <2>1 DEF Stays, Looks
<1>2. CASE ~s.failed /\ References(f, id) /\ f.id # prev
  <2>1. CASE (f.type = "XU" /\ Len(f.sources) # 1) \/ f.type = "STREAM_IN"
    <3>1. r = Fails(s)
      BY <1>2, <2>1 DEF Forward
    <3> QED BY <1>2, <3>1, FailsOf
  <2>2. CASE ~((f.type = "XU" /\ Len(f.sources) # 1) \/ f.type = "STREAM_IN")
    <3>1. CASE f.type = "XU" \/ (IsOutput(f) /\ f.type # "OTHER_OUT")
      <4>1. r = Link(s, f)
        BY <1>2, <2>2, <3>1 DEF Forward
      <4>2. ~IsInput(f)
        BY <3>1 DEF IsInput, IsOutput
      <4>3. Len(f.sources) = 1
        <5>1. CASE f.type = "XU"
          BY <2>2, <5>1
        <5>2. CASE IsOutput(f)
          <6>1. Len(f.sources) <= 1 /\ Len(f.sources) \in Nat /\ DOMAIN f.sources = 1 .. Len(f.sources)
            BY <1>0, <5>2, LenProperties DEF Plain
          <6>2. Len(f.sources) # 0
            BY <1>2, <6>1 DEF References
          <6>3. \A n \in Nat : n <= 1 /\ n # 0 => n = 1
            OBVIOUS
          <6> QED BY <6>1, <6>2, <6>3
        <5> QED BY <3>1, <5>1, <5>2
      <4> QED BY <1>0, <1>2, <4>1, <4>2, <4>3, LinkOf DEF Hung
    <3>2. CASE ~(f.type = "XU" \/ (IsOutput(f) /\ f.type # "OTHER_OUT"))
      <4>1. r = s
        BY <1>2, <2>2, <3>2 DEF Forward
      <4> QED BY <4>1 DEF Stays, Looks
    <3> QED BY <3>1, <3>2
  <2> QED BY <2>1, <2>2
<1> QED BY <1>1, <1>2

\* The entities a scan goes through, one after the other.
LEMMA Entities ==
  ASSUME NEW es, Sensible(es)
  PROVE  /\ Len(es) \in Nat /\ DOMAIN es = 1 .. Len(es)
         /\ \A i \in 1 .. Len(es) :
              /\ es[i] \in Entity /\ Plain(es[i])
              /\ es[i].id \in Nat \ {0} /\ es[i].sources \in Seq(Nat \ {0})
              /\ \A j \in 1 .. Len(es) : es[i].id = es[j].id => i = j
<1>1. es \in Seq(Entity) /\ Len(es) \in Nat /\ DOMAIN es = 1 .. Len(es)
  BY LenProperties DEF Sensible
<1>2. \A i \in 1 .. Len(es) : es[i] \in Entity
  BY <1>1, ElementOfSeq
<1>3. \A e \in Entity : e.id \in Nat \ {0} /\ e.sources \in Seq(Nat \ {0})
  BY DEF Entity
<1> QED BY <1>1, <1>2, <1>3 DEF Sensible

LEMMA ByIdOf ==
  ASSUME NEW es, Sensible(es), NEW id
  PROVE  /\ IsKnown(es, id) <=> \E i \in DOMAIN es : es[i].id = id
         /\ \A i \in DOMAIN es : es[i].id = id => ById(es, id) = es[i]
<1> DEFINE I == {i \in 1 .. Len(es) : es[i].id = id}
<1>0. Len(es) \in Nat /\ DOMAIN es = 1 .. Len(es)
  BY Entities
<1>1. Place(es, id) = IF I # {} THEN Min(I) ELSE 0
  BY DEF Place, SelectInSeq
<1>2. ASSUME NEW i \in DOMAIN es, es[i].id = id PROVE Place(es, id) = i
  <2>1. I = {i}
    BY <1>0, <1>2, Entities
  <2>2. i \in Int
    BY <1>0
  <2>3. Min({i}) = i
    BY <2>2 DEF Min
  <2> QED BY <1>1, <2>1, <2>3
<1>3. (~\E i \in DOMAIN es : es[i].id = id) => Place(es, id) = 0
  BY <1>0, <1>1
<1>4. \A i \in DOMAIN es : i # 0
  BY <1>0
<1> QED BY <1>2, <1>3, <1>4 DEF IsKnown, ById

-----------------------------------------------------------------------------
\* uvc_scan_chain_forward comes to the entities in their order.
AreForward(g, es, s, e, prev) ==
  /\ g[0] = s /\ g[Len(es)] = ScanForward(es, s, e, prev)
  /\ \A k \in 1 .. Len(es) : g[k] = Forward(g[k - 1], es[k], e.id, prev)

LEMMA ForwardSteps ==
  ASSUME NEW es, Sensible(es), NEW s \in ScanState, NEW e, NEW prev
  PROVE  \E g \in [0 .. Len(es) -> ScanState] : AreForward(g, es, s, e, prev)
<1> DEFINE n == Len(es)
           apply == [a \in (1 .. n) \X ScanState |-> Forward(a[2], es[a[1]], e.id, prev)]
           iter == CHOOSE i : i = [p \in SUBSET DOMAIN es |->
                     IF p = {} THEN s ELSE Forward(i[p \ {Max(p)}], es[Max(p)], e.id, prev)]
<1>0. n \in Nat /\ DOMAIN es = 1 .. n
  BY Entities
<1>1. \A k \in 1 .. n : \A r \in ScanState : Forward(r, es[k], e.id, prev) \in ScanState
  <2> SUFFICES ASSUME NEW k \in 1 .. n, NEW r \in ScanState
               PROVE  Forward(r, es[k], e.id, prev) \in ScanState
    OBVIOUS
  <2>1. es[k] \in Entity /\ Plain(es[k])
    BY Entities
  <2> DEFINE t == Forward(r, es[k], e.id, prev)
  <2>2. t = Forward(r, es[k], e.id, prev)
    OBVIOUS
  <2> HIDE DEF t
  <2>3. Looks(r, t) \/ Takes(r, es[k].id, t)
    BY <2>1, <2>2, ForwardOf
  <2>4. t \in ScanState
    BY <2>3 DEF Looks, Takes
  <2> QED BY <2>2, <2>4
<1>2. apply \in StepOf(ScanState, n)
  <2> HIDE DEF n
  <2> QED BY <1>1 DEF StepOf
<1>3. \A k \in 1 .. n : \A r \in ScanState : apply[<<k, r>>] = Forward(r, es[k], e.id, prev)
  OBVIOUS
<1>4. PICK f \in [SUBSET (1 .. n) -> ScanState] :
        IsFold(f, s, n, apply)
  <2> HIDE DEF apply, n
  <2> QED BY <1>0, <1>2, FoldTable
<1>5. \A p \in SUBSET (1 .. n) : p # {} => Max(p) \in 1 .. n
  BY <1>0, GreatestOf
<1>6. ASSUME NEW p \in SUBSET (1 .. n)
      PROVE  f[p] = IF p = {} THEN s ELSE Forward(f[p \ {Max(p)}], es[Max(p)], e.id, prev)
  <2>1. f[p \ {Max(p)}] \in ScanState
    OBVIOUS
  <2> HIDE DEF apply, n
  <2> QED BY <1>3, <1>4, <1>5, <2>1 DEF IsFold
<1>7. f = [p \in SUBSET DOMAIN es |->
             IF p = {} THEN s ELSE Forward(f[p \ {Max(p)}], es[Max(p)], e.id, prev)]
  <2> HIDE DEF apply, n
  <2> QED BY <1>0, <1>6
<1>8. iter = [p \in SUBSET DOMAIN es |->
                IF p = {} THEN s ELSE Forward(iter[p \ {Max(p)}], es[Max(p)], e.id, prev)]
  BY <1>7
<1>9. ScanForward(es, s, e, prev) = iter[1 .. n]
  BY <1>0 DEF ScanForward, FoldLeft, MapThenFoldSet
<1> HIDE DEF iter, apply, n
<1>10. iter[{}] = s
  BY <1>8
<1>11. ASSUME NEW p \in SUBSET (1 .. n), p # {}, iter[p \ {Max(p)}] \in ScanState
       PROVE  iter[p] = apply[<<Max(p), iter[p \ {Max(p)}]>>]
  <2>1. iter[p] = Forward(iter[p \ {Max(p)}], es[Max(p)], e.id, prev)
    BY <1>0, <1>8, <1>11
  <2> QED BY <1>3, <1>5, <1>11, <2>1
<1>12. PICK g \in [0 .. n -> ScanState] :
         AreSteps(g, s, n, apply, iter[1 .. n])
  BY <1>0, <1>2, <1>10, <1>11, FoldSteps
<1>13. ASSUME NEW k \in 1 .. n PROVE g[k] = Forward(g[k - 1], es[k], e.id, prev)
  <2>1. k - 1 \in 0 .. n
    BY <1>0
  <2> QED BY <1>3, <1>12, <2>1 DEF AreSteps
<1> QED BY <1>9, <1>12, <1>13 DEF n, AreSteps, AreForward

\* What the first k entities have added that hangs from entity j.  Only what
\* hangs from itself can be added though it is in the list.
Grown(es, j, prev, s, r, k) ==
  /\ r \in ScanState /\ Stays(s, r)
  /\ ToSet(s.chain) \subseteq ToSet(r.chain)
  /\ \A x \in ToSet(r.chain) \ ToSet(s.chain) :
       \E m \in 1 .. k : es[m].id = x /\ Hung(es[m], es[j].id, prev)
  /\ r.linked = s.linked \cup ToSet(r.chain) /\ r.listed = s.listed \cup ToSet(r.chain)
  /\ r.twice \subseteq {es[j].id}
  /\ r.twice # {} => Hung(es[j], es[j].id, prev)

LEMMA ForwardGrows ==
  ASSUME NEW es, Sensible(es), NEW j \in 1 .. Len(es), NEW prev,
         NEW s \in ScanState, s.twice = {},
         ToSet(s.chain) \subseteq s.linked, ToSet(s.chain) \subseteq s.listed,
         \A m \in 1 .. Len(es) :
           Hung(es[m], es[j].id, prev) /\ es[m].id \in s.listed => m = j
  PROVE  Grown(es, j, prev, s, ScanForward(es, s, es[j], prev), Len(es))
<1> DEFINE n == Len(es)
           id == es[j].id
<1>0. n \in Nat /\ DOMAIN es = 1 .. n /\ n \in 0 .. n
      /\ \A i \in 1 .. n : es[i] \in Entity /\ Plain(es[i]) /\ es[i].id \in Nat
                           /\ \A m \in 1 .. n : es[i].id = es[m].id => i = m
  BY Entities
<1>1. PICK g \in [0 .. n -> ScanState] : AreForward(g, es, s, es[j], prev)
  BY ForwardSteps
<1>9. /\ g[0] = s /\ g[n] = ScanForward(es, s, es[j], prev)
      /\ \A k \in 1 .. n : g[k] = Forward(g[k - 1], es[k], es[j].id, prev)
  BY <1>1 DEF AreForward
<1> DEFINE E == {k \in Nat : k <= n => Grown(es, j, prev, s, g[k], k)}
<1> HIDE DEF n
<1>2. 0 \in E
  <2>1. Grown(es, j, prev, s, s, 0)
    BY DEF Grown, Stays
  <2> QED BY <1>9, <2>1
<1>3. ASSUME NEW k \in Nat, k + 1 <= n, Grown(es, j, prev, s, g[k], k)
      PROVE  Grown(es, j, prev, s, g[k + 1], k + 1)
  <2> DEFINE r == g[k]
             t == g[k + 1]
             f == es[k + 1]
  <2>1. /\ k + 1 \in 1 .. n /\ (k + 1) - 1 = k /\ k \in 0 .. n
        /\ \A m \in 1 .. k : m \in 1 .. k + 1 /\ m \in 1 .. n /\ m # k + 1
    BY <1>0, <1>3
  <2>2. t = Forward(r, f, id, prev) /\ r \in ScanState
    BY <1>9, <2>1
  <2>3. Stays(r, t) /\ (Looks(r, t) \/ (Takes(r, f.id, t) /\ Hung(f, id, prev)))
    <3>1. f \in Entity /\ Plain(f)
      BY <1>0, <2>1
    <3> QED BY <2>2, <3>1, ForwardOf
  <2> HIDE DEF r, t
  <2>4. Grown(es, j, prev, s, r, k)
    BY <1>3 DEF r
  <2>5. CASE Looks(r, t)
    <3>1. /\ t \in ScanState /\ t.chain = r.chain
          /\ t.linked = r.linked /\ t.listed = r.listed /\ t.twice = r.twice
      BY <2>5 DEF Looks
    <3>2. Stays(s, t)
      BY <2>3, <2>4 DEF Grown, Stays
    <3>3. ASSUME NEW x \in ToSet(t.chain) \ ToSet(s.chain)
          PROVE  \E m \in 1 .. k + 1 : es[m].id = x /\ Hung(es[m], id, prev)
      <4>1. PICK m \in 1 .. k : es[m].id = x /\ Hung(es[m], id, prev)
        BY <2>4, <3>1, <3>3 DEF Grown
      <4> QED BY <2>1, <4>1
    <3>4. /\ ToSet(s.chain) \subseteq ToSet(t.chain)
          /\ t.linked = s.linked \cup ToSet(t.chain) /\ t.listed = s.listed \cup ToSet(t.chain)
          /\ t.twice \subseteq {id} /\ (t.twice # {} => Hung(es[j], id, prev))
      BY <2>4, <3>1 DEF Grown
    <3> QED BY <3>1, <3>2, <3>3, <3>4 DEF Grown, t
  <2>6. CASE Takes(r, f.id, t) /\ Hung(f, id, prev)
    <3>1. /\ t \in ScanState /\ ToSet(t.chain) = ToSet(r.chain) \cup {f.id}
          /\ t.linked = r.linked \cup {f.id} /\ t.listed = r.listed \cup {f.id}
          /\ t.twice = IF f.id \in r.listed THEN r.twice \cup {f.id} ELSE r.twice
      BY <2>6 DEF Takes
    <3>2. Stays(s, t)
      BY <2>3, <2>4 DEF Grown, Stays
    <3>3. ASSUME NEW x \in ToSet(t.chain) \ ToSet(s.chain)
          PROVE  \E m \in 1 .. k + 1 : es[m].id = x /\ Hung(es[m], id, prev)
      <4>1. CASE x = f.id
        BY <2>1, <2>6, <4>1
      <4>2. CASE x \in ToSet(r.chain) \ ToSet(s.chain)
        BY <2>1, <2>4, <4>2 DEF Grown
      <4> QED BY <3>1, <3>3, <4>1, <4>2
    <3>4. f.id \in r.listed => k + 1 = j
      <4> SUFFICES ASSUME f.id \in r.listed PROVE k + 1 = j
        OBVIOUS
      <4>1. f.id \in s.listed \/ f.id \in ToSet(r.chain) \ ToSet(s.chain)
        BY <2>4 DEF Grown
      <4>2. CASE f.id \in s.listed
        BY <2>1, <2>6, <4>2 DEF n
      <4>3. CASE f.id \in ToSet(r.chain) \ ToSet(s.chain)
        <5>1. PICK m \in 1 .. k : es[m].id = f.id
          BY <2>4, <4>3 DEF Grown
        <5> QED BY <1>0, <2>1, <5>1
      <4> QED BY <4>1, <4>2, <4>3
    <3>5. t.twice \subseteq {id} /\ (t.twice # {} => Hung(es[j], id, prev))
      <4>1. CASE f.id \in r.listed
        BY <2>4, <2>6, <3>1, <3>4, <4>1 DEF Grown
      <4>2. CASE f.id \notin r.listed
        BY <2>4, <3>1, <4>2 DEF Grown
      <4> QED BY <4>1, <4>2
    <3>6. /\ ToSet(s.chain) \subseteq ToSet(t.chain)
          /\ t.linked = s.linked \cup ToSet(t.chain) /\ t.listed = s.listed \cup ToSet(t.chain)
      BY <2>4, <3>1 DEF Grown
    <3> QED BY <3>1, <3>2, <3>3, <3>5, <3>6 DEF Grown, t
  <2> QED BY <2>3, <2>5, <2>6 DEF t
<1>4. Nat \subseteq E
  <2>1. \A k \in Nat : k \in E => k + 1 \in E
    <3> SUFFICES ASSUME NEW k \in Nat, k \in E, k + 1 <= n PROVE Grown(es, j, prev, s, g[k + 1], k + 1)
      BY <1>0
    <3>1. k <= n
      BY <1>0
    <3> QED BY <1>3, <3>1
  <2> HIDE DEF E
  <2> QED BY <1>2, <2>1, NatInd
<1>5. Grown(es, j, prev, s, g[n], n)
  BY <1>0, <1>4
<1> QED BY <1>9, <1>5 DEF n

\* The inputs of a selector: nothing else hangs from them.
LEMMA ForwardIsIdle ==
  ASSUME NEW es, Sensible(es), NEW s \in ScanState, NEW e, NEW prev,
         \A m \in 1 .. Len(es) : References(es[m], e.id) => es[m].id = prev
  PROVE  ScanForward(es, s, e, prev) = s
<1> DEFINE n == Len(es)
<1>0. n \in Nat /\ n \in 0 .. n /\ \A i \in 1 .. n : es[i] \in Entity /\ Plain(es[i])
  BY Entities
<1>1. PICK g \in [0 .. n -> ScanState] : AreForward(g, es, s, e, prev)
  BY ForwardSteps
<1>9. /\ g[0] = s /\ g[n] = ScanForward(es, s, e, prev)
      /\ \A k \in 1 .. n : g[k] = Forward(g[k - 1], es[k], e.id, prev)
  BY <1>1 DEF AreForward
<1> DEFINE E == {k \in Nat : k <= n => g[k] = s}
<1> HIDE DEF n
<1>2. 0 \in E
  BY <1>9
<1>3. \A k \in Nat : k \in E => k + 1 \in E
  <2> SUFFICES ASSUME NEW k \in Nat, k \in E, k + 1 <= n PROVE g[k + 1] = s
    OBVIOUS
  <2>1. k + 1 \in 1 .. n /\ (k + 1) - 1 = k /\ k <= n
    BY <1>0
  <2>2. g[k + 1] = Forward(s, es[k + 1], e.id, prev)
    BY <1>9, <2>1
  <2>3. Forward(s, es[k + 1], e.id, prev) = s
    BY <2>1 DEF Forward, n
  <2> QED BY <2>2, <2>3
<1>4. Nat \subseteq E
  <2> HIDE DEF E
  <2> QED BY <1>2, <1>3, NatInd
<1> QED BY <1>0, <1>9, <1>4

\* uvc_scan_chain_backward comes to the inputs of a selector in their order.
AreInputs(g, es, s, e) ==
  /\ g[0] = s /\ ScanInputs(es, s, e) = [g[Len(e.sources)] EXCEPT !.next = 0]
  /\ \A k \in 1 .. Len(e.sources) : g[k] = TakeInput(es, g[k - 1], e.sources[k], e.id)

LEMMA TakeInputOf ==
  ASSUME NEW es, Sensible(es), NEW s \in ScanState, NEW id, NEW selector
  PROVE  TakeInput(es, s, id, selector) \in ScanState
<1>1. CASE s.failed \/ ~IsKnown(es, id) \/ ~IsInput(ById(es, id))
  <2>1. TakeInput(es, s, id, selector) = Fails(s)
    BY <1>1 DEF TakeInput
  <2> QED BY <2>1, FailsOf DEF Looks
<1>2. CASE ~s.failed /\ IsKnown(es, id) /\ IsInput(ById(es, id))
  <2> DEFINE input == ById(es, id)
             r == ScanForward(es, Link(s, input), input, selector)
  <2>1. input.id \in Nat
    BY <1>2, ByIdOf, Entities
  <2>2. Link(s, input) \in ScanState
    BY <2>1, LinkOf DEF Takes
  <2>3. r \in ScanState
    <3>1. PICK g \in [0 .. Len(es) -> ScanState] : AreForward(g, es, Link(s, input), input, selector)
      BY <2>2, ForwardSteps
    <3>2. Len(es) \in 0 .. Len(es)
      BY Entities
    <3> QED BY <3>1, <3>2 DEF AreForward
  <2>4. TakeInput(es, s, id, selector) = [r EXCEPT !.failed = FALSE]
    BY <1>2 DEF TakeInput
  <2> HIDE DEF r
  <2>5. [r EXCEPT !.failed = FALSE] \in ScanState
    BY <2>3 DEF ScanState
  <2> QED BY <2>4, <2>5
<1> QED BY <1>1, <1>2

LEMMA InputSteps ==
  ASSUME NEW es, Sensible(es), NEW s \in ScanState, NEW e \in Entity
  PROVE  \E g \in [0 .. Len(e.sources) -> ScanState] : AreInputs(g, es, s, e)
<1> DEFINE n == Len(e.sources)
           apply == [a \in (1 .. n) \X ScanState |-> TakeInput(es, a[2], e.sources[a[1]], e.id)]
           iter == CHOOSE i : i = [p \in SUBSET DOMAIN e.sources |->
                     IF p = {} THEN s ELSE TakeInput(es, i[p \ {Max(p)}], e.sources[Max(p)], e.id)]
<1>0. n \in Nat /\ DOMAIN e.sources = 1 .. n
  BY LenProperties DEF Entity
<1>1. \A k \in 1 .. n : \A r \in ScanState : TakeInput(es, r, e.sources[k], e.id) \in ScanState
  BY TakeInputOf
<1>2. apply \in StepOf(ScanState, n)
  <2> HIDE DEF n
  <2> QED BY <1>1 DEF StepOf
<1>3. \A k \in 1 .. n : \A r \in ScanState : apply[<<k, r>>] = TakeInput(es, r, e.sources[k], e.id)
  OBVIOUS
<1>4. PICK f \in [SUBSET (1 .. n) -> ScanState] : IsFold(f, s, n, apply)
  <2> HIDE DEF apply, n
  <2> QED BY <1>0, <1>2, FoldTable
<1>5. \A p \in SUBSET (1 .. n) : p # {} => Max(p) \in 1 .. n
  BY <1>0, GreatestOf
<1>6. ASSUME NEW p \in SUBSET (1 .. n)
      PROVE  f[p] = IF p = {} THEN s ELSE TakeInput(es, f[p \ {Max(p)}], e.sources[Max(p)], e.id)
  <2>1. f[p \ {Max(p)}] \in ScanState
    OBVIOUS
  <2> HIDE DEF apply, n
  <2> QED BY <1>3, <1>4, <1>5, <2>1 DEF IsFold
<1>7. f = [p \in SUBSET DOMAIN e.sources |->
             IF p = {} THEN s ELSE TakeInput(es, f[p \ {Max(p)}], e.sources[Max(p)], e.id)]
  <2> HIDE DEF apply, n
  <2> QED BY <1>0, <1>6
<1>8. iter = [p \in SUBSET DOMAIN e.sources |->
                IF p = {} THEN s ELSE TakeInput(es, iter[p \ {Max(p)}], e.sources[Max(p)], e.id)]
  BY <1>7
<1>9. ScanInputs(es, s, e) = [iter[1 .. n] EXCEPT !.next = 0]
  BY <1>0 DEF ScanInputs, FoldLeft, MapThenFoldSet
<1> HIDE DEF iter, apply, n
<1>10. iter[{}] = s
  BY <1>8
<1>11. ASSUME NEW p \in SUBSET (1 .. n), p # {}, iter[p \ {Max(p)}] \in ScanState
       PROVE  iter[p] = apply[<<Max(p), iter[p \ {Max(p)}]>>]
  <2>1. iter[p] = TakeInput(es, iter[p \ {Max(p)}], e.sources[Max(p)], e.id)
    BY <1>0, <1>8, <1>11
  <2> QED BY <1>3, <1>5, <1>11, <2>1
<1>12. PICK g \in [0 .. n -> ScanState] : AreSteps(g, s, n, apply, iter[1 .. n])
  BY <1>0, <1>2, <1>10, <1>11, FoldSteps
<1>13. ASSUME NEW k \in 1 .. n PROVE g[k] = TakeInput(es, g[k - 1], e.sources[k], e.id)
  <2>1. k - 1 \in 0 .. n
    BY <1>0
  <2> QED BY <1>3, <1>12, <2>1 DEF AreSteps
<1> QED BY <1>9, <1>12, <1>13 DEF n, AreSteps, AreInputs

\* What the first k inputs of the selector j have added: themselves.
Chosen(es, j, s, r, k) ==
  /\ r \in ScanState /\ Stays(s, r)
  /\ ToSet(s.chain) \subseteq ToSet(r.chain)
  /\ \A x \in ToSet(r.chain) \ ToSet(s.chain) :
       /\ \E m \in 1 .. k : es[j].sources[m] = x
       /\ \E i \in 1 .. Len(es) : es[i].id = x /\ IsInput(es[i])
  /\ r.linked = s.linked \cup ToSet(r.chain) /\ r.listed = s.listed \cup ToSet(r.chain)
  /\ r.twice = {}
  /\ ~r.failed => \A m \in 1 .. k : es[j].sources[m] \in ToSet(r.chain)

LEMMA TakenOnce ==
  ASSUME NEW es, Sensible(es), NEW j \in 1 .. Len(es), Selects(es[j]),
         NEW s \in ScanState, NEW r, NEW k \in 1 .. Len(es[j].sources), Chosen(es, j, s, r, k - 1),
         ToSet(s.chain) \subseteq s.listed,
         \A i \in 1 .. Len(es) : \A m \in DOMAIN es[j].sources :
           IsInput(es[i]) /\ es[i].id = es[j].sources[m] => es[i].id \notin s.listed
  PROVE  Chosen(es, j, s, TakeInput(es, r, es[j].sources[k], es[j].id), k)
<1> DEFINE e == es[j]
           id == e.sources[k]
           t == TakeInput(es, r, id, e.id)
<1>0. /\ Len(es) \in Nat /\ DOMAIN es = 1 .. Len(es) /\ e \in Entity
      /\ Len(e.sources) \in Nat /\ DOMAIN e.sources = 1 .. Len(e.sources)
      /\ \A m \in DOMAIN e.sources : e.sources[m] \in Nat
      /\ k \in Nat /\ \A m \in 1 .. k : m \in 1 .. k - 1 \/ m = k
      /\ \A m \in 1 .. k - 1 : m \in 1 .. k /\ m # k /\ m \in DOMAIN e.sources
  <2>1. e \in Entity /\ e.sources \in Seq(Nat \ {0}) /\ Len(es) \in Nat /\ DOMAIN es = 1 .. Len(es)
    BY Entities
  <2>2. Len(e.sources) \in Nat /\ DOMAIN e.sources = 1 .. Len(e.sources)
    BY <2>1, LenProperties
  <2>3. \A m \in DOMAIN e.sources : e.sources[m] \in Nat
    BY <2>1, <2>2, ElementOfSeq
  <2> QED BY <2>1, <2>2, <2>3
<1>1. CASE r.failed \/ ~IsKnown(es, id) \/ ~IsInput(ById(es, id))
  <2>1. t = Fails(r)
    BY <1>1 DEF TakeInput
  <2>2. Looks(r, t) /\ Stays(r, t) /\ t.failed
    BY <2>1, FailsOf DEF Chosen
  <2> HIDE DEF t
  <2>3. Stays(s, t)
    BY <2>2 DEF Chosen, Stays
  <2>4. ASSUME NEW x \in ToSet(t.chain) \ ToSet(s.chain)
        PROVE  /\ \E m \in 1 .. k : es[j].sources[m] = x
               /\ \E i \in 1 .. Len(es) : es[i].id = x /\ IsInput(es[i])
    <3>1. x \in ToSet(r.chain) \ ToSet(s.chain)
      BY <2>2 DEF Looks
    <3> QED BY <1>0, <3>1 DEF Chosen
  <2> QED BY <2>2, <2>3, <2>4 DEF Chosen, Looks, t
<1>2. CASE ~r.failed /\ IsKnown(es, id) /\ IsInput(ById(es, id))
  <2> DEFINE l == Link(r, ById(es, id))
  <2>1. PICK i \in 1 .. Len(es) : es[i].id = id /\ ById(es, id) = es[i] /\ IsInput(es[i])
    BY <1>0, <1>2, ByIdOf
  <2>2. Takes(r, id, l) /\ Stays(r, l) /\ ~l.failed
    BY <1>0, <1>2, <2>1, LinkOf DEF Chosen
  <2>3. ASSUME NEW m \in 1 .. Len(es), References(es[m], id) PROVE es[m].id = e.id
    BY <1>0, <2>3 DEF Sensible
  <2>4. ScanForward(es, l, es[i], e.id) = l
    BY <2>1, <2>2, <2>3, ForwardIsIdle DEF Takes
  <2>5. t = l
    <3>1. t = [l EXCEPT !.failed = FALSE]
      BY <1>2, <2>1, <2>4 DEF TakeInput
    <3>2. l \in ScanState
      BY <2>2 DEF Takes
    <3> HIDE DEF l, t
    <3> QED BY <2>2, <3>1, <3>2 DEF ScanState
  <2> HIDE DEF l, t
  <2>6. id \notin r.listed
    <3>1. id \notin s.listed
      BY <1>0, <2>1
    <3>2. id \notin ToSet(r.chain) \ ToSet(s.chain)
      <4> SUFFICES ASSUME id \in ToSet(r.chain) \ ToSet(s.chain) PROVE FALSE
        OBVIOUS
      <4>1. PICK m \in 1 .. k - 1 : e.sources[m] = id
        BY DEF Chosen
      <4>2. IsInjective(e.sources)
        BY <1>0 DEF Sensible
      <4> QED BY <1>0, <4>1, <4>2 DEF IsInjective
    <3>3. r.listed = s.listed \cup ToSet(r.chain) /\ ToSet(s.chain) \subseteq ToSet(r.chain)
      BY DEF Chosen
    <3>4. id \notin ToSet(s.chain) \/ id \in s.listed
      OBVIOUS
    <3> QED BY <3>1, <3>2, <3>3, <3>4
  <2>7. /\ t \in ScanState /\ ToSet(t.chain) = ToSet(r.chain) \cup {id}
        /\ t.linked = r.linked \cup {id} /\ t.listed = r.listed \cup {id} /\ t.twice = {}
    BY <2>2, <2>5, <2>6 DEF Takes, Chosen
  <2>8. Stays(s, t)
    BY <2>2, <2>5 DEF Chosen, Stays
  <2>9. ASSUME NEW x \in ToSet(t.chain) \ ToSet(s.chain)
        PROVE  /\ \E m \in 1 .. k : e.sources[m] = x
               /\ \E m \in 1 .. Len(es) : es[m].id = x /\ IsInput(es[m])
    <3>1. CASE x = id
      BY <1>0, <2>1, <3>1
    <3>2. CASE x \in ToSet(r.chain) \ ToSet(s.chain)
      BY <1>0, <3>2 DEF Chosen
    <3> QED BY <2>7, <2>9, <3>1, <3>2
  <2>10. \A m \in 1 .. k : e.sources[m] \in ToSet(t.chain)
    BY <1>0, <1>2, <2>7 DEF Chosen
  <2>11. /\ ToSet(s.chain) \subseteq ToSet(t.chain)
         /\ t.linked = s.linked \cup ToSet(t.chain) /\ t.listed = s.listed \cup ToSet(t.chain)
    BY <2>7 DEF Chosen
  <2> QED BY <2>7, <2>8, <2>9, <2>10, <2>11 DEF Chosen, t
<1> QED BY <1>1, <1>2

LEMMA InputsChosen ==
  ASSUME NEW es, Sensible(es), NEW j \in 1 .. Len(es), Selects(es[j]),
         NEW s \in ScanState, ~s.failed, s.twice = {},
         ToSet(s.chain) \subseteq s.linked, ToSet(s.chain) \subseteq s.listed,
         \A i \in 1 .. Len(es) : \A m \in DOMAIN es[j].sources :
           IsInput(es[i]) /\ es[i].id = es[j].sources[m] => es[i].id \notin s.listed
  PROVE  \E t \in ScanState : /\ ScanInputs(es, s, es[j]) = [t EXCEPT !.next = 0]
                              /\ Chosen(es, j, s, t, Len(es[j].sources))
<1> DEFINE n == Len(es[j].sources)
<1>0. n \in Nat /\ n \in 0 .. n /\ es[j] \in Entity
  BY Entities, LenProperties
<1>1. PICK g \in [0 .. n -> ScanState] : AreInputs(g, es, s, es[j])
  BY <1>0, InputSteps
<1>2. /\ g[0] = s /\ ScanInputs(es, s, es[j]) = [g[n] EXCEPT !.next = 0]
      /\ \A k \in 1 .. n : g[k] = TakeInput(es, g[k - 1], es[j].sources[k], es[j].id)
  BY <1>1 DEF AreInputs
<1> DEFINE E == {k \in Nat : k <= n => Chosen(es, j, s, g[k], k)}
<1>3. 0 \in E
  <2>1. Chosen(es, j, s, s, 0)
    BY DEF Chosen, Stays
  <2> QED BY <1>2, <2>1
<1>4. \A k \in Nat : k \in E => k + 1 \in E
  <2> SUFFICES ASSUME NEW k \in Nat, k \in E, k + 1 <= n PROVE Chosen(es, j, s, g[k + 1], k + 1)
    OBVIOUS
  <2>1. k + 1 \in 1 .. n /\ (k + 1) - 1 = k /\ k <= n
    BY <1>0
  <2>2. Chosen(es, j, s, g[k], (k + 1) - 1)
    BY <2>1
  <2> HIDE DEF n
  <2>3. Chosen(es, j, s, TakeInput(es, g[k], es[j].sources[k + 1], es[j].id), k + 1)
    BY <2>1, <2>2, TakenOnce DEF n
  <2> QED BY <1>2, <2>1, <2>3
<1>5. Nat \subseteq E
  <2> HIDE DEF E
  <2> QED BY <1>3, <1>4, NatInd
<1>6. Chosen(es, j, s, g[n], n)
  BY <1>0, <1>5
<1>7. g[n] \in ScanState
  BY <1>0
<1> QED BY <1>2, <1>6, <1>7

-----------------------------------------------------------------------------
\* What chains are: the sources of a member are members, and an input is the
\* source of one.
IdsOf(es) == {es[j].id : j \in 1 .. Len(es)}
HasSources(es, K) == \A j \in 1 .. Len(es) : es[j].id \in K => ToSet(es[j].sources) \subseteq K
UsesInputs(es, K) ==
  \A j \in 1 .. Len(es) : es[j].id \in K /\ IsInput(es[j]) =>
    \E i \in 1 .. Len(es) : es[i].id \in K /\ References(es[i], es[j].id)

\* A scan that has not failed: but for the entity it has come from, whose source is
\* the next, its chain is one already.  Something was added twice only if the
\* next entity is in the chain, and the scan about to fail.
Underway(es, s) ==
  /\ s.next # 0 => s.next \in IdsOf(es)
  /\ s.twice # {} => s.next \in s.linked
  /\ \A j \in 1 .. Len(es) : es[j].id \in ToSet(s.chain) =>
       ToSet(es[j].sources) \subseteq ToSet(s.chain) \/ (es[j].id = s.prev /\ ToSet(es[j].sources) = {s.next})
  /\ \A j \in 1 .. Len(es) : es[j].id \in ToSet(s.chain) /\ IsInput(es[j]) => s.next = 0
  /\ UsesInputs(es, ToSet(s.chain))
  /\ \/ \E i \in 1 .. Len(es) : es[i].id \in ToSet(s.chain) /\ (s.next # 0 => References(es[i], s.next))
     \/ ToSet(s.chain) = {} /\ \A j \in 1 .. Len(es) : es[j].id = s.next => ~IsInput(es[j])

\* L are the entities with links when the scan begins, K those of the chains that
\* are kept.
ScanInv(es, L, K, s) ==
  /\ s \in ScanState
  /\ ToSet(s.chain) \subseteq IdsOf(es)
  /\ s.linked = L \cup ToSet(s.chain) /\ s.listed = K \cup ToSet(s.chain)
  /\ s.twice \cap K = {}
  /\ ~s.failed => Underway(es, s)

Chains(es, L, K) == K \subseteq L /\ HasSources(es, K) /\ UsesInputs(es, K)

\* uvc_scan_chain_entity
LEMMA OwnOf ==
  ASSUME NEW s \in ScanState, ~s.failed, NEW e \in Entity, Plain(e), NEW own, own = ScanEntity(s, e)
  PROVE  /\ own.failed => Looks(s, own)
         /\ ~own.failed => /\ Takes(s, e.id, own) /\ Stays(s, own)
                           /\ Selects(e) \/ Len(e.sources) <= 1
<1>0. e.id \in Nat /\ e.sources \in Seq(Nat \ {0}) /\ Len(e.sources) \in Nat
  BY LenProperties DEF Entity
<1>1. CASE own = Fails(s)
  BY <1>1, FailsOf
<1>2. ASSUME NEW p \in ScanState, Looks(s, p), Stays(s, p), ~p.failed, own = Link(p, e),
             Selects(e) \/ Len(e.sources) <= 1
      PROVE  ~own.failed /\ Takes(s, e.id, own) /\ Stays(s, own)
  <2>1. Takes(p, e.id, own) /\ Stays(p, own) /\ own.failed = p.failed
    BY <1>0, <1>2, LinkOf
  <2> QED BY <1>2, <2>1 DEF Takes, Looks, Stays
<1>3. CASE e.type \in {"OTHER_IN", "OTHER_OUT"} \/ (e.type = "XU" /\ Len(e.sources) # 1)
  <2>1. own = Fails(s)
    BY <1>3 DEF ScanEntity, Selects
  <2> QED BY <1>1, <2>1
<1> DEFINE First == e.type \in {"OTHER_IN", "OTHER_OUT"} \/ (e.type = "XU" /\ Len(e.sources) # 1)
<1>4. CASE ~First /\ e.type = "PU"
  <2> DEFINE p == [s EXCEPT !.processing = e.id]
  <2>1. own = IF s.processing # 0 THEN Fails(s) ELSE Link(p, e)
    BY <1>4 DEF ScanEntity, Selects
  <2>2. p \in ScanState /\ Looks(s, p) /\ Stays(s, p) /\ ~p.failed
    BY <1>0 DEF ScanState, Looks, Stays
  <2>3. Len(e.sources) <= 1
    BY <1>4 DEF Plain
  <2> HIDE DEF p
  <2> QED BY <1>1, <1>2, <2>1, <2>2, <2>3
<1>5. CASE ~First /\ e.type # "PU" /\ Selects(e)
  <2> DEFINE p == [s EXCEPT !.selector = e.id]
  <2>1. own = IF s.selector # 0 THEN Fails(s) ELSE Link(p, e)
    BY <1>5 DEF ScanEntity
  <2>2. p \in ScanState /\ Looks(s, p) /\ Stays(s, p) /\ ~p.failed
    BY <1>0 DEF ScanState, Looks, Stays
  <2> HIDE DEF p
  <2> QED BY <1>1, <1>2, <1>5, <2>1, <2>2
<1>6. CASE ~First /\ e.type # "PU" /\ ~Selects(e)
  <2>1. own = Link(s, e)
    BY <1>6 DEF ScanEntity
  <2>2. Looks(s, s) /\ Stays(s, s)
    BY DEF Looks, Stays
  <2>3. Len(e.sources) <= 1
    <3>1. CASE IsInput(e)
      BY <1>0, <3>1, EmptySeq DEF Plain
    <3>2. CASE IsOutput(e)
      BY <3>2 DEF Plain
    <3>3. CASE IsUnit(e)
      <4>1. Len(e.sources) = 1
        BY <1>6, <3>3 DEF IsUnit, Selects
      <4> QED BY <4>1
    <3> QED BY <3>1, <3>2, <3>3 DEF Plain
  <2> QED BY <1>1, <1>2, <2>1, <2>2, <2>3
<1> QED BY <1>3, <1>4, <1>5, <1>6

\* When the scan has looked at what hangs from entity j, which is the next.
Passed(es, L, K, s, j, f) ==
  /\ f \in ScanState
  /\ ToSet(s.chain) \cup {es[j].id} \subseteq ToSet(f.chain)
  /\ \A x \in ToSet(f.chain) \ (ToSet(s.chain) \cup {es[j].id}) :
       \E m \in 1 .. Len(es) : es[m].id = x /\ Hung(es[m], es[j].id, s.prev)
  /\ f.linked = L \cup ToSet(f.chain) /\ f.listed = K \cup ToSet(f.chain)
  /\ f.twice \subseteq {es[j].id}
  /\ f.twice # {} => Hung(es[j], es[j].id, s.prev)

LEMMA ForwardPasses ==
  ASSUME NEW es, Sensible(es), NEW L, NEW K, Chains(es, L, K),
         NEW s, ScanInv(es, L, K, s), ~s.failed, s.next # 0, s.next \notin s.linked,
         NEW j \in 1 .. Len(es), es[j].id = s.next,
         NEW own, Takes(s, es[j].id, own), Stays(s, own)
  PROVE  Passed(es, L, K, s, j, ScanForward(es, own, es[j], s.prev))
<1> DEFINE id == es[j].id
           f == ScanForward(es, own, es[j], s.prev)
           C == ToSet(s.chain)
<1>0. \A m \in 1 .. Len(es) : es[m].id = id => m = j
  BY Entities
<1>1. /\ s.linked = L \cup C /\ s.listed = K \cup C /\ K \subseteq L /\ HasSources(es, K)
      /\ Underway(es, s) /\ s.twice = {} /\ id \notin L \cup C
  BY DEF ScanInv, Underway, Chains
<1>2. /\ own \in ScanState /\ ToSet(own.chain) = C \cup {id}
      /\ own.linked = L \cup C \cup {id} /\ own.listed = K \cup C \cup {id} /\ own.twice = {}
  BY <1>1 DEF Takes
<1>3. ASSUME NEW m \in 1 .. Len(es), Hung(es[m], id, s.prev), es[m].id \in own.listed
      PROVE  m = j
  <2>1. id \in ToSet(es[m].sources)
    BY <1>3 DEF Hung, References, ToSet
  <2>2. CASE es[m].id \in K
    BY <1>1, <2>1, <2>2 DEF HasSources
  <2>3. CASE es[m].id \in C
    <3>1. ToSet(es[m].sources) \subseteq C \/ es[m].id = s.prev
      BY <1>1, <2>3 DEF Underway
    <3> QED BY <1>1, <1>3, <2>1, <3>1 DEF Hung
  <2>4. CASE es[m].id = id
    BY <1>0, <2>4
  <2> QED BY <1>2, <1>3, <2>2, <2>3, <2>4
<1>4. Grown(es, j, s.prev, own, f, Len(es))
  <2>1. ToSet(own.chain) \subseteq own.linked /\ ToSet(own.chain) \subseteq own.listed
    BY <1>2
  <2> QED BY <1>2, <1>3, <2>1, ForwardGrows
<1> HIDE DEF f
<1>5. f \in ScanState /\ C \cup {id} \subseteq ToSet(f.chain)
  BY <1>2, <1>4 DEF Grown
<1>6. f.linked = L \cup ToSet(f.chain) /\ f.listed = K \cup ToSet(f.chain)
  BY <1>2, <1>4, <1>5 DEF Grown
<1>7. \A x \in ToSet(f.chain) \ (C \cup {id}) :
        \E m \in 1 .. Len(es) : es[m].id = x /\ Hung(es[m], id, s.prev)
  BY <1>2, <1>4 DEF Grown
<1>8. f.twice \subseteq {id} /\ (f.twice # {} => Hung(es[j], id, s.prev))
  BY <1>4 DEF Grown
<1> QED BY <1>5, <1>6, <1>7, <1>8 DEF Passed, f

\* What hangs has its only source in the chain.
LEMMA HungSource ==
  ASSUME NEW f \in Entity, NEW id, NEW prev, Hung(f, id, prev)
  PROVE  ToSet(f.sources) = {id} /\ f.sources[1] = id
<1>1. f.sources \in Seq(Nat \ {0}) /\ Len(f.sources) = 1 /\ DOMAIN f.sources = 1 .. 1
  BY LenProperties DEF Hung, Entity
<1>2. PICK i \in DOMAIN f.sources : f.sources[i] = id
  BY DEF Hung, References
<1>3. i = 1 /\ \A k \in DOMAIN f.sources : k = 1
  BY <1>1, <1>2
<1> QED BY <1>2, <1>3 DEF ToSet

\* The next entity and those that hang from it are in the chain: it is the
\* only one whose sources may still be missing.
LEMMA PassedSources ==
  ASSUME NEW es, Sensible(es), NEW L, NEW K, NEW s, Underway(es, s), ~s.failed, s.next # 0,
         NEW j \in 1 .. Len(es), es[j].id = s.next, NEW f, Passed(es, L, K, s, j, f),
         NEW m \in 1 .. Len(es), es[m].id \in ToSet(f.chain)
  PROVE  /\ m = j \/ ToSet(es[m].sources) \subseteq ToSet(f.chain)
         /\ m = j \/ ~IsInput(es[m])
<1>1. CASE es[m].id \in ToSet(s.chain)
  <2>1. ToSet(es[m].sources) \subseteq ToSet(s.chain) \/ ToSet(es[m].sources) = {s.next}
    BY <1>1 DEF Underway
  <2>2. ~IsInput(es[m])
    BY <1>1 DEF Underway
  <2> QED BY <2>1, <2>2 DEF Passed
<1>2. CASE es[m].id = es[j].id
  BY <1>2, Entities
<1>3. CASE es[m].id \in ToSet(f.chain) \ (ToSet(s.chain) \cup {es[j].id})
  <2>1. PICK i \in 1 .. Len(es) : es[i].id = es[m].id /\ Hung(es[i], es[j].id, s.prev)
    BY <1>3 DEF Passed
  <2>2. i = m /\ es[m] \in Entity
    BY <2>1, Entities
  <2>3. ToSet(es[m].sources) = {es[j].id} /\ ~IsInput(es[m])
    BY <2>1, <2>2, HungSource DEF Hung
  <2> QED BY <2>3 DEF Passed
<1> QED BY <1>1, <1>2, <1>3

LEMMA PassedIds ==
  ASSUME NEW es, NEW L, NEW K, NEW s, ToSet(s.chain) \subseteq IdsOf(es),
         NEW j \in 1 .. Len(es), NEW f, Passed(es, L, K, s, j, f)
  PROVE  ToSet(f.chain) \subseteq IdsOf(es)
<1> SUFFICES ASSUME NEW x \in ToSet(f.chain) PROVE x \in IdsOf(es)
  OBVIOUS
<1>1. CASE x \in ToSet(s.chain) \cup {es[j].id}
  BY <1>1 DEF IdsOf
<1>2. CASE x \notin ToSet(s.chain) \cup {es[j].id}
  <2>1. PICK m \in 1 .. Len(es) : es[m].id = x
    BY <1>2 DEF Passed
  <2> QED BY <2>1 DEF IdsOf
<1> QED BY <1>1, <1>2

\* uvc_scan_chain_backward, of what has one source or none.
LEMMA BackwardKeeps ==
  ASSUME NEW es, Sensible(es), NEW L, NEW K, Chains(es, L, K),
         NEW s, ScanInv(es, L, K, s), ~s.failed, s.next # 0, s.next \notin s.linked,
         NEW j \in 1 .. Len(es), es[j].id = s.next, ~Selects(es[j]), Len(es[j].sources) <= 1,
         NEW f, Passed(es, L, K, s, j, f), ~f.failed,
         NEW r, r = ScanBackward(es, [f EXCEPT !.prev = es[j].id], es[j])
  PROVE  ScanInv(es, L, K, r) /\ es[j].id \in r.linked /\ s.linked \subseteq r.linked
<1> DEFINE e == es[j]
           p == [f EXCEPT !.prev = e.id]
           source == IF e.sources = <<>> \/ IsInput(e) THEN 0 ELSE e.sources[1]
           C == ToSet(f.chain)
<1>0. /\ e \in Entity /\ Plain(e) /\ e.id \in Nat /\ e.sources \in Seq(Nat \ {0})
      /\ Len(e.sources) \in Nat /\ DOMAIN e.sources = 1 .. Len(e.sources)
  BY Entities, LenProperties
<1>1. f \in ScanState /\ f.linked = L \cup C /\ f.listed = K \cup C /\ C \subseteq IdsOf(es)
      /\ Underway(es, s) /\ s.linked = L \cup ToSet(s.chain) /\ ToSet(s.chain) \subseteq C /\ e.id \in C
      /\ e.id \notin K /\ f.twice \subseteq {e.id}
  BY PassedIds DEF Passed, ScanInv, Chains
<1>2. /\ p \in ScanState /\ p.chain = f.chain /\ p.linked = f.linked /\ p.listed = f.listed
      /\ p.twice = f.twice /\ p.prev = e.id /\ ~p.failed
  BY <1>0, <1>1 DEF ScanState
<1> HIDE DEF p
<1>3. source \in Nat /\ ToSet(e.sources) = (IF source = 0 THEN {} ELSE {source})
      /\ (source # 0 => References(e, source) /\ e.sources[1] = source)
  <2>1. CASE e.sources = <<>> \/ IsInput(e)
    <3>1. e.sources = <<>>
      BY <1>0, <2>1 DEF Plain
    <3> QED BY <3>1, <2>1, SetOfEmpty
  <2>2. CASE ~(e.sources = <<>> \/ IsInput(e))
    <3>1. Len(e.sources) # 0
      BY <1>0, <2>2, EmptySeq
    <3>2. Len(e.sources) = 1
      <4>1. \A k \in Nat : k # 0 /\ k <= 1 => k = 1
        OBVIOUS
      <4> QED BY <1>0, <3>1, <4>1
    <3>3. DOMAIN e.sources = {1}
      BY <1>0, <3>2
    <3>4. e.sources[1] \in Nat \ {0}
      BY <1>0, <3>3, ElementOfSeq
    <3>5. ToSet(e.sources) = {e.sources[1]} /\ References(e, e.sources[1])
      BY <3>3 DEF ToSet, References
    <3> QED BY <2>2, <3>4, <3>5
  <2> QED BY <2>1, <2>2
<1>4. r = IF source # 0 /\ ~IsKnown(es, source) THEN Fails(p) ELSE [p EXCEPT !.next = source]
  BY DEF ScanBackward, p
<1> HIDE DEF source
<1>5. CASE source # 0 /\ ~IsKnown(es, source)
  <2>1. Looks(p, r) /\ r.failed
    BY <1>2, <1>4, <1>5, FailsOf
  <2> QED BY <1>1, <1>2, <2>1 DEF Looks, ScanInv
<1>6. CASE ~(source # 0 /\ ~IsKnown(es, source))
  <2>1. r = [p EXCEPT !.next = source]
    BY <1>4, <1>6
  <2>2. /\ r \in ScanState /\ r.chain = f.chain /\ r.linked = f.linked /\ r.listed = f.listed
        /\ r.twice = f.twice /\ r.prev = e.id /\ ~r.failed /\ r.next = source
    BY <1>2, <1>3, <2>1 DEF ScanState
  <2> HIDE DEF e
  <2>3. r.next # 0 => r.next \in IdsOf(es)
    <3> SUFFICES ASSUME source # 0 PROVE source \in IdsOf(es)
      BY <2>2
    <3>1. \E i \in DOMAIN es : es[i].id = source
      BY <1>6, ByIdOf
    <3> QED BY <3>1, Entities DEF IdsOf
  <2>4. r.twice # {} => r.next \in r.linked
    <3> SUFFICES ASSUME f.twice # {} PROVE source \in f.linked
      BY <2>2
    <3>1. Hung(e, e.id, s.prev)
      BY DEF Passed, e
    <3>2. ToSet(e.sources) = {e.id}
      BY <1>0, <3>1, HungSource
    <3>3. source = e.id
      BY <1>3, <3>2
    <3> QED BY <1>1, <3>3
  <2>5. ASSUME NEW m \in 1 .. Len(es), es[m].id \in C
        PROVE  /\ ToSet(es[m].sources) \subseteq C \/ (es[m].id = r.prev /\ ToSet(es[m].sources) = {r.next})
               /\ IsInput(es[m]) => r.next = 0 /\ m = j
    <3>1. /\ m = j \/ ToSet(es[m].sources) \subseteq C
          /\ m = j \/ ~IsInput(es[m])
      <4>1. Underway(es, s) /\ es[m].id \in ToSet(f.chain)
        BY <1>1, <2>5
      <4> QED BY <4>1, PassedSources
    <3>2. CASE m = j
      <4>1. IsInput(es[m]) => ToSet(es[m].sources) = {}
        BY <1>0, <3>2, SetOfEmpty DEF Plain, e
      <4> QED BY <1>3, <2>2, <3>2, <4>1 DEF e
    <3> QED BY <3>1, <3>2
  <2>6. UsesInputs(es, C)
    <3> SUFFICES ASSUME NEW m \in 1 .. Len(es), es[m].id \in C, IsInput(es[m])
                 PROVE  \E i \in 1 .. Len(es) : es[i].id \in C /\ References(es[i], es[m].id)
      BY DEF UsesInputs
    <3>1. m = j /\ es[m].id = s.next
      BY <2>5
    <3>2. PICK i \in 1 .. Len(es) : es[i].id \in ToSet(s.chain) /\ References(es[i], s.next)
      BY <1>1, <3>1 DEF Underway
    <3> QED BY <1>1, <3>1, <3>2
  <2>7. \E i \in 1 .. Len(es) : es[i].id \in C /\ (r.next # 0 => References(es[i], r.next))
    BY <1>1, <1>3, <2>2 DEF e
  <2>8. Underway(es, r)
    BY <2>2, <2>3, <2>4, <2>5, <2>6, <2>7 DEF Underway
  <2> QED BY <1>1, <2>2, <2>8 DEF ScanInv, e
<1> QED BY <1>5, <1>6

\* uvc_scan_chain_backward, of a selector: its inputs were in no list yet.
LEMMA SelectorKeeps ==
  ASSUME NEW es, Sensible(es), NEW L, NEW K, Chains(es, L, K),
         NEW s, ScanInv(es, L, K, s), ~s.failed, s.next # 0, s.next \notin s.linked,
         NEW j \in 1 .. Len(es), es[j].id = s.next, Selects(es[j]),
         NEW f, Passed(es, L, K, s, j, f), ~f.failed,
         NEW r, r = ScanBackward(es, [f EXCEPT !.prev = es[j].id], es[j])
  PROVE  ScanInv(es, L, K, r) /\ es[j].id \in r.linked /\ s.linked \subseteq r.linked
<1> DEFINE e == es[j]
           p == [f EXCEPT !.prev = e.id]
           F == ToSet(f.chain)
<1>0. /\ e \in Entity /\ e.id \in Nat /\ ~IsInput(e) /\ Len(es) \in Nat /\ DOMAIN es = 1 .. Len(es)
      /\ Len(e.sources) \in Nat /\ DOMAIN e.sources = 1 .. Len(e.sources)
  BY Entities, LenProperties DEF Selects, IsInput
<1>1. f \in ScanState /\ f.linked = L \cup F /\ f.listed = K \cup F /\ F \subseteq IdsOf(es)
      /\ s.linked = L \cup ToSet(s.chain) /\ ToSet(s.chain) \subseteq F /\ e.id \in F
      /\ e.id \notin K
  BY PassedIds DEF Passed, ScanInv, Chains
<1>2. f.twice = {}
  BY DEF Passed, Hung, Selects
<1>3. /\ p \in ScanState /\ p.chain = f.chain /\ p.linked = f.linked /\ p.listed = f.listed
      /\ p.twice = {} /\ ~p.failed
  BY <1>0, <1>1, <1>2 DEF ScanState
<1>4. r = ScanInputs(es, p, e)
  BY DEF ScanBackward
<1> HIDE DEF p
<1>5. ASSUME NEW m \in 1 .. Len(es), es[m].id \in F
      PROVE  (m = j \/ ToSet(es[m].sources) \subseteq F) /\ ~IsInput(es[m])
  <2>1. Underway(es, s) /\ es[m].id \in ToSet(f.chain)
    BY <1>5 DEF ScanInv
  <2>2. (m = j \/ ToSet(es[m].sources) \subseteq F) /\ (m = j \/ ~IsInput(es[m]))
    BY <2>1, PassedSources
  <2> QED BY <1>0, <2>2
<1>6. ASSUME NEW i \in 1 .. Len(es), NEW m \in DOMAIN e.sources, IsInput(es[i]), es[i].id = e.sources[m]
      PROVE  es[i].id \notin p.listed
  <2>1. es[i].id \notin F
    BY <1>5, <1>6
  <2>2. es[i].id \notin K
    <3> SUFFICES ASSUME es[i].id \in K PROVE FALSE
      OBVIOUS
    <3>1. PICK k \in 1 .. Len(es) : es[k].id \in K /\ References(es[k], es[i].id)
      BY <1>6 DEF Chains, UsesInputs
    <3>2. k = j
      BY <1>0, <1>6, <3>1 DEF Sensible
    <3> QED BY <1>1, <3>1, <3>2
  <2> QED BY <1>1, <1>3, <2>1, <2>2
<1>7. PICK t \in ScanState : ScanInputs(es, p, e) = [t EXCEPT !.next = 0]
                             /\ Chosen(es, j, p, t, Len(e.sources))
  <2>1. ToSet(p.chain) \subseteq p.linked /\ ToSet(p.chain) \subseteq p.listed
    BY <1>1, <1>3
  <2> QED BY <1>3, <1>6, <2>1, InputsChosen
<1> DEFINE T == ToSet(t.chain)
<1>8. /\ F \subseteq T /\ t.linked = L \cup T /\ t.listed = K \cup T /\ t.twice = {}
      /\ \A x \in T \ F : /\ \E m \in 1 .. Len(e.sources) : e.sources[m] = x
                          /\ \E i \in 1 .. Len(es) : es[i].id = x /\ IsInput(es[i])
      /\ ~t.failed => \A m \in 1 .. Len(e.sources) : e.sources[m] \in T
  BY <1>1, <1>3, <1>7 DEF Chosen
<1>9. /\ r \in ScanState /\ r.chain = t.chain /\ r.linked = t.linked /\ r.listed = t.listed
      /\ r.twice = {} /\ r.failed = t.failed /\ r.next = 0
  <2>1. r = [t EXCEPT !.next = 0] /\ t \in ScanState /\ t.twice = {}
    BY <1>4, <1>7, <1>8
  <2> QED BY ONLY <2>1 DEF ScanState
<1>10. T \subseteq IdsOf(es)
  BY <1>1, <1>8 DEF IdsOf
<1>11. ASSUME ~r.failed PROVE Underway(es, r)
  <2>1. \A m \in 1 .. Len(e.sources) : e.sources[m] \in T
    BY <1>8, <1>9, <1>11
  <2>2. ASSUME NEW m \in 1 .. Len(es), es[m].id \in T PROVE ToSet(es[m].sources) \subseteq T
    <3>1. CASE m = j
      BY <1>0, <2>1, <3>1 DEF ToSet
    <3>2. CASE m # j /\ es[m].id \in F
      BY <1>5, <1>8, <3>2
    <3>3. CASE es[m].id \notin F
      <4>1. PICK i \in 1 .. Len(es) : es[i].id = es[m].id /\ IsInput(es[i])
        BY <1>8, <2>2, <3>3
      <4>2. es[m].sources = <<>>
        BY <4>1, Entities DEF Plain
      <4> QED BY <4>2, SetOfEmpty
    <3> QED BY <3>1, <3>2, <3>3
  <2>3. UsesInputs(es, T)
    <3> SUFFICES ASSUME NEW m \in 1 .. Len(es), es[m].id \in T, IsInput(es[m])
                 PROVE  \E i \in 1 .. Len(es) : es[i].id \in T /\ References(es[i], es[m].id)
      BY DEF UsesInputs
    <3>1. es[m].id \in T \ F
      BY <1>5
    <3>2. \E k \in 1 .. Len(e.sources) : e.sources[k] = es[m].id
      BY <1>8, <3>1
    <3>3. References(e, es[m].id)
      BY <1>0, <3>2 DEF References
    <3> QED BY <1>1, <1>8, <3>3
  <2>4. e.id \in T
    BY <1>1, <1>8
  <2> HIDE DEF T
  <2>5. ToSet(r.chain) = T
    BY <1>9 DEF T
  <2> QED BY <1>9, <2>2, <2>3, <2>4, <2>5 DEF Underway
<1>12. r.twice \cap K = {} /\ r.linked = L \cup ToSet(r.chain) /\ r.listed = K \cup ToSet(r.chain)
       /\ ToSet(r.chain) \subseteq IdsOf(es)
  BY <1>8, <1>9, <1>10
<1>13. e.id \in r.linked /\ s.linked \subseteq r.linked
  BY <1>1, <1>8, <1>9
<1> QED BY <1>9, <1>11, <1>12, <1>13 DEF ScanInv

\* One turn of uvc_scan_chain: it fails, or has come to an entity without links.
LEMMA TurnKeeps ==
  ASSUME NEW es, Sensible(es), NEW L, NEW K, Chains(es, L, K),
         NEW s, ScanInv(es, L, K, s), NEW r, r = ScanOne(es, s)
  PROVE  /\ ScanInv(es, L, K, r)
         /\ s.failed \/ s.next = 0 => r = s
         /\ ~r.failed /\ s.next # 0 => s.linked \cup {s.next} \subseteq r.linked /\ s.next \notin s.linked
<1>1. CASE s.failed \/ s.next = 0
  <2>1. r = s
    BY <1>1 DEF ScanOne
  <2> QED BY <1>1, <2>1
<1>2. CASE ~s.failed /\ s.next # 0 /\ s.next \in s.linked
  <2>1. r = Fails(s) /\ s \in ScanState
    BY <1>2 DEF ScanOne, ScanInv
  <2>2. Looks(s, r) /\ r.failed
    BY <2>1, FailsOf
  <2> QED BY <1>2, <2>2 DEF Looks, ScanInv
<1>3. CASE ~s.failed /\ s.next # 0 /\ s.next \notin s.linked
  <2>1. s \in ScanState /\ Underway(es, s) /\ s.twice = {}
    BY <1>3 DEF ScanInv, Underway
  <2>2. PICK j \in 1 .. Len(es) : es[j].id = s.next
    BY <1>3, <2>1 DEF Underway, IdsOf
  <2>3. ById(es, s.next) = es[j] /\ es[j] \in Entity /\ Plain(es[j])
    BY <2>2, ByIdOf, Entities
  <2> DEFINE own == ScanEntity(s, es[j])
             f == ScanForward(es, own, es[j], s.prev)
  <2>4. r = ScanEach(es, s, es[j])
    BY <1>3, <2>3 DEF ScanOne
  <2>5. CASE own.failed
    <3>1. r = own
      BY <2>4, <2>5 DEF ScanEach
    <3>2. Looks(s, own)
      BY <1>3, <2>1, <2>3, <2>5, OwnOf
    <3> HIDE DEF own
    <3> QED BY <1>3, <2>5, <3>1, <3>2 DEF Looks, ScanInv
  <2>6. CASE ~own.failed
    <3>1. Takes(s, es[j].id, own) /\ Stays(s, own) /\ (Selects(es[j]) \/ Len(es[j].sources) <= 1)
      BY <1>3, <2>1, <2>3, <2>6, OwnOf
    <3>2. Passed(es, L, K, s, j, f)
      <4> HIDE DEF own
      <4> QED BY <1>3, <2>2, <3>1, ForwardPasses
    <3>3. CASE f.failed
      <4>1. r = f
        BY <2>4, <2>6, <3>3 DEF ScanEach
      <4> HIDE DEF f
      <4>2. f \in ScanState /\ f.linked = L \cup ToSet(f.chain) /\ f.listed = K \cup ToSet(f.chain)
            /\ f.twice \subseteq {es[j].id}
        BY <3>2 DEF Passed
      <4>3. ToSet(f.chain) \subseteq IdsOf(es)
        BY <3>2, PassedIds DEF ScanInv
      <4>4. es[j].id \notin K
        BY <1>3, <2>2 DEF ScanInv, Chains
      <4> QED BY <1>3, <3>3, <4>1, <4>2, <4>3, <4>4 DEF ScanInv
    <3>4. CASE ~f.failed
      <4>1. r = ScanBackward(es, [f EXCEPT !.prev = es[j].id], es[j])
        BY <2>4, <2>6, <3>4 DEF ScanEach
      <4> HIDE DEF f
      <4>2. ScanInv(es, L, K, r) /\ es[j].id \in r.linked /\ s.linked \subseteq r.linked
        <5>1. CASE Selects(es[j])
          BY <1>3, <2>2, <3>2, <3>4, <4>1, <5>1, SelectorKeeps
        <5>2. CASE ~Selects(es[j])
          BY <1>3, <2>2, <3>1, <3>2, <3>4, <4>1, <5>2, BackwardKeeps
        <5> QED BY <5>1, <5>2
      <4> QED BY <1>3, <2>2, <4>2
    <3> QED BY <3>3, <3>4
  <2> QED BY <2>5, <2>6
<1> QED BY <1>1, <1>2, <1>3

\* uvc_scan_chain, turn by turn.
ScanStates(es, L, K) == {s \in ScanState : ScanInv(es, L, K, s)}

AreTurns(g, es, s) ==
  /\ g[0] = s /\ g[Len(es) + 1] = ScanChain(es, s)
  /\ \A k \in 1 .. Len(es) + 1 : g[k] = ScanOne(es, g[k - 1])

LEMMA TurnSteps ==
  ASSUME NEW es, Sensible(es), NEW L, NEW K, Chains(es, L, K), NEW s, ScanInv(es, L, K, s)
  PROVE  \E g \in [0 .. Len(es) + 1 -> ScanStates(es, L, K)] : AreTurns(g, es, s)
<1> DEFINE n == Len(es) + 1
           seq == [i \in 1 .. n |-> i]
           T == ScanStates(es, L, K)
           apply == [a \in (1 .. n) \X T |-> ScanOne(es, a[2])]
           iter == CHOOSE i : i = [p \in SUBSET DOMAIN seq |->
                     IF p = {} THEN s ELSE ScanOne(es, i[p \ {Max(p)}])]
<1>0. n \in Nat /\ DOMAIN seq = 1 .. n /\ s \in T
  BY Entities DEF ScanInv, ScanStates
<1>1. \A r \in T : ScanOne(es, r) \in T
  BY TurnKeeps DEF ScanStates, ScanInv
<1>2. apply \in StepOf(T, n)
  <2> HIDE DEF n, T
  <2> QED BY <1>1 DEF StepOf
<1>3. \A k \in 1 .. n : \A r \in T : apply[<<k, r>>] = ScanOne(es, r)
  OBVIOUS
<1>4. PICK f \in [SUBSET (1 .. n) -> T] : IsFold(f, s, n, apply)
  <2> HIDE DEF apply, n, T
  <2> QED BY <1>0, <1>2, FoldTable
<1>5. \A p \in SUBSET (1 .. n) : p # {} => Max(p) \in 1 .. n
  BY <1>0, GreatestOf
<1>6. ASSUME NEW p \in SUBSET (1 .. n)
      PROVE  f[p] = IF p = {} THEN s ELSE ScanOne(es, f[p \ {Max(p)}])
  <2>1. f[p \ {Max(p)}] \in T
    OBVIOUS
  <2> HIDE DEF apply, n, T
  <2> QED BY <1>3, <1>4, <1>5, <2>1 DEF IsFold
<1>7. f = [p \in SUBSET DOMAIN seq |-> IF p = {} THEN s ELSE ScanOne(es, f[p \ {Max(p)}])]
  <2> HIDE DEF apply, n, T, seq
  <2> QED BY <1>0, <1>6
<1>8. iter = [p \in SUBSET DOMAIN seq |-> IF p = {} THEN s ELSE ScanOne(es, iter[p \ {Max(p)}])]
  BY <1>7
<1>9. ScanChain(es, s) = iter[1 .. n]
  BY <1>0 DEF ScanChain, FoldLeft, MapThenFoldSet
<1> HIDE DEF iter, apply, n, T, seq
<1>10. iter[{}] = s
  BY <1>8
<1>11. ASSUME NEW p \in SUBSET (1 .. n), p # {}, iter[p \ {Max(p)}] \in T
       PROVE  iter[p] = apply[<<Max(p), iter[p \ {Max(p)}]>>]
  <2>1. iter[p] = ScanOne(es, iter[p \ {Max(p)}])
    BY <1>0, <1>8, <1>11
  <2> QED BY <1>3, <1>5, <1>11, <2>1
<1>12. PICK g \in [0 .. n -> T] : AreSteps(g, s, n, apply, iter[1 .. n])
  BY <1>0, <1>2, <1>10, <1>11, FoldSteps
<1>13. ASSUME NEW k \in 1 .. n PROVE g[k] = ScanOne(es, g[k - 1])
  <2>1. k - 1 \in 0 .. n
    BY <1>0
  <2> QED BY <1>3, <1>12, <2>1 DEF AreSteps
<1> QED BY <1>9, <1>12, <1>13 DEF n, T, AreSteps, AreTurns

\* There are no more ids than entities.
LEMMA IdsCount ==
  ASSUME NEW es, Sensible(es)
  PROVE  IsFiniteSet(IdsOf(es)) /\ Cardinality(IdsOf(es)) \in Nat /\ Cardinality(IdsOf(es)) <= Len(es)
<1> DEFINE Upto(k) == {es[i].id : i \in 1 .. k}
           E == {k \in Nat : k <= Len(es) => IsFiniteSet(Upto(k)) /\ Cardinality(Upto(k)) <= k}
<1>0. Len(es) \in Nat
  BY Entities
<1>1. 0 \in E
  <2>1. Upto(0) = {}
    OBVIOUS
  <2> QED BY <2>1, FS_EmptySet
<1>2. ASSUME NEW k \in Nat, IsFiniteSet(Upto(k)), Cardinality(Upto(k)) <= k
      PROVE  IsFiniteSet(Upto(k + 1)) /\ Cardinality(Upto(k + 1)) <= k + 1
  <2>1. Upto(k + 1) = Upto(k) \cup {es[k + 1].id}
    <3>1. 1 .. k + 1 = (1 .. k) \cup {k + 1}
      OBVIOUS
    <3> QED BY <3>1
  <2> HIDE DEF Upto
  <2>2. /\ Cardinality(Upto(k)) \in Nat
        /\ IsFiniteSet(Upto(k) \cup {es[k + 1].id})
        /\ Cardinality(Upto(k) \cup {es[k + 1].id}) \in {Cardinality(Upto(k)), Cardinality(Upto(k)) + 1}
    <3>1. Cardinality(Upto(k)) \in Nat
      BY <1>2, FS_CardinalityType
    <3> DEFINE x == es[k + 1].id
    <3> HIDE DEF x
    <3>2. IsFiniteSet(Upto(k) \cup {x})
          /\ Cardinality(Upto(k) \cup {x}) =
               IF x \in Upto(k) THEN Cardinality(Upto(k)) ELSE Cardinality(Upto(k)) + 1
      BY <1>2, FS_AddElement
    <3> QED BY <3>1, <3>2 DEF x
  <2>3. \A c, d \in Nat : d \in {c, c + 1} /\ c <= k => d <= k + 1
    OBVIOUS
  <2>4. Cardinality(Upto(k) \cup {es[k + 1].id}) \in Nat
    BY <2>2
  <2>5. Cardinality(Upto(k) \cup {es[k + 1].id}) <= k + 1
    BY <1>2, <2>2, <2>3, <2>4
  <2> QED BY <2>1, <2>2, <2>5
<1>3. Nat \subseteq E
  <2>1. \A k \in Nat : k \in E => k + 1 \in E
    <3> SUFFICES ASSUME NEW k \in Nat, k \in E, k + 1 <= Len(es)
                 PROVE  IsFiniteSet(Upto(k + 1)) /\ Cardinality(Upto(k + 1)) <= k + 1
      BY <1>0
    <3>1. k <= Len(es)
      BY <1>0
    <3>2. IsFiniteSet(Upto(k)) /\ Cardinality(Upto(k)) <= k
      BY <3>1
    <3> HIDE DEF Upto
    <3> QED BY <1>2, <3>2
  <2> HIDE DEF E
  <2> QED BY <1>1, <2>1, NatInd
<1>4. IsFiniteSet(Upto(Len(es))) /\ Cardinality(Upto(Len(es))) <= Len(es)
  <2>1. Len(es) \in E
    BY <1>0, <1>3
  <2>2. Len(es) <= Len(es) => IsFiniteSet(Upto(Len(es))) /\ Cardinality(Upto(Len(es))) <= Len(es)
    BY <2>1
  <2> HIDE DEF Upto, E
  <2> QED BY <1>0, <2>2
<1>5. IdsOf(es) = Upto(Len(es))
  BY DEF IdsOf
<1> HIDE DEF Upto
<1> QED BY <1>4, <1>5, FS_CardinalityType

\* A loop of entities ends at one that has links: there are turns enough.
LEMMA ScanEnds ==
  ASSUME NEW es, Sensible(es), NEW L, NEW K, Chains(es, L, K), L \subseteq IdsOf(es),
         NEW s, ScanInv(es, L, K, s), NEW r, r = ScanChain(es, s)
  PROVE  ScanInv(es, L, K, r) /\ (r.failed \/ r.next = 0)
<1> DEFINE n == Len(es) + 1
<1>0. n \in Nat /\ n \in 0 .. n /\ Len(es) \in Nat /\ n = Len(es) + 1
  BY Entities
<1>1. PICK g \in [0 .. n -> ScanStates(es, L, K)] : AreTurns(g, es, s)
  BY TurnSteps
<1>2. /\ g[0] = s /\ g[n] = r
      /\ \A k \in 1 .. n : g[k] = ScanOne(es, g[k - 1])
  BY <1>1 DEF AreTurns
<1>3. \A k \in 0 .. n : ScanInv(es, L, K, g[k])
  BY <1>1 DEF ScanStates
<1> DEFINE Linked(k) == Cardinality(g[k].linked)
           Over(k) == g[k].failed \/ g[k].next = 0
           E == {k \in Nat : k <= n => Over(k) \/ Linked(k) >= k}
<1> HIDE DEF n
<1>4. ASSUME NEW k \in 0 .. n
      PROVE  /\ g[k].linked \subseteq IdsOf(es) /\ IsFiniteSet(g[k].linked)
             /\ Linked(k) \in Nat /\ Linked(k) <= Len(es)
  <2>1. g[k].linked \subseteq IdsOf(es)
    BY <1>3 DEF ScanInv
  <2>2. IsFiniteSet(IdsOf(es)) /\ Cardinality(IdsOf(es)) \in Nat /\ Cardinality(IdsOf(es)) <= Len(es)
    BY IdsCount
  <2>3. IsFiniteSet(g[k].linked) /\ Linked(k) <= Cardinality(IdsOf(es))
    BY <2>1, <2>2, FS_Subset
  <2>4. Linked(k) \in Nat
    BY <2>3, FS_CardinalityType
  <2> HIDE DEF Linked
  <2> QED BY <1>0, <2>1, <2>2, <2>3, <2>4
<1>5. 0 \in E
  BY <1>0, <1>4
<1>6. \A k \in Nat : k \in E => k + 1 \in E
  <2> SUFFICES ASSUME NEW k \in Nat, k \in E, k + 1 <= n, ~Over(k + 1) PROVE Linked(k + 1) >= k + 1
    OBVIOUS
  <2>1. k \in 0 .. n /\ k + 1 \in 0 .. n /\ k + 1 \in 1 .. n /\ (k + 1) - 1 = k /\ k <= n
    BY <1>0
  <2>2. g[k + 1] = ScanOne(es, g[k])
    BY <1>2, <2>1
  <2>3. ScanInv(es, L, K, g[k])
    BY <1>3, <2>1
  <2>4. ~Over(k)
    BY <2>2, <2>3, TurnKeeps
  <2>5. g[k].linked \cup {g[k].next} \subseteq g[k + 1].linked /\ g[k].next \notin g[k].linked
    BY <2>2, <2>3, <2>4, TurnKeeps
  <2>6. Linked(k) >= k
    BY <2>1, <2>4
  <2>7. IsFiniteSet(g[k].linked) /\ IsFiniteSet(g[k + 1].linked) /\ Linked(k) \in Nat /\ Linked(k + 1) \in Nat
    BY <1>4, <2>1
  <2>8. Cardinality(g[k].linked \cup {g[k].next}) = Linked(k) + 1
    BY <2>5, <2>7, OneMore
  <2>9. Cardinality(g[k].linked \cup {g[k].next}) <= Linked(k + 1)
    BY <2>5, <2>7, FS_Subset
  <2> HIDE DEF Linked
  <2> QED BY <2>6, <2>7, <2>8, <2>9
<1>7. Nat \subseteq E
  <2> HIDE DEF E
  <2> QED BY <1>5, <1>6, NatInd
<1>8. Over(n) \/ Linked(n) >= n
  BY <1>0, <1>7
<1>9. Linked(n) \in Nat /\ Linked(n) <= Len(es)
  BY <1>0, <1>4
<1>10. Over(n)
  <2> HIDE DEF Linked, Over
  <2> QED BY <1>0, <1>8, <1>9
<1> QED BY <1>0, <1>2, <1>3, <1>10

\* What uvc_scan_device has found so far.
DeviceState == [linked : SUBSET Nat, twice : SUBSET Nat, chains : Seq(Seq(Nat))]

DeviceInv(es, d) ==
  /\ d \in DeviceState
  /\ d.linked \subseteq IdsOf(es) /\ Kept(d.chains) \subseteq d.linked
  /\ d.twice = {}
  /\ \A i \in DOMAIN d.chains : HasSources(es, ToSet(d.chains[i]))
  /\ UsesInputs(es, Kept(d.chains))

LEMMA KeptOfAppend ==
  ASSUME NEW cs \in Seq(Seq(Nat)), NEW c \in Seq(Nat)
  PROVE  /\ Append(cs, c) \in Seq(Seq(Nat))
         /\ Kept(Append(cs, c)) = Kept(cs) \cup ToSet(c)
         /\ \A i \in DOMAIN Append(cs, c) :
              Append(cs, c)[i] = c \/ \E k \in DOMAIN cs : Append(cs, c)[i] = cs[k]
<1> DEFINE a == Append(cs, c)
           n == Len(cs)
<1>1. /\ n \in Nat /\ DOMAIN cs = 1 .. n /\ a \in Seq(Seq(Nat)) /\ Len(a) = n + 1
      /\ \A i \in 1 .. n : a[i] = cs[i]
      /\ a[n + 1] = c
  BY AppendProperties, LenProperties
<1>2. DOMAIN a = 1 .. n + 1
  BY <1>1, LenProperties
<1> HIDE DEF a, n
<1>3. \A i \in 1 .. n + 1 : i = n + 1 \/ i \in 1 .. n
  BY <1>1
<1>4. n + 1 \in 1 .. n + 1 /\ \A i \in 1 .. n : i \in 1 .. n + 1
  BY <1>1
<1>5. \A x : x \in Kept(a) <=> x \in Kept(cs) \/ x \in ToSet(c)
  <2>1. ASSUME NEW x, x \in Kept(a) PROVE x \in Kept(cs) \/ x \in ToSet(c)
    <3>1. PICK i \in 1 .. n + 1 : x \in ToSet(a[i])
      BY <1>2, <2>1 DEF Kept
    <3>2. CASE i = n + 1
      BY <1>1, <3>1, <3>2
    <3>3. CASE i \in 1 .. n
      <4>1. i \in DOMAIN cs /\ x \in ToSet(cs[i])
        BY <1>1, <3>1, <3>3
      <4> QED BY <4>1 DEF Kept
    <3> QED BY <1>3, <3>2, <3>3
  <2>2. ASSUME NEW x, x \in Kept(cs) PROVE x \in Kept(a)
    <3>1. PICK i \in 1 .. n : x \in ToSet(cs[i])
      BY <1>1, <2>2 DEF Kept
    <3>2. i \in DOMAIN a /\ x \in ToSet(a[i])
      BY <1>1, <1>2, <1>4, <3>1
    <3> QED BY <3>2 DEF Kept
  <2>3. ASSUME NEW x \in ToSet(c) PROVE x \in Kept(a)
    <3>1. n + 1 \in DOMAIN a /\ x \in ToSet(a[n + 1])
      BY <1>1, <1>2, <1>4
    <3> QED BY <3>1 DEF Kept
  <2> QED BY <2>1, <2>2, <2>3
<1>6. Kept(a) = Kept(cs) \cup ToSet(c)
  BY <1>5
<1>7. \A i \in DOMAIN a : a[i] = c \/ \E k \in DOMAIN cs : a[i] = cs[k]
  BY <1>1, <1>2, <1>3
<1> QED BY <1>1, <1>6, <1>7 DEF a

\* A scan that begins at an output terminal without links.
LEMMA ScanBegins ==
  ASSUME NEW es, Sensible(es), NEW d, DeviceInv(es, d),
         NEW j \in 1 .. Len(es), IsOutput(es[j])
  PROVE  /\ Chains(es, d.linked, Kept(d.chains))
         /\ ScanInv(es, d.linked, Kept(d.chains), Begin(d, es[j]))
<1> DEFINE s == Begin(d, es[j])
           K == Kept(d.chains)
<1>0. /\ d.linked \in SUBSET Nat /\ d.twice = {} /\ d.chains \in Seq(Seq(Nat)) /\ K \subseteq d.linked
      /\ es[j].id \in Nat /\ \A m \in 1 .. Len(es) : es[m].id = es[j].id => m = j
  BY Entities DEF DeviceInv, DeviceState
<1>1. Chains(es, d.linked, K)
  <2>1. HasSources(es, K)
    <3> SUFFICES ASSUME NEW m \in 1 .. Len(es), es[m].id \in K PROVE ToSet(es[m].sources) \subseteq K
      BY DEF HasSources
    <3>1. PICK i \in DOMAIN d.chains : es[m].id \in ToSet(d.chains[i])
      BY DEF Kept
    <3>2. ToSet(es[m].sources) \subseteq ToSet(d.chains[i])
      BY <3>1 DEF DeviceInv, HasSources
    <3> QED BY <3>2 DEF Kept
  <2> QED BY <1>0, <2>1 DEF Chains, DeviceInv
<1>2. /\ s.chain = <<>> /\ s.linked = d.linked /\ s.listed = K /\ s.twice = {} /\ ~s.failed
      /\ s.next = es[j].id
  BY <1>0 DEF Begin
<1>3. s \in ScanState
  <2>1. K \in SUBSET Nat /\ <<>> \in Seq(Nat)
    BY <1>0
  <2> HIDE DEF K
  <2> QED BY <1>0, <2>1 DEF Begin, ScanState, K
<1> HIDE DEF s
<1>4. ToSet(s.chain) = {}
  BY <1>2, SetOfEmpty
<1>5. Underway(es, s)
  <2>1. \A m \in 1 .. Len(es) : es[m].id = s.next => ~IsInput(es[m])
    BY <1>0, <1>2 DEF IsInput, IsOutput
  <2> QED BY <1>2, <1>4, <2>1 DEF Underway, UsesInputs, IdsOf
<1>6. ScanInv(es, d.linked, K, s)
  BY <1>2, <1>3, <1>4, <1>5 DEF ScanInv
<1> QED BY <1>1, <1>6 DEF s

\* A chain that is kept is a list, and has whatever its members refer to.
LEMMA FromKeeps ==
  ASSUME NEW es, Sensible(es), NEW d, DeviceInv(es, d), NEW j \in 1 .. Len(es),
         NEW r, r = ScanFrom(es, d, es[j])
  PROVE  DeviceInv(es, r)
<1>1. CASE ~IsOutput(es[j]) \/ es[j].id \in d.linked
  <2>1. r = d
    BY <1>1 DEF ScanFrom
  <2> QED BY <2>1
<1>2. CASE IsOutput(es[j]) /\ es[j].id \notin d.linked
  <2> DEFINE s == ScanChain(es, Begin(d, es[j]))
             K == Kept(d.chains)
             C == ToSet(s.chain)
  <2>1. Chains(es, d.linked, K) /\ ScanInv(es, d.linked, K, Begin(d, es[j]))
    BY <1>2, ScanBegins
  <2>2. ScanInv(es, d.linked, K, s) /\ (s.failed \/ s.next = 0)
    <3>1. d.linked \subseteq IdsOf(es)
      BY DEF DeviceInv
    <3> HIDE DEF K
    <3> QED BY <2>1, <3>1, ScanEnds
  <2>3. r = IF s.failed THEN [d EXCEPT !.linked = s.linked, !.twice = s.twice \cap K]
            ELSE [linked |-> s.linked, twice |-> s.twice, chains |-> Append(d.chains, s.chain)]
    BY <1>2 DEF ScanFrom
  <2> HIDE DEF s
  <2>4. /\ s.chain \in Seq(Nat) /\ s.linked \in SUBSET Nat /\ s.twice \in SUBSET Nat
        /\ s.linked = d.linked \cup C /\ s.twice \cap K = {} /\ C \subseteq IdsOf(es)
    BY <2>2 DEF ScanInv, ScanState
  <2>5. /\ d \in DeviceState /\ d.chains \in Seq(Seq(Nat))
        /\ d.linked \subseteq IdsOf(es) /\ K \subseteq d.linked
    BY DEF DeviceInv, DeviceState
  <2>6. CASE s.failed
    <3>1. r = [d EXCEPT !.linked = s.linked, !.twice = {}]
      BY <2>3, <2>4, <2>6
    <3>2. r \in DeviceState /\ r.linked = s.linked /\ r.twice = {} /\ r.chains = d.chains
      BY <2>4, <2>5, <3>1 DEF DeviceState
    <3> QED BY <2>4, <2>5, <3>2 DEF DeviceInv
  <2>7. CASE ~s.failed
    <3>1. Underway(es, s) /\ s.next = 0
      BY <2>2, <2>7 DEF ScanInv
    <3>2. 0 \notin IdsOf(es) /\ \A m \in 1 .. Len(es) : 0 \notin ToSet(es[m].sources)
      <4>1. \A m \in 1 .. Len(es) : es[m].id # 0 /\ es[m].sources \in Seq(Nat \ {0})
        BY Entities
      <4>2. \A q \in Seq(Nat \ {0}) : 0 \notin ToSet(q)
        BY ElementOfSeq, LenProperties DEF ToSet
      <4> QED BY <4>1, <4>2 DEF IdsOf
    <3>3. s.twice = {}
      BY <2>4, <2>5, <3>1, <3>2 DEF Underway
    <3>4. HasSources(es, C)
      BY <3>1, <3>2 DEF Underway, HasSources
    <3>5. UsesInputs(es, C)
      BY <3>1 DEF Underway
    <3>6. r = [linked |-> s.linked, twice |-> {}, chains |-> Append(d.chains, s.chain)]
      BY <2>3, <2>7, <3>3
    <3>7. Append(d.chains, s.chain) \in Seq(Seq(Nat)) /\ Kept(Append(d.chains, s.chain)) = K \cup C
      BY <2>4, <2>5, KeptOfAppend
    <3>8. ASSUME NEW i \in DOMAIN Append(d.chains, s.chain)
          PROVE  HasSources(es, ToSet(Append(d.chains, s.chain)[i]))
      <4>1. Append(d.chains, s.chain)[i] = s.chain
            \/ \E k \in DOMAIN d.chains : Append(d.chains, s.chain)[i] = d.chains[k]
        BY <2>4, <2>5, <3>8, KeptOfAppend
      <4> QED BY <3>4, <4>1 DEF DeviceInv
    <3>9. UsesInputs(es, K \cup C)
      BY <3>5 DEF UsesInputs, DeviceInv
    <3> DEFINE cs == Append(d.chains, s.chain)
    <3> HIDE DEF cs
    <3>10. r \in DeviceState /\ r.linked = s.linked /\ r.twice = {} /\ r.chains = cs
      BY <2>4, <3>6, <3>7 DEF DeviceState, cs
    <3>11. r.linked \subseteq IdsOf(es) /\ Kept(r.chains) \subseteq r.linked
      BY <2>4, <2>5, <3>7, <3>10 DEF cs
    <3>12. (\A i \in DOMAIN r.chains : HasSources(es, ToSet(r.chains[i]))) /\ UsesInputs(es, Kept(r.chains))
      BY <3>7, <3>8, <3>9, <3>10 DEF cs
    <3> QED BY <3>10, <3>11, <3>12 DEF DeviceInv
  <2> QED BY <2>6, <2>7
<1> QED BY <1>1, <1>2

\* uvc_scan_device, entity by entity.
Devices(es) == {d \in DeviceState : DeviceInv(es, d)}
Nothing == [linked |-> {}, twice |-> {}, chains |-> <<>>]

LEMMA DeviceSound ==
  ASSUME NEW es, Sensible(es)
  PROVE  DeviceInv(es, ScanDevice(es))
<1> DEFINE n == Len(es)
           T == Devices(es)
           apply == [a \in (1 .. n) \X T |-> ScanFrom(es, a[2], es[a[1]])]
           iter == CHOOSE i : i = [p \in SUBSET DOMAIN es |->
                     IF p = {} THEN Nothing ELSE ScanFrom(es, i[p \ {Max(p)}], es[Max(p)])]
<1>0. n \in Nat /\ DOMAIN es = 1 .. n /\ n \in 0 .. n
  BY Entities
<1>14. Nothing \in T
  <2>1. Nothing \in DeviceState
    BY DEF Nothing, DeviceState
  <2>2. /\ Nothing.linked = {} /\ Nothing.twice = {} /\ Nothing.chains = <<>>
        /\ DOMAIN Nothing.chains = {} /\ Kept(Nothing.chains) = {}
    BY DEF Nothing, Kept
  <2> QED BY <2>1, <2>2 DEF Devices, DeviceInv, UsesInputs
<1>1. \A k \in 1 .. n : \A r \in T : ScanFrom(es, r, es[k]) \in T
  BY FromKeeps DEF Devices, DeviceInv
<1>2. apply \in StepOf(T, n)
  <2> HIDE DEF n, T
  <2> QED BY <1>1 DEF StepOf
<1>3. \A k \in 1 .. n : \A r \in T : apply[<<k, r>>] = ScanFrom(es, r, es[k])
  OBVIOUS
<1>4. PICK f \in [SUBSET (1 .. n) -> T] : IsFold(f, Nothing, n, apply)
  <2> HIDE DEF apply, n, T
  <2> QED BY <1>0, <1>2, <1>14, FoldTable
<1>5. \A p \in SUBSET (1 .. n) : p # {} => Max(p) \in 1 .. n
  BY <1>0, GreatestOf
<1>6. ASSUME NEW p \in SUBSET (1 .. n)
      PROVE  f[p] = IF p = {} THEN Nothing ELSE ScanFrom(es, f[p \ {Max(p)}], es[Max(p)])
  <2>1. f[p \ {Max(p)}] \in T
    OBVIOUS
  <2> HIDE DEF apply, n, T
  <2> QED BY <1>3, <1>4, <1>5, <2>1 DEF IsFold
<1>7. f = [p \in SUBSET DOMAIN es |->
             IF p = {} THEN Nothing ELSE ScanFrom(es, f[p \ {Max(p)}], es[Max(p)])]
  <2> HIDE DEF apply, n, T
  <2> QED BY <1>0, <1>6
<1>8. iter = [p \in SUBSET DOMAIN es |->
                IF p = {} THEN Nothing ELSE ScanFrom(es, iter[p \ {Max(p)}], es[Max(p)])]
  BY <1>7
<1>9. ScanDevice(es) = iter[1 .. n]
  BY <1>0 DEF ScanDevice, Nothing, FoldLeft, MapThenFoldSet
<1> HIDE DEF iter, apply, n, T
<1>10. iter[{}] = Nothing
  BY <1>8
<1>11. ASSUME NEW p \in SUBSET (1 .. n), p # {}, iter[p \ {Max(p)}] \in T
       PROVE  iter[p] = apply[<<Max(p), iter[p \ {Max(p)}]>>]
  <2>1. iter[p] = ScanFrom(es, iter[p \ {Max(p)}], es[Max(p)])
    BY <1>0, <1>8, <1>11
  <2> QED BY <1>3, <1>5, <1>11, <2>1
<1>12. PICK g \in [0 .. n -> T] : AreSteps(g, Nothing, n, apply, iter[1 .. n])
  BY <1>0, <1>2, <1>10, <1>11, <1>14, FoldSteps
<1>13. ScanDevice(es) \in T
  BY <1>0, <1>9, <1>12 DEF AreSteps
<1> QED BY <1>13 DEF Devices, T

-----------------------------------------------------------------------------
\* The chains do not change when they have been found.
ChainInv ==
  /\ Sensible(entities)
  /\ scan \in {Nothing, ScanDevice(entities)}

LEMMA ChainInit ==
  ASSUME \A ds \in Cameras : Sensible(ParseControl(ds).entities), Init
  PROVE  ChainInv
BY DEF Init, ChainInv, Nothing

LEMMA ChainStep ==
  ASSUME ChainInv, [Next]_vars
  PROVE  ChainInv'
<1>1. CASE Scan
  BY <1>1 DEF Scan, ChainInv
<1>2. CASE UNCHANGED <<entities, scan>>
  BY <1>2 DEF ChainInv
<1>3. Next => Scan \/ UNCHANGED <<entities, scan>>
  BY DEF Next, Register, Registered, StatusInit, Disconnect, Hold, Unregister, Unregistered,
         StatusDies, Suspend, Resume, BeginOpen, Open, OpenFails, BeginClose, Close, Released, found
<1> QED BY <1>1, <1>2, <1>3 DEF vars

LEMMA ChainsAre ==
  ASSUME ChainInv
  PROVE  ChainsSound
<1> DEFINE es == entities
<1>1. DeviceInv(es, scan)
  <2>1. CASE scan = Nothing
    <3>1. Nothing \in DeviceState
      BY DEF Nothing, DeviceState
    <3>2. /\ Nothing.linked = {} /\ Nothing.twice = {} /\ Nothing.chains = <<>>
          /\ DOMAIN Nothing.chains = {} /\ Kept(Nothing.chains) = {}
      BY DEF Nothing, Kept
    <3> QED BY <2>1, <3>1, <3>2 DEF DeviceInv, UsesInputs
  <2> QED BY <2>1, DeviceSound DEF ChainInv
<1> SUFFICES ASSUME NEW i \in DOMAIN scan.chains
             PROVE  /\ ToSet(scan.chains[i]) \cap scan.twice = {}
                    /\ \A link \in MediaLinks(es, scan.chains[i]) : link[1] \in ToSet(scan.chains[i])
  BY DEF ChainsSound
<1> DEFINE c == scan.chains[i]
<1>2. scan.twice = {} /\ HasSources(es, ToSet(c)) /\ ToSet(c) \subseteq IdsOf(es)
  BY <1>1 DEF DeviceInv, Kept
<1> HIDE DEF c
<1>3. ASSUME NEW link \in MediaLinks(es, c) PROVE link[1] \in ToSet(c)
  <2>1. PICK id \in ToSet(c) : link \in ToSet(ById(es, id).sources) \X {id}
    BY DEF MediaLinks
  <2>2. PICK j \in 1 .. Len(es) : es[j].id = id
    BY <1>2, <2>1 DEF IdsOf
  <2>3. Sensible(es) /\ DOMAIN es = 1 .. Len(es)
    BY Entities DEF ChainInv
  <2>4. ById(es, id) = es[j]
    BY <2>2, <2>3, ByIdOf
  <2>5. link[1] \in ToSet(es[j].sources)
    BY <2>1, <2>4
  <2> QED BY <1>2, <2>1, <2>2, <2>5 DEF HasSources
<1> QED BY <1>2, <1>3 DEF c

\* Of any camera whose ids name one entity each and whose selectors have inputs of
\* their own, however its units refer to each other, branch or loop: the chains
\* that uvc_scan_device keeps are lists, no entity is in one twice or in two, and
\* they have whatever their members get pictures from.
THEOREM ChainsSoundCorrect ==
  ASSUME \A ds \in Cameras : Sensible(ParseControl(ds).entities)
  PROVE  Spec => []ChainsSound
<1>1. Init => ChainInv
  BY ChainInit
<1>2. ChainInv /\ [Next]_vars => ChainInv'
  BY ChainStep
<1>3. ChainInv => ChainsSound
  BY ChainsAre
<1> QED BY <1>1, <1>2, <1>3, PTL DEF Spec
=============================================================================
