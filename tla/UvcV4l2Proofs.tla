---------------------------- MODULE UvcV4l2Proofs ----------------------------
(***************************************************************************)
(* The privileges of UvcV4l2 are a lock, and its holder owns the buffers,  *)
(* for any number of threads and handles, if no two threads use a handle   *)
(* at the same time.                                                       *)
(***************************************************************************)
EXTENDS UvcV4l2, FiniteSetTheorems, SequenceTheorems, WellFoundedInduction, TLAPS

USE HandlesAssumption

\* What a step takes: nothing, a step of one thread from where it is to
\* another place, or a thread that begins.
LEMMA TypeInit == Init => LockTypeOK
BY DEF Init, LockTypeOK, OpName, At, Idle

-----------------------------------------------------------------------------
\* The ioctls between acquiring and dismissing: they touch neither the states
\* nor the count, and end or go on to one of two places.
Worked(t) ==
  /\ thread[t].at \in {"work", "assign"}
  /\ UNCHANGED <<state, active>>
  /\ \/ thread' = [thread EXCEPT ![t] = Idle]
     \/ thread' = [thread EXCEPT ![t].at = "assign"]
     \/ thread' = [thread EXCEPT ![t].at = "dismiss"]

LEMMA StepCases ==
  ASSUME NEW t \in Thread, Step(t)
  PROVE  \/ Acquire(t) \/ Increment(t) \/ Undo(t) \/ Grant(t)
         \/ Dismiss(t) \/ Decrement(t) \/ Passive(t) \/ Close(t)
         \/ Worked(t)
<1> USE DEF Worked, Works, Goes, Ends, Failed
<1>1. CASE SetInput(t) \/ SetFormat(t) \/ SetParm(t)
  BY <1>1 DEF SetInput, SetFormat, SetParm
<1>2. CASE TryFmt(t)
  BY <1>2 DEF TryFmt
<1>3. CASE ReqBufs(t)
  BY <1>3 DEF ReqBufs
<1>4. CASE StreamOn(t) \/ StreamOff(t) \/ FreeBuffers(t)
  BY <1>4 DEF StreamOn, StreamOff, FreeBuffers
<1> QED BY <1>1, <1>2, <1>3, <1>4 DEF Step

LEMMA TypeStep == LockTypeOK /\ [Next]_vars => LockTypeOK'
<1> SUFFICES ASSUME LockTypeOK, [Next]_vars PROVE LockTypeOK'
  OBVIOUS
<1> USE DEF LockTypeOK, OpName, At
<1>1. ASSUME NEW h \in Handle, Open(h) PROVE LockTypeOK'
  BY <1>1 DEF Open
<1>2. ASSUME NEW t \in Thread, NEW h \in Handle, BeginRelease(t, h) PROVE LockTypeOK'
  BY <1>2 DEF BeginRelease
<1>3. ASSUME NEW t \in Thread, NEW h \in Handle, NEW o \in Operations, Call(t, h, o)
      PROVE  LockTypeOK'
  <2>1. o[1] \in OpName
    BY DEF Operations
  <2> QED BY <1>3, <2>1 DEF Call
<1>4. ASSUME NEW t \in Thread, Step(t) PROVE LockTypeOK'
  <2> USE <1>4 DEF Goes, Ends, Idle
  <2>1. CASE Acquire(t) \/ Increment(t) \/ Undo(t) \/ Grant(t)
    BY <2>1 DEF Acquire, Increment, Undo, Grant
  <2>2. CASE Dismiss(t) \/ Decrement(t) \/ Passive(t) \/ Close(t)
    BY <2>2 DEF Dismiss, Decrement, Passive, Close
  <2>3. CASE Worked(t)
    BY <2>3 DEF Worked
  <2> QED BY <2>1, <2>2, <2>3, StepCases
<1>5. CASE UNCHANGED vars
  BY <1>5 DEF vars
<1> QED BY <1>1, <1>2, <1>3, <1>4, <1>5 DEF Next

-----------------------------------------------------------------------------
\* A busy thread has an open handle, which is its own.
LEMMA UseStep ==
  ASSUME ~Shared, LockTypeOK, UseInv, [Next]_vars
  PROVE  UseInv'
<1> USE DEF LockTypeOK, UseInv
<1>1. ASSUME NEW h \in Handle, Open(h) PROVE UseInv'
  BY <1>1 DEF Open
<1>2. ASSUME NEW t \in Thread, NEW h \in Handle, BeginRelease(t, h) PROVE UseInv'
  BY <1>2 DEF BeginRelease, InUse, Idle
<1>3. ASSUME NEW t \in Thread, NEW h \in Handle, NEW o \in Operations, Call(t, h, o)
      PROVE  UseInv'
  BY <1>3 DEF Call, InUse, Idle
<1>4. ASSUME NEW t \in Thread, Step(t) PROVE UseInv'
  <2> USE <1>4 DEF Goes, Ends, Idle
  <2>1. CASE Acquire(t) \/ Increment(t)
    BY <2>1 DEF Acquire, Increment
  <2>2. CASE Undo(t) \/ Grant(t)
    BY <2>2 DEF Undo, Grant
  <2>3. CASE Dismiss(t) \/ Decrement(t)
    BY <2>3 DEF Dismiss, Decrement
  <2>4. CASE Passive(t) \/ Close(t)
    BY <2>4 DEF Passive, Close
  <2>5. CASE Worked(t)
    BY <2>5 DEF Worked
  <2> QED BY <2>1, <2>2, <2>3, <2>4, <2>5, StepCases
<1>5. CASE UNCHANGED vars
  BY <1>5 DEF vars
<1> QED BY <1>1, <1>2, <1>3, <1>4, <1>5 DEF Next

\* And knows whether it is active.
LEMMA PrivilegeStep ==
  ASSUME LockTypeOK, UseInv, PrivilegeInv, [Next]_vars
  PROVE  PrivilegeInv'
<1> USE DEF LockTypeOK, UseInv, PrivilegeInv, Acquires
<1>1. ASSUME NEW h \in Handle, Open(h) PROVE PrivilegeInv'
  BY <1>1 DEF Open
<1>2. ASSUME NEW t \in Thread, NEW h \in Handle, BeginRelease(t, h) PROVE PrivilegeInv'
  BY <1>2 DEF BeginRelease
<1>3. ASSUME NEW t \in Thread, NEW h \in Handle, NEW o \in Operations, Call(t, h, o)
      PROVE  PrivilegeInv'
  BY <1>3 DEF Call
<1>4. ASSUME NEW t \in Thread, Step(t) PROVE PrivilegeInv'
  <2> USE <1>4 DEF Goes, Ends, Idle
  <2>1. CASE Acquire(t) \/ Increment(t)
    BY <2>1 DEF Acquire, Increment
  <2>2. CASE Undo(t) \/ Grant(t)
    BY <2>2 DEF Undo, Grant
  <2>3. CASE Dismiss(t) \/ Decrement(t)
    BY <2>3 DEF Dismiss, Decrement
  <2>4. CASE Passive(t) \/ Close(t)
    BY <2>4 DEF Passive, Close
  <2>5. CASE Worked(t)
    BY <2>5 DEF Worked
  <2> QED BY <2>1, <2>2, <2>3, <2>4, <2>5, StepCases
<1>5. CASE UNCHANGED vars
  BY <1>5 DEF vars
<1> QED BY <1>1, <1>2, <1>3, <1>4, <1>5 DEF Next

-----------------------------------------------------------------------------
\* What a step does to the holders, to those who were refused, and to the count.
Unmoved == Holders' = Holders /\ Undoing' = Undoing /\ active' = active
Taken(h) ==
  /\ active = 0 /\ active' = 1
  /\ h \notin Holders /\ Holders' = Holders \cup {h} /\ Undoing' = Undoing
TurnedAway(t) ==
  /\ active' = active + 1
  /\ t \notin Undoing /\ Undoing' = Undoing \cup {t} /\ Holders' = Holders
Withdrawn(t) ==
  /\ active' = active - 1
  /\ t \in Undoing /\ Undoing' = Undoing \ {t} /\ Holders' = Holders
LetGo(h) ==
  /\ active' = active - 1
  /\ h \in Holders /\ Holders' = Holders \ {h} /\ Undoing' = Undoing

Outcome ==
  \/ Unmoved
  \/ \E h \in Handle : Taken(h) \/ LetGo(h)
  \/ \E t \in Thread : TurnedAway(t) \/ Withdrawn(t)

LEMMA OutcomeOfStep ==
  ASSUME LockTypeOK, UseInv, PrivilegeInv, [Next]_vars
  PROVE  Outcome
<1> USE DEF LockTypeOK, UseInv, PrivilegeInv
<1>1. ASSUME NEW h \in Handle, Open(h) PROVE Unmoved
  BY <1>1 DEF Open, Unmoved, Holders, Holds, Granted, Letting, Undoing
<1>2. ASSUME NEW t \in Thread, NEW h \in Handle, BeginRelease(t, h) PROVE Unmoved
  BY <1>2 DEF BeginRelease, Idle, Unmoved, Holders, Holds, Granted, Letting, Undoing
<1>3. ASSUME NEW t \in Thread, NEW h \in Handle, NEW o \in Operations, Call(t, h, o)
      PROVE  Unmoved
  BY <1>3 DEF Call, Idle, Unmoved, Holders, Holds, Granted, Letting, Undoing
<1>4. ASSUME NEW t \in Thread, Step(t) PROVE Outcome
  <2> DEFINE h == thread[t].handle
  <2> USE <1>4 DEF Goes, Ends, Idle, Holders, Holds, Granted, Letting, Undoing
  <2>0. thread[t].at # "idle" => h \in Handle
    OBVIOUS
  <2>1. CASE Acquire(t)
    BY <2>1 DEF Acquire, Outcome, Unmoved
  <2>2. CASE Increment(t) /\ active = 0
    BY <2>2, <2>0 DEF Increment, Outcome, Taken
  <2>3. CASE Increment(t) /\ active # 0
    BY <2>3 DEF Increment, Outcome, TurnedAway
  <2>4. CASE Undo(t)
    BY <2>4 DEF Undo, Outcome, Withdrawn
  <2>5. CASE Grant(t)
    BY <2>5, <2>0 DEF Grant, Outcome, Unmoved
  <2>6. CASE Dismiss(t)
    BY <2>6, <2>0 DEF Dismiss, Outcome, Unmoved
  <2>7. CASE Decrement(t)
    BY <2>7, <2>0 DEF Decrement, Outcome, LetGo
  <2>8. CASE Passive(t)
    BY <2>8, <2>0 DEF Passive, Outcome, Unmoved
  <2>9. CASE Close(t)
    BY <2>9, <2>0 DEF Close, Outcome, Unmoved
  <2>10. CASE Worked(t)
    BY <2>10, <2>0 DEF Worked, Outcome, Unmoved
  <2> QED BY <2>1, <2>2, <2>3, <2>4, <2>5, <2>6, <2>7, <2>8, <2>9, <2>10, StepCases
<1>5. CASE UNCHANGED vars
  <2> SUFFICES Unmoved
    BY DEF Outcome
  <2>1. UNCHANGED <<state, active, thread>>
    BY <1>5 DEF vars
  <2> QED BY <2>1 DEF Unmoved, Holders, Holds, Granted, Letting, Undoing
<1> QED BY <1>1, <1>2, <1>3, <1>4, <1>5 DEF Next, Outcome

-----------------------------------------------------------------------------
\* The count is right: who finds it 0 is alone.
LEMMA FiniteCounts == IsFiniteSet(Holders) /\ IsFiniteSet(Undoing)
<1>1. Holders \subseteq Handle /\ Undoing \subseteq Thread
  BY DEF Holders, Undoing
<1> QED BY <1>1, FS_Subset

LEMMA AloneAtZero ==
  ASSUME CountInv, active = 0
  PROVE  Holders = {} /\ Undoing = {}
<1>1. Cardinality(Holders) \in Nat /\ Cardinality(Undoing) \in Nat
  BY FiniteCounts, FS_CardinalityType
<1>2. Cardinality(Holders) = 0 /\ Cardinality(Undoing) = 0
  BY <1>1 DEF CountInv
<1> QED BY <1>2, FiniteCounts, FS_EmptySet

LEMMA CountStep ==
  ASSUME CountInv, Outcome
  PROVE  CountInv'
<1> DEFINE held == Cardinality(Holders)
           away == Cardinality(Undoing)
<1>0. held \in Nat /\ away \in Nat /\ active = held + away
  BY FiniteCounts, FS_CardinalityType DEF CountInv
<1>1. CASE Unmoved
  BY <1>1 DEF Unmoved, CountInv
<1>2. ASSUME NEW h \in Handle, Taken(h) PROVE CountInv'
  <2>1. Holders' = {h} /\ Undoing' = {}
    BY <1>2, AloneAtZero DEF Taken
  <2>2. Cardinality(Holders') = 1 /\ Cardinality(Undoing') = 0
    BY <2>1, FS_Singleton, FS_EmptySet
  <2> QED BY <1>2, <2>1, <2>2 DEF Taken, CountInv
<1>3. ASSUME NEW h \in Handle, LetGo(h) PROVE CountInv'
  <2>1. Cardinality(Holders') = held - 1
    BY <1>3, FiniteCounts, FS_RemoveElement DEF LetGo
  <2> QED BY <1>0, <1>3, <2>1 DEF LetGo, CountInv
<1>4. ASSUME NEW t \in Thread, TurnedAway(t) PROVE CountInv'
  <2>1. Cardinality(Undoing') = away + 1
    BY <1>4, FiniteCounts, FS_AddElement DEF TurnedAway
  <2> QED BY <1>0, <1>4, <2>1 DEF TurnedAway, CountInv
<1>5. ASSUME NEW t \in Thread, Withdrawn(t) PROVE CountInv'
  <2>1. Cardinality(Undoing') = away - 1
    BY <1>5, FiniteCounts, FS_RemoveElement DEF Withdrawn
  <2> QED BY <1>0, <1>5, <2>1 DEF Withdrawn, CountInv
<1> QED BY <1>1, <1>2, <1>3, <1>4, <1>5 DEF Outcome

-----------------------------------------------------------------------------
\* The buffers are the holder's, who has none when it lets go.
LEMMA BufferStep ==
  ASSUME ~Shared, LockTypeOK, UseInv, PrivilegeInv, BufferInv, [Next]_vars
  PROVE  BufferInv'
<1> USE DEF LockTypeOK, UseInv, PrivilegeInv, BufferInv
<1>1. ASSUME NEW h \in Handle, Open(h) PROVE BufferInv'
  BY <1>1 DEF Open
<1>2. ASSUME NEW t \in Thread, NEW h \in Handle, BeginRelease(t, h) PROVE BufferInv'
  BY <1>2 DEF BeginRelease
<1>3. ASSUME NEW t \in Thread, NEW h \in Handle, NEW o \in Operations, Call(t, h, o)
      PROVE  BufferInv'
  BY <1>3 DEF Call
<1>4. ASSUME NEW t \in Thread, Step(t) PROVE BufferInv'
  <2> USE DEF Goes, Ends, Idle
  <2>1. CASE Acquire(t) \/ Increment(t) \/ Undo(t) \/ Grant(t)
    BY <2>1 DEF Acquire, Increment, Undo, Grant
  <2>2. CASE Dismiss(t) \/ Decrement(t)
    BY <2>2 DEF Dismiss, Decrement
  <2>3. CASE Passive(t) \/ Close(t)
    BY <2>3 DEF Passive, Close
  <2>4. CASE SetInput(t) \/ TryFmt(t) \/ SetFormat(t) \/ SetParm(t)
    <3>1. UNCHANGED <<state, queue>>
      BY <2>4 DEF SetInput, TryFmt, SetFormat, SetParm, Failed
    <3>2. thread' = [thread EXCEPT ![t] = Idle] \/ thread' = [thread EXCEPT ![t].at = "assign"]
      BY <2>4 DEF SetInput, TryFmt, SetFormat, SetParm, Failed
    <3> QED BY <3>1, <3>2
  <2>5. CASE ReqBufs(t)
    <3>1. CASE Failed(t)
      BY <3>1 DEF Failed
    <3>2. CASE thread' = [thread EXCEPT ![t] = Idle] /\ ~Failed(t)
      <4>1. state[thread[t].handle] = "active" /\ state' = state
        BY <2>5 DEF ReqBufs, Works, Acquires, Failed
      <4>2. queue'.owner = thread[t].handle \/ queue'.size = 0
        BY <2>5, <3>2 DEF ReqBufs, NoBuffers
      <4>3. {"size", "owner"} \subseteq DOMAIN queue'
        BY <2>5, <3>2 DEF ReqBufs, NoBuffers
      <4> QED BY <2>5, <3>2, <4>1, <4>2, <4>3 DEF ReqBufs, Works
    <3>3. CASE queue' = NoBuffers
      BY <3>3 DEF NoBuffers
    <3> QED BY <2>5, <3>1, <3>2, <3>3 DEF ReqBufs
  <2>6. CASE StreamOn(t) \/ StreamOff(t)
    BY <2>6 DEF StreamOn, StreamOff, Failed
  <2>7. CASE FreeBuffers(t)
    BY <2>7 DEF FreeBuffers, HasPrivileges, NoBuffers
  <2> QED BY <1>4, <2>1, <2>2, <2>3, <2>4, <2>5, <2>6, <2>7 DEF Step
<1>5. CASE UNCHANGED vars
  BY <1>5 DEF vars
<1> QED BY <1>1, <1>2, <1>3, <1>4, <1>5 DEF Next

-----------------------------------------------------------------------------
LEMMA InvInit == Init => IInv
<1> SUFFICES ASSUME Init PROVE IInv
  OBVIOUS
<1>1. LockTypeOK /\ UseInv /\ PrivilegeInv /\ BufferInv
  BY TypeInit DEF Init, Idle, LockTypeOK, UseInv, PrivilegeInv, BufferInv, NoBuffers
<1>2. Holders = {} /\ Undoing = {}
  BY DEF Init, Idle, Holders, Holds, Granted, Undoing
<1>3. CountInv
  BY <1>2, FS_EmptySet DEF Init, CountInv
<1> QED BY <1>1, <1>3 DEF IInv

LEMMA InvStep ==
  ASSUME ~Shared, IInv, [Next]_vars
  PROVE  IInv'
BY TypeStep, UseStep, PrivilegeStep, OutcomeOfStep, CountStep, BufferStep DEF IInv

\* The strengthened invariant, whatever the number of threads and handles.
THEOREM PrivilegesAreKept ==
  ASSUME ~Shared
  PROVE  Spec => []IInv
BY InvInit, InvStep, PTL DEF Spec

\* Buffers belong to the handle that has the privileges, and the count is left
\* as it should be by who is refused.
THEOREM BuffersAreTheHolders ==
  ASSUME ~Shared
  PROVE  Spec => []OwnerHolds
<1>1. IInv => OwnerHolds
  <2> SUFFICES ASSUME IInv PROVE OwnerHolds
    OBVIOUS
  <2>1. queue.size # 0 => Holds(queue.owner)
    BY DEF IInv, BufferInv, Holds, Letting
  <2>2. ASSUME \A t \in Thread : thread[t].at \notin {"undo", "grant", "passive"}
        PROVE  active = Cardinality({h \in Handle : state[h] = "active"})
    <3>1. Undoing = {} /\ Holders = {h \in Handle : state[h] = "active"}
      BY <2>2 DEF Undoing, Holders, Holds, Granted, Letting
    <3>2. Cardinality(Undoing) = 0 /\ Cardinality(Holders) \in Nat
      BY <3>1, FiniteCounts, FS_EmptySet, FS_CardinalityType
    <3> QED BY <3>1, <3>2 DEF IInv, CountInv
  <2> QED BY <2>1, <2>2 DEF OwnerHolds
<1> QED BY <1>1, PrivilegesAreKept, PTL

\* Who has the lock is who holds.
HolderIs ==
  /\ Holders = {} => holder = None
  /\ \A h \in Holders : holder = h

LEMMA HolderHolds == CountInv => HolderIs
BY DEF CountInv, Holders, holder, HolderIs

LEMMA LockStep ==
  ASSUME CountInv, CountInv', Outcome
  PROVE  [Lock!Next]_holder
<1>1. HolderIs /\ HolderIs'
  BY HolderHolds, PTL
<1>2. CASE Holders' = Holders
  <2> SUFFICES holder' = holder
    OBVIOUS
  <2> QED BY <1>1, <1>2 DEF HolderIs
<1>3. ASSUME NEW h \in Handle, Taken(h) PROVE Lock!Acquire(h)
  BY <1>1, <1>3, AloneAtZero DEF Taken, HolderIs, Lock!Acquire
<1>4. ASSUME NEW h \in Handle, LetGo(h) PROVE Lock!Dismiss(h)
  <2>1. Holders' = {}
    BY <1>4 DEF LetGo, CountInv
  <2> QED BY <1>1, <1>4, <2>1 DEF LetGo, HolderIs, Lock!Dismiss
<1> QED BY <1>2, <1>3, <1>4 DEF Outcome, Unmoved, TurnedAway, Withdrawn, Lock!Next

\* A handle has the privileges alone until that handle dismisses them: the
\* test, the atomic count and the state are a lock.
THEOREM PrivilegesAreALock ==
  ASSUME ~Shared
  PROVE  Spec => IsLock
<1>1. Init => Lock!Init
  <2> SUFFICES ASSUME Init PROVE Lock!Init
    OBVIOUS
  <2>1. Holders = {}
    BY DEF Init, Idle, Holders, Holds, Granted
  <2>2. CountInv
    BY InvInit DEF IInv
  <2> QED BY <2>1, <2>2, HolderHolds DEF HolderIs, Lock!Init
<1>2. IInv /\ IInv' /\ [Next]_vars => [Lock!Next]_holder
  BY OutcomeOfStep, LockStep DEF IInv
<1> QED BY <1>1, <1>2, PrivilegesAreKept, PTL DEF Spec, IsLock, Lock!Spec

-----------------------------------------------------------------------------
\* The formats and frames are counted from 1, and the one that is chosen is one
\* of them.
LEMMA LessRelation == \A y, x \in Nat : y < x => <<y, x>> \in OpToRel(<, Nat)
BY SMT DEF OpToRel

LEMMA LeastOf ==
  ASSUME NEW S, S \subseteq Nat, S # {}
  PROVE  \E x \in S : \A y \in S : x <= y
<1>1. PICK x \in S : \A y \in S : ~(<<y, x>> \in OpToRel(<, Nat))
  BY NatLessThanWellFounded, WFMin
<1>2. ASSUME NEW y \in S PROVE x <= y
  <2>1. x \in Nat /\ y \in Nat
    OBVIOUS
  <2>2. ~(y < x)
    BY <1>1, <2>1, LessRelation, Zenon
  <2> QED BY <2>1, <2>2
<1> QED BY <1>2

LEMMA Least ==
  ASSUME NEW S, S \subseteq Nat, S # {}
  PROVE  Min(S) \in S
BY LeastOf DEF Min

LEMMA Products ==
  ASSUME NEW a \in Nat, NEW b \in Nat, NEW c \in Nat, NEW d \in Nat, a <= c, b <= d
  PROVE  a * b \in Nat /\ c * d \in Nat /\ a * b <= c * d
<1>1. a * b <= c * b /\ c * b <= c * d
  BY Z3
<1> QED BY <1>1

LEMMA DistanceIsNatural ==
  ASSUME NEW frame, frame.width \in Nat, frame.height \in Nat, NEW w \in Nat, NEW h \in Nat
  PROVE  Distance(frame, w, h) \in Nat
<1> DEFINE x == Min({frame.width, w})
           y == Min({frame.height, h})
<1>1. x \in {frame.width, w} /\ x <= frame.width /\ x <= w
  <2>1. PICK z \in {frame.width, w} : \A u \in {frame.width, w} : z <= u
    BY LeastOf
  <2> QED BY <2>1 DEF Min
<1>2. y \in {frame.height, h} /\ y <= frame.height /\ y <= h
  <2>1. PICK z \in {frame.height, h} : \A u \in {frame.height, h} : z <= u
    BY LeastOf
  <2> QED BY <2>1 DEF Min
<1>3. Distance(frame, w, h) = frame.width * frame.height + w * h - 2 * x * y
  BY DEF Distance
<1> HIDE DEF x, y
<1>4. x \in Nat /\ y \in Nat
  BY <1>1, <1>2
<1> DEFINE p == x * y
           q == frame.width * frame.height
           r == w * h
<1>5. p \in Nat /\ q \in Nat /\ r \in Nat /\ p <= q /\ p <= r
  BY <1>1, <1>2, <1>4, Products
<1>6. 2 * x * y = 2 * p
  BY <1>4, Z3
<1>7. Distance(frame, w, h) = q + r - 2 * p
  BY <1>3, <1>6
<1> HIDE DEF p, q, r
<1> QED BY <1>5, <1>7

LEMMA NearestThereIs ==
  ASSUME NEW format, DOMAIN format.frames \subseteq Nat, DOMAIN format.frames # {},
         NEW w \in Nat, NEW h \in Nat,
         \A i \in DOMAIN format.frames :
           format.frames[i].width \in Nat /\ format.frames[i].height \in Nat
  PROVE  TryFrame(format, w, h) \in DOMAIN format.frames
<1> DEFINE at(i) == Distance(format.frames[i], w, h)
           near == {i \in DOMAIN format.frames : \A j \in DOMAIN format.frames : at(i) <= at(j)}
<1>1. \A i \in DOMAIN format.frames : at(i) \in Nat
  BY DistanceIsNatural
<1>2. near # {}
  <2> DEFINE ds == {at(i) : i \in DOMAIN format.frames}
  <2> HIDE DEF at
  <2>1. ds \subseteq Nat /\ ds # {}
    BY <1>1
  <2>2. PICK d \in ds : \A e \in ds : d <= e
    <3> HIDE DEF ds
    <3> QED BY <2>1, LeastOf
  <2>3. PICK i \in DOMAIN format.frames : d = at(i)
    OBVIOUS
  <2> QED BY <2>2, <2>3
<1>3. Min(near) \in near
  <2> HIDE DEF at
  <2> QED BY <1>2, Least
<1>4. TryFrame(format, w, h) = Min(near)
  BY DEF TryFrame
<1> QED BY <1>3, <1>4

\* What the cameras' descriptors give.
LEMMA FormatsAre ==
  ASSUME \E ds \in Descriptors : formats = Parse(ds)
  PROVE  /\ DOMAIN formats \subseteq Nat
         /\ \A f \in DOMAIN formats :
              /\ DOMAIN formats[f].frames \subseteq Nat
              /\ formats[f].frames # <<>> <=> DOMAIN formats[f].frames # {}
              /\ \A i \in DOMAIN formats[f].frames :
                   /\ formats[f].frames[i].width \in Nat /\ formats[f].frames[i].height \in Nat
                   /\ formats[f].frames[i].size \in Nat
<1>1. DOMAIN formats \subseteq Nat
  BY NumbersAssumption
<1>2. ASSUME NEW f \in DOMAIN formats
      PROVE  /\ DOMAIN formats[f].frames \subseteq Nat
             /\ formats[f].frames # <<>> <=> DOMAIN formats[f].frames # {}
             /\ \A i \in DOMAIN formats[f].frames :
                  /\ formats[f].frames[i].width \in Nat /\ formats[f].frames[i].height \in Nat
                  /\ formats[f].frames[i].size \in Nat
  <2> DEFINE s == formats[f].frames
  <2>1. /\ s \in Seq(ToSet(s))
        /\ \A frame \in ToSet(s) : frame.width \in Nat /\ frame.height \in Nat /\ frame.size \in Nat
    BY NumbersAssumption
  <2>2. \A i \in DOMAIN s : s[i] \in ToSet(s)
    BY DEF ToSet
  <2> HIDE DEF s
  <2>3. DOMAIN s = 1 .. Len(s) /\ Len(s) \in Nat
    BY <2>1, LenProperties
  <2>4. s = <<>> <=> Len(s) = 0
    BY <2>1, EmptySeq
  <2>5. DOMAIN s \subseteq Nat /\ (s # <<>> <=> DOMAIN s # {})
    <3>1. CASE Len(s) = 0
      <4>1. DOMAIN s = {}
        BY <2>3, <3>1
      <4> QED BY <2>4, <3>1, <4>1
    <3>2. CASE Len(s) # 0
      <4>1. 1 \in DOMAIN s
        BY <2>3, <3>2
      <4> QED BY <2>3, <2>4, <3>2, <4>1
    <3> QED BY <3>1, <3>2
  <2>6. \A i \in DOMAIN s : s[i].width \in Nat /\ s[i].height \in Nat /\ s[i].size \in Nat
    BY <2>1, <2>2
  <2> QED BY <2>5, <2>6 DEF s
<1> QED BY <1>1, <1>2

LEMMA ParsedFrames ==
  (\E ds \in Descriptors : formats = Parse(ds)) =>
    /\ DOMAIN formats \subseteq Nat
    /\ \A f \in DOMAIN formats : DOMAIN formats[f].frames \subseteq Nat
BY FormatsAre

LEMMA ChosenIsThere ==
  ASSUME FitInv, NEW r \in Requests, formats[ChosenFormat(r)].frames # <<>>
  PROVE  /\ Chosen(r).format \in DOMAIN formats
         /\ Chosen(r).frame \in DOMAIN Format(Chosen(r)).frames
<1>1. ChosenFormat(r) \in DOMAIN formats
  <2> DEFINE named == {i \in DOMAIN formats : formats[i].fcc = r.fcc}
  <2>1. DOMAIN formats \subseteq Nat /\ def_format \in DOMAIN formats
    BY FormatsAre DEF FitInv
  <2>2. named # {} => Min(named) \in named
    BY <2>1, Least
  <2> QED BY <2>1, <2>2 DEF ChosenFormat, TryFormat
<1> DEFINE f == formats[ChosenFormat(r)]
<1>2. /\ DOMAIN f.frames \subseteq Nat /\ DOMAIN f.frames # {}
      /\ \A i \in DOMAIN f.frames : f.frames[i].width \in Nat /\ f.frames[i].height \in Nat
  BY <1>1, FormatsAre DEF FitInv
<1>3. r.w \in Nat /\ r.h \in Nat
  BY NumbersAssumption
<1>4. TryFrame(f, r.w, r.h) \in DOMAIN f.frames
  <2> HIDE DEF f
  <2> QED BY <1>2, <1>3, NearestThereIs
<1> QED BY <1>1, <1>4 DEF Chosen, Format

\* A camera's answer is about the frame it was asked for, and of its size.
LEMMA AnswersFit ==
  ASSUME \E ds \in Descriptors : formats = Parse(ds),
         NEW c, c.format \in DOMAIN formats, c.frame \in DOMAIN Format(c).frames,
         NEW interval, NEW a \in Answers(c, interval)
  PROVE  IsSized(a) /\ Place(a) = Place(c)
<1>1. PICK size \in Sizes, payload \in Payloads : a = Answer(c, interval, size, payload)
  BY DEF Answers
<1>2. /\ a.format = c.format /\ a.frame = c.frame
      /\ a.size = Fixup(formats[c.format], formats[c.format].frames[c.frame], size)
  BY <1>1 DEF Answer
<1>3. formats[c.format].frames[c.frame].size \in Nat /\ size \in Nat
  BY FormatsAre, NumbersAssumption DEF Format
<1>4. a.size \in Nat /\ (~formats[c.format].compressed => a.size = formats[c.format].frames[c.frame].size)
  BY <1>2, <1>3 DEF Fixup
<1> QED BY <1>2, <1>4 DEF IsSized, Place, Format, Frame

\* Steps that leave the format alone.  Buffers come in the size that was asked for.
Fills == queue'.size = queue.size \/ queue'.size = 0 \/ queue'.size = ctrl.size
Argues(t) ==
  /\ thread'[t].at = "assign" => thread[t].at = "assign" /\ thread'[t].op = thread[t].op
  /\ thread'[t].op = "S_FMT" =>
       \/ arg'[t] \in Requests /\ thread'[t].at # "assign"
       \/ /\ arg'[t] = arg[t] /\ thread[t].op = "S_FMT"
          /\ thread'[t].at = "assign" <=> thread[t].at = "assign"

LEMMA FitKept ==
  ASSUME FitInv, UNCHANGED <<parsed, ctrl, cur>>, Fills, DOMAIN arg' = Thread,
         \A t \in Thread : Argues(t)
  PROVE  FitInv'
<1>1. IsSized(ctrl)' /\ (cur = Place(ctrl))'
  BY DEF FitInv, IsSized, Place, Format, Frame, parsed
<1>2. ASSUME NEW t \in Thread, thread'[t].op = "S_FMT"
      PROVE  IF thread'[t].at = "assign"
             THEN IsSized(arg[t].ctrl)' /\ (arg[t].cur = Place(arg[t].ctrl))'
             ELSE arg'[t] \in Requests
  <2>1. Argues(t)
    OBVIOUS
  <2>2. CASE arg'[t] \in Requests /\ thread'[t].at # "assign"
    BY <2>2
  <2>3. CASE /\ arg'[t] = arg[t] /\ thread[t].op = "S_FMT"
             /\ thread'[t].at = "assign" <=> thread[t].at = "assign"
    <3>1. IF thread[t].at = "assign"
          THEN IsSized(arg[t].ctrl) /\ arg[t].cur = Place(arg[t].ctrl)
          ELSE arg[t] \in Requests
      BY <2>3 DEF FitInv
    <3> QED BY <2>3, <3>1 DEF IsSized, Place, Format, Frame, parsed
  <2> QED BY <1>2, <2>1, <2>2, <2>3 DEF Argues
<1>3. \A t \in Thread : thread'[t].at = "assign" => thread'[t].op = "S_FMT"
  BY DEF FitInv, Argues
<1>4. BuffersFit'
  <2>1. ctrl.size \in Nat
    BY DEF FitInv, IsSized
  <2> QED BY <2>1 DEF FitInv, BuffersFit, Format, parsed, Fills
<1> QED BY <1>1, <1>2, <1>3, <1>4 DEF FitInv, parsed

\* What the threads have is left as it is by one that ends.
LEMMA ArguesOnly ==
  ASSUME LockTypeOK, FitInv, UNCHANGED parsed, NEW t \in Thread, Ends(t)
  PROVE  /\ DOMAIN arg' = Thread
         /\ \A u \in Thread : thread'[u].op = "S_FMT" =>
              IF thread'[u].at = "assign"
              THEN IsSized(arg[u].ctrl)' /\ (arg[u].cur = Place(arg[u].ctrl))'
              ELSE arg'[u] \in Requests
         /\ \A u \in Thread : thread'[u].at = "assign" => thread'[u].op = "S_FMT"
<1>1. /\ DOMAIN arg' = Thread /\ thread'[t] = Idle
      /\ \A u \in Thread \ {t} : thread'[u] = thread[u] /\ arg'[u] = arg[u]
  BY DEF FitInv, Ends, LockTypeOK
<1>2. ASSUME NEW u \in Thread, thread'[u].op = "S_FMT"
      PROVE  IF thread'[u].at = "assign"
             THEN IsSized(arg[u].ctrl)' /\ (arg[u].cur = Place(arg[u].ctrl))'
             ELSE arg'[u] \in Requests
  <2>1. u # t
    BY <1>1, <1>2 DEF Idle
  <2>2. IF thread[u].at = "assign"
        THEN IsSized(arg[u].ctrl) /\ arg[u].cur = Place(arg[u].ctrl)
        ELSE arg[u] \in Requests
    BY <1>1, <1>2, <2>1 DEF FitInv
  <2> QED BY <1>1, <2>1, <2>2 DEF IsSized, Place, Format, Frame, parsed
<1>3. \A u \in Thread : thread'[u].at = "assign" => thread'[u].op = "S_FMT"
  BY <1>1 DEF FitInv, Idle
<1> QED BY <1>1, <1>2, <1>3

LEMMA FitInit == Init => TypeOK /\ FitInv
<1> SUFFICES ASSUME Init PROVE TypeOK /\ FitInv
  OBVIOUS
<1>1. PICK f \in DOMAIN formats :
        /\ def_format = f
        /\ cur \in [format : {f}, frame : DOMAIN formats[f].frames]
        /\ ctrl \in Answers(cur, Frame(cur).default)
  BY DEF Init
<1>2. \E ds \in Descriptors : formats = Parse(ds)
  BY DEF Init
<1>3. /\ cur.format \in DOMAIN formats /\ cur.frame \in DOMAIN Format(cur).frames
      /\ cur = Place(cur)
  BY <1>1 DEF Format, Place
<1>4. IsSized(ctrl) /\ cur = Place(ctrl)
  BY <1>1, <1>2, <1>3, AnswersFit
<1>5. cur.frame \in Nat
  BY <1>2, <1>3, FormatsAre DEF Format
<1>6. TypeOK
  <2>1. queue \in [size : Nat, owner : Handle \cup {None}, streaming : BOOLEAN]
    BY DEF Init, NoBuffers
  <2>2. cur \in [format : DOMAIN formats, frame : Nat]
    BY <1>1, <1>3, <1>5
  <2> QED BY <1>1, <1>3, <2>1, <2>2, TypeInit DEF TypeOK
<1>7. BuffersFit
  BY DEF Init, NoBuffers, BuffersFit
<1>8. DOMAIN arg = Thread
      /\ \A t \in Thread : thread[t].op # "S_FMT" /\ thread[t].at # "assign"
  BY DEF Init, Idle
<1> QED BY <1>1, <1>2, <1>4, <1>6, <1>7, <1>8 DEF FitInv

\* A thread that ends, or goes on without setting a format.
LEMMA Argued ==
  ASSUME LockTypeOK, DOMAIN arg = Thread, NEW t \in Thread,
         \/ Ends(t)
         \/ thread[t].at # "assign" /\ \E at \in At \ {"assign"} : Goes(t, at)
  PROVE  DOMAIN arg' = Thread /\ \A u \in Thread : Argues(u)
<1>1. CASE Ends(t)
  <2>1. /\ DOMAIN arg' = Thread /\ thread'[t] = Idle
        /\ \A u \in Thread \ {t} : thread'[u] = thread[u] /\ arg'[u] = arg[u]
    BY <1>1 DEF Ends, LockTypeOK
  <2> QED BY <2>1 DEF Argues, Idle
<1>2. CASE thread[t].at # "assign" /\ \E at \in At \ {"assign"} : Goes(t, at)
  <2>1. PICK at \in At \ {"assign"} : Goes(t, at)
    BY <1>2
  <2>2. /\ arg' = arg /\ thread'[t].op = thread[t].op /\ thread'[t].at = at
        /\ \A u \in Thread \ {t} : thread'[u] = thread[u]
    BY <2>1 DEF Goes, LockTypeOK
  <2> QED BY <1>2, <2>1, <2>2 DEF Argues
<1> QED BY <1>1, <1>2

LEMMA FitStepOfThread ==
  ASSUME TypeOK, FitInv, NEW t \in Thread, Step(t)
  PROVE  /\ FitInv'
         /\ queue' \in [size : Nat, owner : Handle \cup {None}, streaming : BOOLEAN]
<1> DEFINE QueueType == [size : Nat, owner : Handle \cup {None}, streaming : BOOLEAN]
<1>1. LockTypeOK /\ DOMAIN arg = Thread /\ queue \in QueueType /\ ctrl.size \in Nat
  BY DEF TypeOK, FitInv, IsSized
<1>2. thread[t].handle \in Handle \cup {None}
  BY <1>1 DEF LockTypeOK
<1>3. ASSUME Acquire(t) \/ Increment(t) \/ Undo(t) \/ Grant(t) \/ Dismiss(t) \/ Decrement(t)
             \/ Passive(t) \/ Close(t) \/ SetInput(t)
      PROVE  FitInv' /\ queue' \in QueueType
  <2>1. UNCHANGED <<parsed, ctrl, cur, queue>>
    BY <1>3 DEF Acquire, Increment, Undo, Grant, Dismiss, Decrement, Passive, Close, SetInput
  <2>2. \/ Ends(t)
        \/ thread[t].at # "assign" /\ \E at \in At \ {"assign"} : Goes(t, at)
    <3>1. CASE Acquire(t) \/ Increment(t) \/ Undo(t) \/ Grant(t)
      BY <3>1 DEF Acquire, Increment, Undo, Grant, At
    <3>2. CASE Dismiss(t) \/ Decrement(t) \/ Passive(t)
      BY <3>2 DEF Dismiss, Decrement, Passive, At
    <3>3. CASE Close(t) \/ SetInput(t)
      BY <3>3 DEF Close, SetInput
    <3> QED BY <1>3, <3>1, <3>2, <3>3
  <2> QED BY <1>1, <2>1, <2>2, Argued, FitKept DEF Fills
<1>4. ASSUME ReqBufs(t) \/ StreamOn(t) \/ StreamOff(t) \/ FreeBuffers(t)
      PROVE  FitInv' /\ queue' \in QueueType
  <2>1. UNCHANGED <<parsed, ctrl, cur>> /\ thread[t].at # "assign"
    BY <1>4 DEF ReqBufs, StreamOn, StreamOff, FreeBuffers, Works, Failed
  <2>2. \/ Ends(t)
        \/ \E at \in At \ {"assign"} : Goes(t, at)
    BY <1>4 DEF ReqBufs, StreamOn, StreamOff, FreeBuffers, Failed, At
  <2>3. \/ queue' = queue \/ queue' = NoBuffers
        \/ queue' = [queue EXCEPT !.streaming = TRUE] \/ queue' = [queue EXCEPT !.streaming = FALSE]
        \/ queue' = [size |-> ctrl.size, owner |-> thread[t].handle, streaming |-> FALSE]
    <3>1. CASE ReqBufs(t)
      BY <3>1 DEF ReqBufs, Failed
    <3>2. CASE StreamOn(t) \/ StreamOff(t) \/ FreeBuffers(t)
      BY <3>2 DEF StreamOn, StreamOff, FreeBuffers, Failed
    <3> QED BY <1>4, <3>1, <3>2
  <2>4. queue' \in QueueType /\ Fills
    <3>0. CASE queue' = queue
      BY <1>1, <3>0 DEF Fills
    <3>1. CASE queue' = NoBuffers
      <4>1. queue' = [size |-> 0, owner |-> None, streaming |-> FALSE]
        BY <3>1 DEF NoBuffers
      <4>2. queue'.size = 0
        BY <4>1
      <4>3. queue' \in QueueType
        BY <4>1
      <4> QED BY <4>2, <4>3 DEF Fills
    <3>2. CASE queue' = [queue EXCEPT !.streaming = TRUE]
      BY <1>1, <3>2 DEF Fills
    <3>3. CASE queue' = [queue EXCEPT !.streaming = FALSE]
      BY <1>1, <3>3 DEF Fills
    <3>4. CASE queue' = [size |-> ctrl.size, owner |-> thread[t].handle, streaming |-> FALSE]
      <4>1. queue'.size = ctrl.size
        BY <3>4
      <4>2. queue' \in QueueType
        BY <1>1, <1>2, <3>4
      <4> QED BY <4>1, <4>2 DEF Fills
    <3> QED BY <2>3, <3>0, <3>1, <3>2, <3>3, <3>4
  <2> QED BY <1>1, <2>1, <2>2, <2>4, Argued, FitKept
<1>5. ASSUME TryFmt(t) PROVE FitInv' /\ queue' \in QueueType
  <2>1. CASE Failed(t)
    BY <1>1, <2>1, Argued, FitKept DEF Failed, Fills
  <2>2. CASE ~Failed(t)
    <3> DEFINE c == Chosen(arg[t])
    <3>1. thread[t].at = "work" /\ thread[t].op = "S_FMT" /\ arg[t] \in Requests
      BY <1>5 DEF TryFmt, Works, FitInv
    <3>2. /\ c.format \in DOMAIN formats /\ c.frame \in DOMAIN Format(c).frames
          /\ c = Place(c)
      BY <1>5, <2>2, <3>1, ChosenIsThere DEF TryFmt, Chosen, Place
    <3>3. PICK probe \in Probed(c, TryFrameInterval(Frame(c), Frame(c).default)) :
            /\ thread' = [thread EXCEPT ![t].at = "assign"]
            /\ arg' = [arg EXCEPT ![t] = [request |-> @, cur |-> c, ctrl |-> probe]]
            /\ UNCHANGED <<parsed, state, active, cur, ctrl, queue>>
      BY <1>5, <2>2 DEF TryFmt, Format, Frame
    <3> HIDE DEF c
    <3>4. IsSized(probe) /\ Place(probe) = c
      BY <3>2, <3>3, AnswersFit DEF FitInv, Probed
    <3>5. /\ arg'[t].ctrl = probe /\ arg'[t].cur = c /\ DOMAIN arg' = Thread
          /\ thread'[t].at = "assign" /\ thread'[t].op = "S_FMT"
          /\ \A u \in Thread \ {t} : thread'[u] = thread[u] /\ arg'[u] = arg[u]
      BY <1>1, <3>1, <3>3 DEF LockTypeOK
    <3>6. IsSized(arg[t].ctrl)' /\ (arg[t].cur = Place(arg[t].ctrl))'
      BY <3>3, <3>4, <3>5 DEF IsSized, Place, Format, Frame, parsed
    <3>7. ASSUME NEW u \in Thread, thread'[u].op = "S_FMT"
          PROVE  IF thread'[u].at = "assign"
                 THEN IsSized(arg[u].ctrl)' /\ (arg[u].cur = Place(arg[u].ctrl))'
                 ELSE arg'[u] \in Requests
      <4>1. CASE u = t
        BY <3>5, <3>6, <4>1
      <4>2. CASE u # t
        <5>1. IF thread[u].at = "assign"
              THEN IsSized(arg[u].ctrl) /\ arg[u].cur = Place(arg[u].ctrl)
              ELSE arg[u] \in Requests
          BY <3>5, <3>7, <4>2 DEF FitInv
        <5> QED BY <3>3, <3>5, <4>2, <5>1 DEF IsSized, Place, Format, Frame, parsed
      <4> QED BY <4>1, <4>2
    <3>8. \A u \in Thread : thread'[u].at = "assign" => thread'[u].op = "S_FMT"
      BY <3>5 DEF FitInv
    <3>9. IsSized(ctrl)' /\ (cur = Place(ctrl))' /\ BuffersFit'
      BY <3>3 DEF FitInv, IsSized, Place, Format, Frame, BuffersFit, parsed
    <3> QED BY <1>1, <3>3, <3>5, <3>7, <3>8, <3>9 DEF FitInv, parsed
  <2> QED BY <2>1, <2>2
<1>6. ASSUME SetFormat(t) PROVE FitInv' /\ queue' \in QueueType
  <2>1. UNCHANGED <<parsed, queue>> /\ Ends(t) /\ thread[t].at = "assign"
    BY <1>6 DEF SetFormat
  <2>2. CASE queue.size # 0
    <3>1. UNCHANGED <<cur, ctrl>>
      BY <1>6, <2>2 DEF SetFormat
    <3> QED BY <1>1, <2>1, <3>1, Argued, FitKept DEF Fills
  <2>3. CASE queue.size = 0
    <3>1. cur' = arg[t].cur /\ ctrl' = arg[t].ctrl
      BY <1>6, <2>3 DEF SetFormat
    <3>2. IsSized(arg[t].ctrl) /\ arg[t].cur = Place(arg[t].ctrl)
      BY <2>1 DEF FitInv
    <3>3. IsSized(ctrl)' /\ (cur = Place(ctrl))' /\ BuffersFit'
      BY <2>1, <2>3, <3>1, <3>2 DEF IsSized, Place, Format, Frame, BuffersFit, parsed
    <3> QED BY <1>1, <2>1, <3>3, ArguesOnly DEF FitInv, parsed
  <2> QED BY <2>2, <2>3
<1>7. ASSUME SetParm(t) PROVE FitInv' /\ queue' \in QueueType
  <2>1. UNCHANGED <<parsed, queue, cur>> /\ Ends(t)
    BY <1>7 DEF SetParm, Failed
  <2>2. CASE ctrl' = ctrl
    BY <1>1, <2>1, <2>2, Argued, FitKept DEF Fills
  <2>3. CASE ctrl' # ctrl
    <3>1. ctrl' \in Probed(ctrl, Interval(arg[t]))
      BY <1>7, <2>3 DEF SetParm, Failed
    <3>2. IsSized(ctrl') /\ Place(ctrl') = Place(ctrl)
      BY <3>1, AnswersFit DEF Probed, FitInv, IsSized
    <3>3. ctrl'.format = ctrl.format /\ ctrl'.frame = ctrl.frame
      BY <3>2 DEF Place
    <3>4. IsSized(ctrl)' /\ (cur = Place(ctrl))'
      BY <2>1, <3>2 DEF FitInv, IsSized, Place, Format, Frame, parsed
    <3>5. BuffersFit'
      BY <2>1, <3>2, <3>3 DEF FitInv, IsSized, Format, Frame, BuffersFit, parsed
    <3> QED BY <1>1, <2>1, <3>4, <3>5, ArguesOnly DEF FitInv, parsed
  <2> QED BY <2>2, <2>3
<1> HIDE DEF QueueType
<1> QED BY <1>3, <1>4, <1>5, <1>6, <1>7 DEF Step, QueueType

LEMMA FitStep ==
  ASSUME TypeOK, FitInv, [Next]_vars
  PROVE  TypeOK' /\ FitInv'
<1> DEFINE QueueType == [size : Nat, owner : Handle \cup {None}, streaming : BOOLEAN]
<1>1. LockTypeOK /\ DOMAIN arg = Thread /\ queue \in QueueType
  BY DEF TypeOK, FitInv
<1>2. FitInv' /\ queue' \in QueueType
  <2>1. ASSUME NEW h \in Handle, Open(h) PROVE FitInv' /\ queue' \in QueueType
    <3>1. UNCHANGED <<parsed, cur, ctrl, queue, thread, arg>>
      BY <2>1 DEF Open
    <3>2. \A u \in Thread : Argues(u)
      BY <3>1 DEF Argues
    <3> QED BY <1>1, <3>1, <3>2, FitKept DEF Fills
  <2>2. ASSUME NEW t \in Thread, NEW h \in Handle, BeginRelease(t, h)
        PROVE  FitInv' /\ queue' \in QueueType
    <3>1. UNCHANGED <<parsed, cur, ctrl, queue, arg>>
          /\ thread' = [thread EXCEPT ![t] = [op |-> "release", at |-> "work", handle |-> h]]
      BY <2>2 DEF BeginRelease
    <3>2. \A u \in Thread : Argues(u)
      BY <1>1, <3>1 DEF Argues, LockTypeOK
    <3> QED BY <1>1, <3>1, <3>2, FitKept DEF Fills
  <2>3. ASSUME NEW t \in Thread, NEW h \in Handle, NEW o \in Operations, Call(t, h, o)
        PROVE  FitInv' /\ queue' \in QueueType
    <3>1. UNCHANGED <<parsed, cur, ctrl, queue>>
      BY <2>3 DEF Call
    <3>2. /\ thread'[t].op = o[1] /\ thread'[t].at # "assign" /\ arg'[t] = o[2]
          /\ DOMAIN arg' = Thread
          /\ \A u \in Thread \ {t} : thread'[u] = thread[u] /\ arg'[u] = arg[u]
      BY <1>1, <2>3 DEF Call, LockTypeOK
    <3>3. o[1] = "S_FMT" => o[2] \in Requests
      BY DEF Operations
    <3>4. \A u \in Thread : Argues(u)
      BY <3>2, <3>3 DEF Argues
    <3> QED BY <1>1, <3>1, <3>2, <3>4, FitKept DEF Fills
  <2>4. ASSUME NEW t \in Thread, Step(t) PROVE FitInv' /\ queue' \in QueueType
    BY <2>4, FitStepOfThread
  <2>5. CASE UNCHANGED vars
    <3>1. UNCHANGED <<parsed, cur, ctrl, queue, thread, arg>>
      BY <2>5 DEF vars
    <3>2. \A u \in Thread : Argues(u)
      BY <3>1 DEF Argues
    <3> QED BY <1>1, <3>1, <3>2, FitKept DEF Fills
  <2> HIDE DEF QueueType
  <2> QED BY <2>1, <2>2, <2>3, <2>4, <2>5 DEF Next
<1>3. LockTypeOK'
  BY <1>1, TypeStep
<1>4. (/\ cur \in [format : DOMAIN formats, frame : Nat]
       /\ cur.frame \in DOMAIN Format(cur).frames)'
  <2>1. (/\ DOMAIN formats \subseteq Nat
         /\ \A f \in DOMAIN formats : DOMAIN formats[f].frames \subseteq Nat)'
    <3>1. (\E ds \in Descriptors : formats = Parse(ds))'
      BY <1>2 DEF FitInv
    <3> QED BY <3>1, ParsedFrames, PTL
  <2> QED BY <1>2, <2>1 DEF FitInv, IsSized, Place, Format
<1> QED BY <1>2, <1>3, <1>4 DEF TypeOK, FitInv

\* What the node keeps is what it has types for, and a frame the camera has
\* (uvc_video_init, uvc_v4l2_set_format).
THEOREM TypeCorrect == Spec => []TypeOK
<1>1. TypeOK /\ FitInv /\ [Next]_vars => TypeOK' /\ FitInv'
  BY FitStep
<1> QED BY <1>1, FitInit, PTL DEF Spec

\* The buffers fit the frames of a format that is not compressed, whoever sets
\* the format or the interval between two looks at the lock, also when several
\* threads use a handle (uvc_v4l2_set_format, uvc_v4l2_set_streamparm).
THEOREM BuffersAlwaysFit == Spec => []BuffersFit
<1>1. TypeOK /\ FitInv /\ [Next]_vars => TypeOK' /\ FitInv'
  BY FitStep
<1>2. FitInv => BuffersFit
  BY DEF FitInv
<1> QED BY <1>1, <1>2, FitInit, PTL DEF Spec

=============================================================================
