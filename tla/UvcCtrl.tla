------------------------------ MODULE UvcCtrl -------------------------------
(***************************************************************************)
(* The controls of a camera as uvcvideo_kmod/uvc_ctrl.c keeps them: a      *)
(* cache of the values, and transactions that change several of them.  A   *)
(* transaction has ctrl_mutex; the camera changes values of its own, may   *)
(* refuse any request, and after a reset has forgotten what it was told.   *)
(***************************************************************************)
EXTENDS UvcControls

CONSTANTS
  Entities, \* of the camera: their types, and the bits set in bmControls
  Product,  \* which camera it is
  Highest,  \* a control may be set to 0 .. Highest, and hold that
  Factory,  \* what it holds when the camera starts
  Asked,    \* what a program may ask for
  Steps,    \* how many controls one ioctl sets at most
  Events    \* a program subscribes to events

ASSUME EntitiesAssumption ==
  \A i \in DOMAIN Entities :
    Entities[i].type \in {"PU", "CT", "XU"} /\ Entities[i].bmControls \subseteq Nat
Word == 16   \* stands for 2 ^ 32, the values of a 32-bit word
Values == 0 .. Highest
ASSUME ValuesAssumption ==
  Highest \in 0 .. Word \div 2 - 1 /\ Factory \in Values /\ Asked \subseteq Int
ASSUME StepsAssumption == Steps \in Nat \ {0} /\ Events \in BOOLEAN

\* The controls, entity by entity in the order of their indices.
Ctrls == InitDevice(Entities, Product)
Ctrl == ToSet(Ctrls)
ASSUME CtrlsAssumption == Ctrls \in Seq(DOMAIN uvc_ctrls)
Field == {f \in DOMAIN uvc_ctrl_mappings : ControlOf(f) \in Ctrl}
FieldsOf(c) == {f \in Field : ControlOf(f) = c}

\* uvc_find_control: the first control with a mapping of that id, which hides
\* another one with the same.  A set of one field, or none.
Find(id) ==
  {f \in Field : Id(f) = id /\ \A g \in Field : Id(g) = id => IndexOf(f) <= IndexOf(g)}
Named == {f \in Field : f \in Find(Id(f))}
Reach == [min |-> 0, max |-> Highest, step |-> 1]
Zero == 0      \* what kzalloc leaves

VARIABLES
  device,    \* the values in the camera
  current,   \* UVC_CTRL_DATA_CURRENT
  backup,    \* UVC_CTRL_DATA_BACKUP
  loaded, dirty, modified,
  trans,     \* the transaction that has ctrl_mutex
  answer,    \* how the last one ended
  \* history
  spoiled,   \* a resume was refused, or a commit before it came to a dirty
             \* control: the cache falls back on an old backup
  aside      \* the controls that change by themselves whose value an event or
             \* a query of another control has left in the cache

cacheVars == <<current, backup, loaded, dirty, modified>>
history == <<spoiled, aside>>
vars == <<device, cacheVars, trans, answer, history>>

\* A transaction sets what is asked, one control after the other, and then
\* commits or rolls back, control by control.  The properties compare its end
\* with its beginning: what the camera held, which controls it has changed by
\* itself meanwhile, and what had been left in the cache.
Request == [field : Named, value : Asked]
Free == [kind |-> "none"]
Trans(kind, asked) ==
  [kind |-> kind, asked |-> asked, set |-> 0, stage |-> "set", next |-> 1,
   moved |-> {}, begun |-> device, aside |-> aside]
NoAnswer == [kind |-> "none"]

Entry == [field : Field, value : Asked \cup {Zero}]
TransType ==
  [kind : {"set", "try", "get", "resume"}, asked : Seq(Entry), set : Nat,
   stage : {"set", "commit", "rollback"}, next : 1 .. Len(Ctrls) + 1,
   moved : SUBSET Ctrl, begun : [Field -> Values], aside : SUBSET Ctrl]

TypeOK ==
  /\ device \in [Field -> Values] /\ current \in [Field -> Values]
  /\ backup \in [Field -> Values]
  /\ loaded \in [Ctrl -> BOOLEAN] /\ dirty \in [Ctrl -> BOOLEAN]
  /\ modified \in [Ctrl -> BOOLEAN]
  /\ trans = Free \/ trans \in TransType
  /\ spoiled \in BOOLEAN /\ aside \subseteq Ctrl

\* uvc_ctrl_add_info clears the data.
Init ==
  /\ device = [f \in Field |-> Factory]
  /\ current = [f \in Field |-> Zero] /\ backup = [f \in Field |-> Zero]
  /\ loaded = [c \in Ctrl |-> FALSE] /\ dirty = [c \in Ctrl |-> FALSE]
  /\ modified = [c \in Ctrl |-> FALSE]
  /\ trans = Free /\ answer = NoAnswer /\ spoiled = FALSE /\ aside = {}

Copied(to, from, c) == [f \in Field |-> IF ControlOf(f) = c THEN from[f] ELSE to[f]]

-----------------------------------------------------------------------------
\* The ioctls: uvc_ctrl_begin waits for ctrl_mutex.
Begin(kind, asked) ==
  /\ trans = Free
  /\ trans' = Trans(kind, asked)
  /\ answer' = NoAnswer
  /\ UNCHANGED <<device, cacheVars, history>>

SetCtrls ==
  \E n \in 1 .. Steps : \E asked \in [1 .. n -> Request] :
    Begin("set", asked) \/ Begin("try", asked)

GetCtrl == \E f \in Named : Begin("get", <<[field |-> f, value |-> Zero]>>)

\* GET_CUR has filled the cache, or the cache is taken for what is there.
Refreshed(c) == IF loaded[c] THEN current ELSE Copied(current, device, c)

Refused ==
  /\ trans' = [trans EXCEPT !.stage = "rollback"]
  /\ answer' = [kind |-> "error"]
  /\ UNCHANGED <<device, cacheVars, history>>

\* __uvc_ctrl_get, for VIDIOC_G_CTRL, which then rolls back.
ReadOne ==
  /\ trans.kind = "get" /\ trans.stage = "set"
  /\ LET f == trans.asked[1].field
         c == ControlOf(f)
     IN \/ ~(Has(c, "GET_CUR") /\ loaded[c]) /\ Refused
        \/ /\ Has(c, "GET_CUR")
           /\ current' = Refreshed(c)
           /\ loaded' = [loaded EXCEPT ![c] = TRUE]
           /\ trans' = [trans EXCEPT !.stage = "rollback"]
           /\ answer' = [kind |-> "value", field |-> f, aside |-> c \in aside,
                         right |-> current'[f] = device[f]]
           /\ UNCHANGED <<device, backup, dirty, modified, history>>

\* uvc_ctrl_set: what does not span its control is read before it is changed.
Stored(f, value) ==
  IF Mapping(f).type = "integer"
  THEN Clamp(value, Reach, Mapping(f).data = "signed", Word)
  ELSE Between(value, Reach.min, Reach.max)

\* Mutant of Before: nothing is read.
BeforeUnread(f) == current

Before(f) ==
  LET c == ControlOf(f)
  IN IF loaded[c] \/ SpansControl(f) THEN current
     ELSE IF Has(c, "GET_CUR") THEN Copied(current, device, c)
     ELSE Copied(current, [g \in Field |-> Zero], c)

SetOne ==
  /\ trans.kind \in {"set", "try"} /\ trans.stage = "set"
  /\ LET r == trans.asked[trans.set + 1]
         f == r.field
         c == ControlOf(f)
         last == trans.set + 1 = Len(trans.asked)
     IN \/ Refused
        \/ /\ Has(c, "SET_CUR")
           /\ Mapping(f).type = "menu" => r.value \in Values
           /\ loaded' = [loaded EXCEPT ![c] = @ \/ ~SpansControl(f)]
           /\ backup' = IF dirty[c] THEN backup ELSE Copied(backup, Before(f), c)
           /\ current' = [Before(f) EXCEPT ![f] = Stored(f, r.value)]
           /\ dirty' = [dirty EXCEPT ![c] = TRUE]
           /\ modified' = [modified EXCEPT ![c] = TRUE]
           /\ trans' = [trans EXCEPT !.set = @ + 1,
                          !.stage = IF ~last THEN "set"
                                    ELSE IF trans.kind = "set" THEN "commit"
                                    ELSE "rollback"]
           /\ UNCHANGED <<device, answer, history>>

\* Mutant of KeptLoaded: every value is kept.
AllKeptLoaded(c) == loaded[c]

\* uvc_ctrl_commit_entity, for the control that is next.  The value of a
\* control that changes by itself, or cannot be read, is not kept.
KeptLoaded(c) ==
  loaded[c] /\ Has(c, "GET_CUR") /\ ~Has(c, "AUTO_UPDATE")

\* Mutant of FallenBack: the new value stays.
NotFallenBack(c) == current

FallenBack(c) == Copied(current, backup, c)

CommitOne ==
  /\ trans # Free /\ trans.stage # "set" /\ trans.next <= Len(Ctrls)
  /\ LET c == Ctrls[trans.next]
         on == [trans EXCEPT !.next = @ + 1]
         commit == trans.stage = "commit"
     IN /\ loaded' = [loaded EXCEPT ![c] = KeptLoaded(c)]
        /\ dirty' = [dirty EXCEPT ![c] = FALSE]
        /\ aside' = aside \ {c}
        /\ \/ /\ dirty[c] => commit
              /\ device' = IF dirty[c] THEN Copied(device, current, c) ELSE device
              /\ trans' = on
              /\ UNCHANGED <<current, answer, spoiled>>
           \/ /\ dirty[c] /\ ~commit
              /\ current' = FallenBack(c)
              /\ trans' = on
              /\ UNCHANGED <<device, answer, spoiled>>
           \/ \* the camera refuses: the rest is left as it is
              /\ dirty[c] /\ commit
              /\ current' = FallenBack(c)
              /\ trans' = Free
              /\ answer' = [kind |-> "error"]
              /\ spoiled' = (spoiled \/ trans.kind = "resume" \/ \E d \in Ctrl \ {c} : dirty[d])
              /\ UNCHANGED device
        /\ UNCHANGED <<backup, modified>>

\* __uvc_ctrl_commit ends with the events: uvc_ctrl_send_slave_event reads the
\* slaves that were not set, whoever listens, and an event that somebody listens
\* to says whether the master of its control is in manual mode.
Slaves(fields) == ((UNION {Mapping(f).slaves : f \in fields}) \cap Field) \ fields
Masters(fields) == UNION {Find(Id(Mapping(f).master)) : f \in fields}

Told ==
  LET fields == {trans.asked[i].field : i \in DOMAIN trans.asked}
      slaves == Slaves(fields)
      masters == IF Events THEN Masters(fields \cup slaves) ELSE {}
  IN IF trans.stage = "commit" /\ trans.kind = "set"
     THEN {ControlOf(f) : f \in slaves \cup masters} ELSE {}

\* __uvc_ctrl_get of some controls, for what is not a program's own reading.
Overhear(read) ==
  /\ current' = [f \in Field |-> IF ControlOf(f) \in read THEN device[f] ELSE current[f]]
  /\ loaded' = [c \in Ctrl |-> loaded[c] \/ c \in read]
  /\ aside' = aside \cup {c \in read : Has(c, "AUTO_UPDATE")}

EndTrans ==
  /\ trans # Free /\ trans.next = Len(Ctrls) + 1
  /\ \E read \in SUBSET {c \in Told : Has(c, "GET_CUR") /\ ~loaded[c]} : Overhear(read)
  /\ UNCHANGED answer
  /\ trans' = Free
  /\ UNCHANGED <<device, backup, dirty, modified, spoiled>>

\* VIDIOC_QUERYCTRL of a slave reads its master, and
\* uvc_ctrl_add_event with V4L2_EVENT_SUB_FL_SEND_INITIAL the control itself.
QueryCtrl ==
  /\ trans = Free
  /\ \E f \in Named :
       LET reads == Masters({f}) \cup (IF Events THEN {f} ELSE {})
       IN \E read \in SUBSET {c \in {ControlOf(g) : g \in reads} :
                               Has(c, "GET_CUR") /\ ~loaded[c]} : Overhear(read)
  /\ answer' = NoAnswer
  /\ UNCHANGED <<device, backup, dirty, modified, trans, spoiled>>

-----------------------------------------------------------------------------
\* The camera changes what it adjusts by itself.
CameraAdjusts ==
  /\ \E f \in Field, v \in Values :
       /\ Has(ControlOf(f), "AUTO_UPDATE") /\ v # device[f]
       /\ device' = [device EXCEPT ![f] = v]
       /\ trans' =
            CASE trans = Free -> Free
              [] trans.kind = "set" ->
                   [trans EXCEPT !.moved = @ \cup {ControlOf(f)}, !.begun[f] = v]
              [] OTHER -> [trans EXCEPT !.begun[f] = v]
  /\ UNCHANGED <<cacheVars, answer, history>>

\* uvc_reset_resume: the camera has lost its values, uvc_ctrl_resume_device
\* commits what was modified; no program runs meanwhile.
ToRestore(c) == modified[c] /\ Has(c, "RESTORE")

ResetResume ==
  /\ trans = Free
  /\ device' = [f \in Field |-> Factory]
  /\ trans' = [Trans("resume", <<>>) EXCEPT !.stage = "commit", !.begun = device']
  /\ dirty' = [c \in Ctrl |-> dirty[c] \/ ToRestore(c)]
  /\ answer' = NoAnswer
  /\ UNCHANGED <<current, backup, loaded, modified, history>>

Next ==
  \/ SetCtrls \/ GetCtrl \/ ReadOne \/ SetOne \/ CommitOne \/ EndTrans
  \/ QueryCtrl \/ CameraAdjusts \/ ResetResume

Spec == Init /\ [][Next]_vars

-----------------------------------------------------------------------------
\* A value that is kept is the value in the camera, until a resume is refused,
\* or a commit that leaves another control dirty.
\* (uvc_ctrl_commit_entity: loaded, backup; uvc_ctrl_set: reading first.)
CacheIsTrue ==
  trans = Free /\ ~spoiled =>
    \A f \in Field :
      LET c == ControlOf(f)
      IN loaded[c] /\ ~Has(c, "AUTO_UPDATE") => current[f] = device[f]

\* Independent of Clamp: the value nearest to what is asked that can be had.
Nearest(v) ==
  CHOOSE w \in Values : \A x \in Values : (w - v) * (w - v) <= (x - v) * (x - v)

\* When a set is about to report success the camera has every value that was
\* asked for, the last one where two were, and every other value as before,
\* those in the same control too.  Excepted are a control the camera changed
\* meanwhile, and what shares a control with a value that was asked for where an
\* event had left that control in the cache: it is written back as it was then.
\* (The read-modify-write in uvc_ctrl_set.)
Wanted(f, n) ==
  LET asked == {i \in 1 .. n : trans.asked[i].field = f}
  IN IF asked = {} THEN trans.begun[f] ELSE Nearest(trans.asked[Max(asked)].value)

Foreseen(f, n) ==
  LET c == ControlOf(f)
      asked == {trans.asked[i].field : i \in 1 .. n}
  IN /\ c \notin trans.moved
     /\ c \in trans.aside => f \in asked \/ \A g \in asked : ControlOf(g) # c

DoneMeansSet ==
  trans.kind = "set" /\ trans.next = Len(Ctrls) + 1 /\ trans.stage = "commit" /\ ~spoiled =>
    \A f \in Field : Foreseen(f, Len(trans.asked)) => device[f] = Wanted(f, Len(trans.asked))

\* G_CTRL returns what the camera holds.  A control that changes by itself is read
\* from the camera every time; only what an event or a query has left in the cache
\* since the last transaction is taken from there, once.  (__uvc_ctrl_get, the
\* loaded flag in uvc_ctrl_commit_entity.)
ReadIsTrue == answer.kind = "value" /\ ~spoiled /\ ~answer.aside => answer.right

\* The cached value of a control that changes by itself is not used.
\* (The comment in uvc_ctrl_commit_entity, uvc_ctrl.c:1352.)
CachedNotUsed ==
  answer.kind = "value" /\ ~spoiled /\ Has(ControlOf(answer.field), "AUTO_UPDATE") =>
    answer.right

-----------------------------------------------------------------------------
\* What makes them inductive.  A transaction sets, and then goes over the controls.
Done == {Ctrls[i] : i \in 1 .. trans.next - 1}
PhaseInv ==
  trans # Free =>
    /\ trans.stage = "set" =>
         trans.next = 1 /\ trans.kind # "resume" /\ trans.set < Len(trans.asked)
    /\ trans.stage = "commit" =>
         trans.kind \in {"set", "resume"} /\ trans.set = Len(trans.asked)
    /\ trans.stage = "rollback" => trans.kind # "resume"

\* What is dirty has been set, by this transaction unless one is spoiled; and what
\* is not read before it is set covers its control.
SelfSet(f) == Has(ControlOf(f), "AUTO_UPDATE")
DirtyInv ==
  /\ \A c \in Ctrl : (dirty[c] => modified[c]) /\ (modified[c] => Has(c, "SET_CUR"))
  /\ \A f \in Field : ~modified[ControlOf(f)] /\ ~SelfSet(f) => device[f] = Factory
  /\ trans # Free => \A c \in Done : ~dirty[c]
  /\ ~spoiled =>
       /\ trans.kind \in {"none", "get"} => \A c \in Ctrl : ~dirty[c]
       /\ trans.kind \in {"set", "try"} => \A f \in Field :
            dirty[ControlOf(f)] /\ ~loaded[ControlOf(f)] => SpansControl(f)

\* A value that is kept is the camera's, and under a dirty one is the camera's.
CacheInv ==
  ~spoiled => \A f \in Field :
    LET c == ControlOf(f)
    IN ~SelfSet(f) /\ loaded[c] =>
         IF ~dirty[c] THEN current[f] = device[f]
         ELSE Has(c, "GET_CUR") /\ trans.kind # "resume" => backup[f] = device[f]

IInv == TypeOK /\ PhaseInv /\ DirtyInv /\ CacheInv

\* What changes by itself is not kept, but where an event or a query has left it.
ReadInv ==
  /\ ReadIsTrue
  /\ ~spoiled => \A f \in Field : SelfSet(f) /\ loaded[ControlOf(f)] =>
       \/ dirty[ControlOf(f)] \/ ControlOf(f) \in aside
       \/ trans.kind = "get" /\ trans.stage = "rollback" /\ ControlOf(f) \notin Done

\* What has been set so far is in the cache, or in the camera.
AskedInRange == Asked \subseteq 0 .. Word \div 2 - 1
SetInv ==
  /\ trans # Free => aside \subseteq trans.aside
  /\ trans.kind \in {"set", "try"} /\ trans.stage = "set" /\ ~spoiled =>
       \A i \in 1 .. trans.set : dirty[ControlOf(trans.asked[i].field)]
  /\ trans.kind = "set" /\ trans.stage # "rollback" /\ ~spoiled =>
       \A f \in Field : Foreseen(f, trans.set) =>
         Wanted(f, trans.set) = IF dirty[ControlOf(f)] THEN current[f] ELSE device[f]
=============================================================================
