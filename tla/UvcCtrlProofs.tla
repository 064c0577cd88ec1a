---------------------------- MODULE UvcCtrlProofs -----------------------------
(***************************************************************************)
(* The cache of UvcCtrl holds what the camera holds, whatever controls a   *)
(* camera has and whoever listens; what is read is true, but for what an   *)
(* event has left in the cache; and what has been set is in the camera.    *)
(***************************************************************************)
EXTENDS UvcCtrl, SequenceTheorems, TLAPS

USE ValuesAssumption, StepsAssumption, CtrlsAssumption

-----------------------------------------------------------------------------
\* The controls of a camera, and the fields in them.
LEMMA LenOfCtrls == Len(Ctrls) \in Nat /\ DOMAIN Ctrls = 1 .. Len(Ctrls)
BY LenProperties

LEMMA CtrlIs == Ctrl \subseteq DOMAIN uvc_ctrls /\ \A i \in 1 .. Len(Ctrls) : Ctrls[i] \in Ctrl
BY LenOfCtrls DEF Ctrl, ToSet

LEMMA CtrlAt == \A c \in Ctrl : \E i \in 1 .. Len(Ctrls) : Ctrls[i] = c
BY LenOfCtrls DEF Ctrl, ToSet

LEMMA FieldIs == \A f \in Field : ControlOf(f) \in Ctrl
BY DEF Field

LEMMA FieldsShare ==
  \A f, g \in Field : ControlOf(f) = ControlOf(g) /\ f # g =>
    ~SpansControl(f) /\ Has(ControlOf(f), "GET_CUR")
BY FlagsAgree DEF Field

LEMMA Restorable ==
  \A c \in Ctrl : Has(c, "SET_CUR") => Has(c, "RESTORE") \/ Has(c, "AUTO_UPDATE")
BY FlagsAgree, CtrlIs

LEMMA ValuesAre == Highest \in 0 .. 7 /\ Values = 0 .. Highest /\ Factory \in Values /\ Zero \in Values
BY DEF Values, Word, Zero

\* What is stored is a value, and the nearest one to what is asked.
LEMMA BetweenIs ==
  ASSUME NEW v \in Int
  PROVE  Between(v, 0, Highest) \in Values
BY ValuesAre DEF Between

LEMMA StoredIsValue ==
  ASSUME NEW f, NEW v \in Int
  PROVE  Stored(f, v) \in Values
<1>1. Highest \in Int /\ Reach.min = 0 /\ Reach.max = Highest /\ Reach.step = 1
  BY ValuesAre DEF Reach
<1>2. CASE Mapping(f).type = "integer"
  <2> DEFINE steps == Unsigned(Unsigned(v - 0, 16) + 1 \div 2, 16) \div 1
             signed == Mapping(f).data = "signed"
             rounded == Signed(0 + steps * 1, 16)
  <2>1. steps \in Int
    BY DEF Unsigned
  <2>2. rounded \in Int
    <3> HIDE DEF steps
    <3> QED BY <2>1 DEF Signed
  <2>3. Unsigned(rounded, 16) \in Int
    <3> HIDE DEF rounded
    <3> QED BY <2>2 DEF Unsigned
  <2>4. Stored(f, v) = IF signed THEN Between(rounded, 0, Highest)
                       ELSE Between(Unsigned(rounded, 16), 0, Highest)
    BY <1>1, <1>2 DEF Stored, Clamp, Word
  <2> HIDE DEF rounded, signed
  <2> QED BY <2>2, <2>3, <2>4, BetweenIs
<1>3. CASE Mapping(f).type # "integer"
  BY <1>1, <1>3, BetweenIs DEF Stored
<1> QED BY <1>2, <1>3

LEMMA NearestIs ==
  ASSUME NEW v \in 0 .. 7
  PROVE  Nearest(v) = Between(v, 0, Highest)
<1> DEFINE b == Between(v, 0, Highest)
<1>1. b \in Values
  BY BetweenIs
<1>2. \A x \in Values : (b - v) * (b - v) <= (x - v) * (x - v)
  <2>1. CASE v <= Highest
    <3>1. b = v
      BY <2>1, ValuesAre DEF Between
    <3> HIDE DEF b
    <3>2. \A x \in Values : x - v \in Int
      BY ValuesAre
    <3>3. \A y \in Int : 0 <= y * y
      BY Z3
    <3>4. (b - v) * (b - v) = 0
      BY <3>1
    <3> QED BY <3>2, <3>3, <3>4
  <2>2. CASE v > Highest
    <3>1. b = Highest
      BY <2>2, ValuesAre DEF Between
    <3> HIDE DEF b
    <3>2. \A x \in Values : x \in Int /\ 0 <= v - Highest /\ v - Highest <= v - x
      BY <2>2, ValuesAre
    <3>3. \A y, z \in Int : 0 <= y /\ y <= z => y * y <= z * z
      BY Z3
    <3>4. ASSUME NEW x \in Values
          PROVE  (v - Highest) * (v - Highest) <= (v - x) * (v - x)
      <4>1. v - Highest \in Int /\ v - x \in Int /\ 0 <= v - Highest /\ v - Highest <= v - x
        BY <3>2, ValuesAre
      <4> QED BY <3>3, <4>1
    <3>5. \A y \in Int : (y - v) * (y - v) = (v - y) * (v - y)
      BY Z3
    <3> QED BY <3>1, <3>2, <3>4, <3>5, ValuesAre
  <2>3. v <= Highest \/ v > Highest
    BY ValuesAre
  <2> HIDE DEF b
  <2> QED BY <2>1, <2>2, <2>3
<1>3. ASSUME NEW w \in Values, \A x \in Values : (w - v) * (w - v) <= (x - v) * (x - v)
      PROVE  w = b
  <2> HIDE DEF b
  <2>1. w \in 0 .. 7 /\ b \in 0 .. 7
    BY <1>1, <1>3, ValuesAre
  <2>2. (w - v) * (w - v) = (b - v) * (b - v)
    BY <1>1, <1>2, <1>3, <2>1
  <2>3. w - v = b - v \/ w - v = v - b
    BY <2>1, <2>2, Z3
  <2>4. b = v \/ (b = Highest /\ v > Highest)
    BY ValuesAre DEF b, Between
  <2> QED BY <1>3, <2>1, <2>3, <2>4, ValuesAre
<1>4. Nearest(v) = b
  <2> HIDE DEF b
  <2> QED BY <1>1, <1>2, <1>3 DEF Nearest
<1> QED BY <1>4

LEMMA StoredIsNearest ==
  ASSUME NEW f, NEW v \in 0 .. 7
  PROVE  Stored(f, v) = Nearest(v)
<1>1. Highest \in Int /\ Reach.min = 0 /\ Reach.max = Highest /\ Reach.step = 1
  BY ValuesAre DEF Reach
<1>2. CASE Mapping(f).type = "integer"
  <2> DEFINE steps == Unsigned(Unsigned(v - 0, 16) + 1 \div 2, 16) \div 1
             signed == Mapping(f).data = "signed"
             rounded == Signed(0 + steps * 1, 16)
  <2>1. steps = v
    BY DEF Unsigned
  <2>2. rounded = v
    <3> HIDE DEF steps
    <3> QED BY <2>1 DEF Signed
  <2>3. Unsigned(rounded, 16) = v
    <3> HIDE DEF rounded
    <3> QED BY <2>2 DEF Unsigned
  <2>4. Stored(f, v) = IF signed THEN Between(rounded, 0, Highest)
                       ELSE Between(Unsigned(rounded, 16), 0, Highest)
    BY <1>1, <1>2 DEF Stored, Clamp, Word
  <2> HIDE DEF rounded, signed
  <2> QED BY <2>2, <2>3, <2>4, NearestIs
<1>3. CASE Mapping(f).type # "integer"
  BY <1>1, <1>3, NearestIs DEF Stored
<1> QED BY <1>2, <1>3

-----------------------------------------------------------------------------
\* What a transaction is.
LEMMA FreeIs == Free.kind = "none" /\ (trans \in TransType => trans # Free)
BY DEF Free, TransType

LEMMA TransIs ==
  ASSUME TypeOK, trans # Free
  PROVE  /\ trans \in TransType /\ trans.kind \in {"set", "try", "get", "resume"}
         /\ trans.asked \in Seq(Entry) /\ trans.set \in Nat /\ Len(trans.asked) \in Nat
         /\ trans.stage \in {"set", "commit", "rollback"}
         /\ trans.next \in 1 .. Len(Ctrls) + 1 /\ trans.moved \in SUBSET Ctrl
         /\ trans.begun \in [Field -> Values] /\ trans.aside \in SUBSET Ctrl
BY LenProperties DEF TypeOK, TransType

LEMMA AllDone ==
  ASSUME trans.next = Len(Ctrls) + 1
  PROVE  Ctrl \subseteq Done
BY CtrlAt, LenOfCtrls DEF Done

LEMMA CopiedIs ==
  ASSUME NEW to \in [Field -> Values], NEW from \in [Field -> Values], NEW c
  PROVE  /\ Copied(to, from, c) \in [Field -> Values]
         /\ \A f \in Field :
              Copied(to, from, c)[f] = IF ControlOf(f) = c THEN from[f] ELSE to[f]
BY DEF Copied

-----------------------------------------------------------------------------
\* The invariant of the cache, action by action.
LEMMA InvInit == Init => IInv
<1> SUFFICES ASSUME Init PROVE IInv
  OBVIOUS
<1> USE DEF Init
<1>1. TypeOK
  BY ValuesAre DEF TypeOK
<1>2. PhaseInv
  BY DEF PhaseInv
<1>3. DirtyInv
  BY FieldIs DEF DirtyInv, Free
<1>4. CacheInv
  BY FieldIs DEF CacheInv
<1> QED BY <1>1, <1>2, <1>3, <1>4 DEF IInv

LEMMA BeginKeeps ==
  ASSUME IInv, NEW kind \in {"set", "try", "get"}, NEW asked \in Seq(Entry), Len(asked) >= 1,
         Begin(kind, asked)
  PROVE  IInv'
<1>1. /\ trans = Free /\ trans' = Trans(kind, asked)
      /\ UNCHANGED <<device, cacheVars, spoiled, aside>>
  BY DEF Begin, history
<1>2. /\ trans'.kind = kind /\ trans'.stage = "set" /\ trans'.next = 1 /\ trans'.set = 0
      /\ trans'.asked = asked
  BY <1>1 DEF Trans
<1>3. trans' \in TransType
  <2>1. 1 \in 1 .. Len(Ctrls) + 1 /\ device \in [Field -> Values] /\ aside \subseteq Ctrl
    BY LenOfCtrls DEF IInv, TypeOK
  <2> QED BY <1>1, <2>1 DEF Trans, TransType
<1>4. Done' = {}
  BY <1>2 DEF Done
<1>5. trans.kind = "none"
  BY <1>1, FreeIs
<1>6. TypeOK'
  BY <1>1, <1>3 DEF IInv, TypeOK, cacheVars
<1>7. PhaseInv'
  BY <1>2 DEF PhaseInv
<1>8. DirtyInv'
  BY <1>1, <1>2, <1>4, <1>5, FieldIs DEF IInv, DirtyInv, cacheVars
<1>9. CacheInv'
  BY <1>1, <1>5, FieldIs DEF IInv, DirtyInv, CacheInv, cacheVars
<1> QED BY <1>6, <1>7, <1>8, <1>9 DEF IInv

LEMMA RefusedKeeps ==
  ASSUME IInv, trans # Free, trans.stage = "set", Refused
  PROVE  IInv'
<1>1. /\ trans' = [trans EXCEPT !.stage = "rollback"]
      /\ UNCHANGED <<device, cacheVars, spoiled, aside>>
  BY DEF Refused, history
<1>2. trans \in TransType
  BY TransIs DEF IInv
<1>3. /\ trans' \in TransType /\ trans'.kind = trans.kind /\ trans'.stage = "rollback"
      /\ trans'.next = trans.next
  BY <1>1, <1>2 DEF TransType
<1>4. TypeOK'
  BY <1>1, <1>3 DEF IInv, TypeOK, cacheVars
<1>5. PhaseInv'
  BY <1>3 DEF IInv, PhaseInv
<1>6. Done' = Done
  BY <1>3 DEF Done
<1>7. DirtyInv'
  BY <1>1, <1>3, <1>6 DEF IInv, DirtyInv, cacheVars
<1>8. CacheInv'
  BY <1>1, <1>3 DEF IInv, CacheInv, cacheVars
<1> QED BY <1>4, <1>5, <1>7, <1>8 DEF IInv

\* Some controls are read when no control is dirty.
Reads(read) ==
  /\ current' = [f \in Field |-> IF ControlOf(f) \in read THEN device[f] ELSE current[f]]
  /\ loaded' = [c \in Ctrl |-> loaded[c] \/ c \in read]
  /\ aside' \subseteq Ctrl
  /\ UNCHANGED <<device, backup, dirty, modified, spoiled>>

LEMMA ReadsKeep ==
  ASSUME IInv, ~spoiled => \A c \in Ctrl : ~dirty[c], NEW read, Reads(read),
         \/ trans' = Free
         \/ /\ trans' \in TransType /\ trans'.kind = "get" /\ trans'.stage = "rollback"
            /\ Done' = {}
  PROVE  IInv'
<1> USE DEF Reads
<1>1. current' \in [Field -> Values] /\ loaded' \in [Ctrl -> BOOLEAN]
  BY DEF IInv, TypeOK
<1>2. TypeOK'
  BY <1>1 DEF IInv, TypeOK
<1>3. PhaseInv'
  BY DEF PhaseInv
<1>4. DirtyInv'
  <2>1. trans' # Free => Done' = {} /\ trans'.kind = "get"
    OBVIOUS
  <2>2. trans'.kind \in {"none", "get"}
    BY FreeIs
  <2> QED BY <2>1, <2>2 DEF IInv, DirtyInv
<1>5. CacheInv'
  <2> SUFFICES ASSUME ~spoiled, NEW f \in Field, ~SelfSet(f), loaded'[ControlOf(f)]
               PROVE  current'[f] = device[f] /\ ~dirty[ControlOf(f)]
    BY DEF CacheInv
  <2>1. ControlOf(f) \in Ctrl /\ ~dirty[ControlOf(f)]
    BY FieldIs
  <2>2. CASE ControlOf(f) \in read
    BY <2>1, <2>2
  <2>3. CASE ControlOf(f) \notin read
    <3>1. loaded[ControlOf(f)] /\ current'[f] = current[f]
      BY <2>1, <2>3
    <3> QED BY <2>1, <3>1 DEF IInv, CacheInv
  <2> QED BY <2>2, <2>3
<1> QED BY <1>2, <1>3, <1>4, <1>5 DEF IInv

LEMMA FindIs == \A id : Find(id) \subseteq Field
BY DEF Find

LEMMA MastersAre == \A fields : Masters(fields) \subseteq Field
BY FindIs DEF Masters

LEMMA ToldIs == Told \subseteq Ctrl
BY FieldIs, MastersAre DEF Told, Slaves

LEMMA OverhearReads ==
  ASSUME IInv, NEW read \in SUBSET Ctrl, Overhear(read),
         UNCHANGED <<device, backup, dirty, modified, spoiled>>
  PROVE  Reads(read)
BY DEF Overhear, Reads, IInv, TypeOK

LEMMA EndIs ==
  ASSUME IInv, EndTrans
  PROVE  /\ trans # Free /\ trans' = Free /\ trans.next = Len(Ctrls) + 1
         /\ UNCHANGED <<answer, spoiled, dirty>>
         /\ \E read \in SUBSET Ctrl : Overhear(read) /\ Reads(read)
<1>1. PICK read \in SUBSET {c \in Told : Has(c, "GET_CUR") /\ ~loaded[c]} : Overhear(read)
  BY DEF EndTrans
<1>2. UNCHANGED <<device, backup, dirty, modified, spoiled>>
  BY DEF EndTrans
<1>3. read \in SUBSET Ctrl
  BY ToldIs
<1> QED BY <1>1, <1>2, <1>3, OverhearReads DEF EndTrans

LEMMA QueryIs ==
  ASSUME IInv, QueryCtrl
  PROVE  /\ trans = Free /\ trans' = Free /\ answer' = NoAnswer
         /\ UNCHANGED <<spoiled, dirty>>
         /\ \E read \in SUBSET Ctrl : Overhear(read) /\ Reads(read)
<1>1. PICK f \in Named :
        LET reads == Masters({f}) \cup (IF Events THEN {f} ELSE {})
        IN \E read \in SUBSET {c \in {ControlOf(g) : g \in reads} :
                                Has(c, "GET_CUR") /\ ~loaded[c]} : Overhear(read)
  BY DEF QueryCtrl
<1> DEFINE reads == Masters({f}) \cup (IF Events THEN {f} ELSE {})
<1>2. reads \subseteq Field
  BY MastersAre DEF Named
<1>3. {ControlOf(g) : g \in reads} \subseteq Ctrl
  <2> HIDE DEF reads
  <2> QED BY <1>2, FieldIs
<1>4. PICK read \in SUBSET {c \in {ControlOf(g) : g \in reads} :
                             Has(c, "GET_CUR") /\ ~loaded[c]} : Overhear(read)
  BY <1>1
<1>5. read \in SUBSET Ctrl
  <2> HIDE DEF reads
  <2> QED BY <1>3, <1>4
<1>6. /\ trans = Free /\ trans' = Free /\ answer' = NoAnswer
      /\ UNCHANGED <<device, backup, dirty, modified, spoiled>>
  BY DEF QueryCtrl
<1> QED BY <1>4, <1>5, <1>6, OverhearReads

LEMMA EndKeeps ==
  ASSUME IInv, EndTrans
  PROVE  IInv' /\ \A c \in Ctrl : ~dirty[c]
<1>1. trans' = Free /\ \E read : Reads(read)
  BY EndIs
<1>2. \A c \in Ctrl : ~dirty[c]
  BY AllDone DEF EndTrans, IInv, DirtyInv
<1> QED BY <1>1, <1>2, ReadsKeep

LEMMA QueryKeeps ==
  ASSUME IInv, QueryCtrl
  PROVE  IInv'
<1>1. trans = Free /\ trans' = Free /\ \E read : Reads(read)
  BY QueryIs
<1>2. ~spoiled => \A c \in Ctrl : ~dirty[c]
  BY <1>1, FreeIs DEF IInv, DirtyInv
<1> QED BY <1>1, <1>2, ReadsKeep

LEMMA ReadOneKeeps ==
  ASSUME IInv, ReadOne
  PROVE  IInv'
<1>1. trans # Free /\ trans.kind = "get" /\ trans.stage = "set"
  BY FreeIs DEF ReadOne
<1>2. CASE Refused
  BY <1>1, <1>2, RefusedKeeps
<1>3. CASE ~Refused
  <2> DEFINE f == trans.asked[1].field
             c == ControlOf(f)
  <2>1. /\ current' = Refreshed(c) /\ loaded' = [loaded EXCEPT ![c] = TRUE]
        /\ trans' = [trans EXCEPT !.stage = "rollback"]
        /\ UNCHANGED <<device, backup, dirty, modified, spoiled, aside>>
    BY <1>3 DEF ReadOne, history
  <2>2. trans \in TransType /\ trans.next = 1
    BY <1>1, TransIs DEF IInv, PhaseInv
  <2>3. /\ trans' \in TransType /\ trans'.kind = "get" /\ trans'.stage = "rollback"
        /\ trans'.next = 1
    BY <1>1, <2>1, <2>2 DEF TransType
  <2>4. Done' = {}
    BY <2>3 DEF Done
  <2>5. ~spoiled => \A d \in Ctrl : ~dirty[d]
    BY <1>1 DEF IInv, DirtyInv
  <2>6. /\ current \in [Field -> Values] /\ device \in [Field -> Values]
        /\ loaded \in [Ctrl -> BOOLEAN] /\ aside \subseteq Ctrl
    BY DEF IInv, TypeOK
  <2>7. Reads(IF loaded[c] THEN {} ELSE {c})
    <3> HIDE DEF c
    <3>1. CASE loaded[c]
      <4>1. current' = current
        BY <2>1, <3>1 DEF Refreshed
      <4>2. loaded' = [d \in Ctrl |-> loaded[d] \/ d \in {}]
        BY <2>1, <2>6, <3>1
      <4> QED BY <2>1, <2>6, <3>1, <4>1, <4>2 DEF Reads
    <3>2. CASE ~loaded[c]
      <4>1. current' = [g \in Field |-> IF ControlOf(g) \in {c} THEN device[g] ELSE current[g]]
        BY <2>1, <3>2 DEF Refreshed, Copied
      <4>2. loaded' = [d \in Ctrl |-> loaded[d] \/ d \in {c}]
        BY <2>1, <2>6
      <4> QED BY <2>1, <2>6, <3>2, <4>1, <4>2 DEF Reads
    <3> QED BY <3>1, <3>2
  <2> QED BY <2>3, <2>4, <2>5, <2>7, ReadsKeep
<1> QED BY <1>2, <1>3

\* What is set has been read before, unless it covers its control.
Sets(f, v) ==
  LET c == ControlOf(f)
  IN /\ Has(c, "SET_CUR")
     /\ loaded' = [loaded EXCEPT ![c] = @ \/ ~SpansControl(f)]
     /\ backup' = IF dirty[c] THEN backup ELSE Copied(backup, Before(f), c)
     /\ current' = [Before(f) EXCEPT ![f] = Stored(f, v)]
     /\ dirty' = [dirty EXCEPT ![c] = TRUE]
     /\ modified' = [modified EXCEPT ![c] = TRUE]
     /\ UNCHANGED <<device, answer, spoiled, aside>>

LEMMA SetOneIs ==
  ASSUME IInv, SetOne, ~Refused
  PROVE  /\ trans # Free /\ trans.kind \in {"set", "try"} /\ trans.stage = "set"
         /\ trans.set + 1 \in 1 .. Len(trans.asked)
         /\ \E f \in Field, v \in Asked \cup {Zero} :
              /\ trans.asked[trans.set + 1] = [field |-> f, value |-> v]
              /\ Sets(f, v)
         /\ trans' \in TransType /\ trans'.kind = trans.kind /\ trans'.asked = trans.asked
         /\ trans'.begun = trans.begun /\ trans'.moved = trans.moved
         /\ trans'.aside = trans.aside /\ trans'.next = trans.next /\ trans'.set = trans.set + 1
         /\ trans'.stage = IF trans.set + 1 # Len(trans.asked) THEN "set"
                           ELSE IF trans.kind = "set" THEN "commit" ELSE "rollback"
<1>1. trans # Free /\ trans.kind \in {"set", "try"} /\ trans.stage = "set"
  BY FreeIs DEF SetOne
<1>2. /\ trans \in TransType /\ trans.set \in Nat /\ trans.asked \in Seq(Entry)
      /\ Len(trans.asked) \in Nat /\ trans.set < Len(trans.asked)
  BY <1>1, TransIs DEF IInv, PhaseInv
<1>3. trans.set + 1 \in 1 .. Len(trans.asked)
  BY <1>2
<1> DEFINE r == trans.asked[trans.set + 1]
<1>4. r \in Entry
  BY <1>2, <1>3, ElementOfSeq
<1>5. PICK f \in Field, v \in Asked \cup {Zero} : r = [field |-> f, value |-> v]
  BY <1>4 DEF Entry
<1>6. Sets(f, v)
  <2>1. r.field = f /\ r.value = v
    BY <1>5
  <2> QED BY <2>1 DEF SetOne, Sets, history
<1>7. trans' = [trans EXCEPT !.set = @ + 1,
                  !.stage = IF trans.set + 1 # Len(trans.asked) THEN "set"
                            ELSE IF trans.kind = "set" THEN "commit" ELSE "rollback"]
  BY DEF SetOne
<1>8. /\ trans' \in TransType /\ trans'.kind = trans.kind /\ trans'.asked = trans.asked
      /\ trans'.begun = trans.begun /\ trans'.moved = trans.moved
      /\ trans'.aside = trans.aside /\ trans'.next = trans.next /\ trans'.set = trans.set + 1
      /\ trans'.stage = IF trans.set + 1 # Len(trans.asked) THEN "set"
                        ELSE IF trans.kind = "set" THEN "commit" ELSE "rollback"
  <2> DEFINE stage == IF trans.set + 1 # Len(trans.asked) THEN "set"
                      ELSE IF trans.kind = "set" THEN "commit" ELSE "rollback"
  <2>1. stage \in {"set", "commit", "rollback"} /\ trans.set + 1 \in Nat
    BY <1>2
  <2>2. trans' = [trans EXCEPT !.set = @ + 1, !.stage = stage]
    BY <1>7
  <2> HIDE DEF stage
  <2>3. /\ trans'.kind = trans.kind /\ trans'.asked = trans.asked
        /\ trans'.begun = trans.begun /\ trans'.moved = trans.moved
        /\ trans'.aside = trans.aside
        /\ trans'.next = trans.next /\ trans'.set = trans.set + 1 /\ trans'.stage = stage
    BY <1>2, <2>2 DEF TransType
  <2>4. trans' \in TransType
    BY <1>2, <2>1, <2>2 DEF TransType
  <2> QED BY <2>3, <2>4 DEF stage
<1> QED BY <1>1, <1>3, <1>5, <1>6, <1>8

LEMMA BeforeIs ==
  ASSUME TypeOK, NEW f \in Field
  PROVE  /\ Before(f) \in [Field -> Values]
         /\ \A g \in Field : ControlOf(g) # ControlOf(f) => Before(f)[g] = current[g]
         /\ loaded[ControlOf(f)] => Before(f) = current
         /\ ~loaded[ControlOf(f)] /\ ~SpansControl(f) /\ Has(ControlOf(f), "GET_CUR") =>
              \A g \in Field : ControlOf(g) = ControlOf(f) => Before(f)[g] = device[g]
<1> DEFINE zeros == [g \in Field |-> Zero]
           c == ControlOf(f)
<1>1. /\ current \in [Field -> Values] /\ device \in [Field -> Values]
      /\ zeros \in [Field -> Values]
  BY ValuesAre DEF TypeOK
<1> HIDE DEF zeros, c
<1>2. Before(f) = IF loaded[c] \/ SpansControl(f) THEN current
                  ELSE IF Has(c, "GET_CUR") THEN Copied(current, device, c)
                  ELSE Copied(current, zeros, c)
  BY DEF Before, zeros, c
<1> QED BY <1>1, <1>2, CopiedIs DEF c

LEMMA SetOneKeeps ==
  ASSUME IInv, SetOne
  PROVE  IInv'
<1>1. CASE Refused
  <2>1. trans # Free /\ trans.stage = "set"
    BY FreeIs DEF SetOne
  <2> QED BY <1>1, <2>1, RefusedKeeps
<1>2. CASE ~Refused
  <2>1. PICK f \in Field, v \in Asked \cup {Zero} : Sets(f, v)
    BY <1>2, SetOneIs
  <2> DEFINE c == ControlOf(f)
  <2>2. /\ trans # Free /\ trans.kind \in {"set", "try"} /\ trans' \in TransType
        /\ trans'.kind = trans.kind /\ trans.next = 1 /\ trans'.next = 1
    BY <1>2, SetOneIs DEF IInv, PhaseInv
  <2>3. c \in Ctrl /\ v \in Int /\ Stored(f, v) \in Values
    BY FieldIs, StoredIsValue DEF Zero
  <2>4. /\ current \in [Field -> Values] /\ backup \in [Field -> Values]
        /\ device \in [Field -> Values] /\ spoiled \in BOOLEAN /\ aside \subseteq Ctrl
        /\ loaded \in [Ctrl -> BOOLEAN] /\ dirty \in [Ctrl -> BOOLEAN]
        /\ modified \in [Ctrl -> BOOLEAN] /\ TypeOK
    BY DEF IInv, TypeOK
  <2>5. /\ Before(f) \in [Field -> Values]
        /\ \A g \in Field : ControlOf(g) # c => Before(f)[g] = current[g]
        /\ loaded[c] => Before(f) = current
        /\ ~loaded[c] /\ ~SpansControl(f) /\ Has(c, "GET_CUR") =>
             \A g \in Field : ControlOf(g) = c => Before(f)[g] = device[g]
    BY <2>4, BeforeIs
  <2>6. /\ current' \in [Field -> Values]
        /\ \A g \in Field : ControlOf(g) # c => current'[g] = current[g]
    BY <2>1, <2>3, <2>5 DEF Sets
  <2>7. /\ backup' \in [Field -> Values]
        /\ \A g \in Field : backup'[g] = IF ~dirty[c] /\ ControlOf(g) = c THEN Before(f)[g]
                                         ELSE backup[g]
    <3>1. CASE dirty[c]
      BY <2>1, <2>4, <3>1 DEF Sets
    <3>2. CASE ~dirty[c]
      BY <2>1, <2>4, <2>5, <3>2, CopiedIs DEF Sets
    <3> QED BY <3>1, <3>2
  <2>8. /\ loaded' \in [Ctrl -> BOOLEAN] /\ dirty' \in [Ctrl -> BOOLEAN]
        /\ modified' \in [Ctrl -> BOOLEAN]
        /\ loaded'[c] = (loaded[c] \/ ~SpansControl(f)) /\ dirty'[c] /\ modified'[c]
        /\ \A d \in Ctrl \ {c} :
             loaded'[d] = loaded[d] /\ dirty'[d] = dirty[d] /\ modified'[d] = modified[d]
    BY <2>1, <2>3, <2>4 DEF Sets
  <2>9. Has(c, "SET_CUR") /\ UNCHANGED <<device, answer, spoiled, aside>>
    BY <2>1 DEF Sets
  <2> HIDE DEF c
  <2>10. TypeOK'
    BY <2>2, <2>4, <2>6, <2>7, <2>8, <2>9 DEF TypeOK
  <2>11. PhaseInv'
    <3>1. /\ trans.set \in Nat /\ Len(trans.asked) \in Nat /\ trans.set + 1 \in 1 .. Len(trans.asked)
          /\ trans'.set = trans.set + 1 /\ trans'.asked = trans.asked
          /\ trans'.stage = IF trans.set + 1 # Len(trans.asked) THEN "set"
                            ELSE IF trans.kind = "set" THEN "commit" ELSE "rollback"
      BY <1>2, <2>2, SetOneIs, TransIs DEF IInv
    <3> QED BY <2>2, <3>1 DEF PhaseInv
  <2>12. DirtyInv'
    <3>1. Done' = {}
      BY <2>2 DEF Done
    <3>2. \A d \in Ctrl : (dirty'[d] => modified'[d]) /\ (modified'[d] => Has(d, "SET_CUR"))
      BY <2>8, <2>9 DEF IInv, DirtyInv
    <3>3. \A g \in Field : ~modified'[ControlOf(g)] /\ ~SelfSet(g) => device'[g] = Factory
      BY <2>8, <2>9, FieldIs DEF IInv, DirtyInv
    <3>4. ASSUME ~spoiled, NEW g \in Field, dirty'[ControlOf(g)], ~loaded'[ControlOf(g)]
          PROVE  SpansControl(g)
      <4>1. CASE ControlOf(g) = c
        <5>1. SpansControl(f)
          BY <2>8, <3>4, <4>1
        <5> QED BY <4>1, <5>1, FieldsShare DEF c
      <4>2. CASE ControlOf(g) # c
        BY <2>2, <2>8, <3>4, <4>2, FieldIs DEF IInv, DirtyInv
      <4> QED BY <4>1, <4>2
    <3> QED BY <2>2, <2>9, <3>1, <3>2, <3>3, <3>4 DEF DirtyInv
  <2>13. CacheInv'
    <3> SUFFICES ASSUME ~spoiled, NEW g \in Field, ~SelfSet(g), loaded'[ControlOf(g)]
                 PROVE  IF ~dirty'[ControlOf(g)] THEN current'[g] = device[g]
                        ELSE Has(ControlOf(g), "GET_CUR") /\ trans'.kind # "resume" =>
                               backup'[g] = device[g]
      BY <2>9 DEF CacheInv
    <3>1. CASE ControlOf(g) # c
      BY <2>2, <2>6, <2>7, <2>8, <3>1, FieldIs DEF IInv, CacheInv
    <3>2. CASE ControlOf(g) = c
      <4> SUFFICES ASSUME Has(c, "GET_CUR") PROVE backup'[g] = device[g]
        BY <2>8, <3>2
      <4>1. CASE dirty[c]
        <5>1. loaded[c]
          <6> SUFFICES ASSUME ~loaded[c] PROVE FALSE
            OBVIOUS
          <6>1. SpansControl(f) /\ SpansControl(g)
            BY <2>2, <3>2, <4>1 DEF IInv, DirtyInv, c
          <6> QED BY <2>8, <3>2, <6>1
        <5> QED BY <2>2, <2>7, <3>2, <4>1, <5>1 DEF IInv, CacheInv
      <4>2. CASE ~dirty[c] /\ loaded[c]
        BY <2>5, <2>7, <3>2, <4>2 DEF IInv, CacheInv
      <4>3. CASE ~dirty[c] /\ ~loaded[c]
        BY <2>5, <2>7, <2>8, <3>2, <4>3
      <4> QED BY <4>1, <4>2, <4>3
    <3> QED BY <3>1, <3>2
  <2> QED BY <2>10, <2>11, <2>12, <2>13 DEF IInv
<1> QED BY <1>1, <1>2

\* One control is committed or falls back; the transaction goes on, or fails.
GoesOn ==
  /\ trans' \in TransType /\ trans' # Free /\ trans'.kind = trans.kind
  /\ trans'.stage = trans.stage /\ trans'.asked = trans.asked /\ trans'.set = trans.set
  /\ trans'.moved = trans.moved /\ trans'.begun = trans.begun /\ trans'.aside = trans.aside
  /\ trans'.next = trans.next + 1

LEMMA CommitOneIs ==
  ASSUME IInv, CommitOne, NEW c, c = Ctrls[trans.next]
  PROVE  /\ trans # Free /\ trans.stage # "set" /\ trans.next \in 1 .. Len(Ctrls) /\ c \in Ctrl
         /\ UNCHANGED <<backup, modified>> /\ aside' = aside \ {c}
         /\ loaded' \in [Ctrl -> BOOLEAN] /\ dirty' \in [Ctrl -> BOOLEAN] /\ ~dirty'[c]
         /\ loaded'[c] => loaded[c] /\ Has(c, "GET_CUR") /\ ~Has(c, "AUTO_UPDATE")
         /\ \A d \in Ctrl \ {c} : loaded'[d] = loaded[d] /\ dirty'[d] = dirty[d]
         /\ \/ /\ dirty[c] => trans.stage = "commit"
               /\ device' = IF dirty[c] THEN Copied(device, current, c) ELSE device
               /\ GoesOn
               /\ UNCHANGED <<current, answer, spoiled>>
            \/ /\ dirty[c] /\ trans.stage # "commit"
               /\ current' = FallenBack(c)
               /\ GoesOn
               /\ UNCHANGED <<device, answer, spoiled>>
            \/ /\ dirty[c] /\ trans.stage = "commit"
               /\ current' = FallenBack(c)
               /\ trans' = Free /\ answer' = [kind |-> "error"]
               /\ spoiled' = (spoiled \/ trans.kind = "resume" \/ \E d \in Ctrl \ {c} : dirty[d])
               /\ UNCHANGED device
<1> DEFINE on == [trans EXCEPT !.next = @ + 1]
<1>1. /\ trans # Free /\ trans.stage # "set" /\ trans.next <= Len(Ctrls)
      /\ loaded' = [loaded EXCEPT ![c] = KeptLoaded(c)]
      /\ dirty' = [dirty EXCEPT ![c] = FALSE]
      /\ UNCHANGED <<backup, modified>> /\ aside' = aside \ {c}
  BY DEF CommitOne
<1>2. \/ /\ dirty[c] => trans.stage = "commit"
         /\ device' = IF dirty[c] THEN Copied(device, current, c) ELSE device
         /\ trans' = on
         /\ UNCHANGED <<current, answer, spoiled>>
      \/ /\ dirty[c] /\ trans.stage # "commit"
         /\ current' = FallenBack(c)
         /\ trans' = on
         /\ UNCHANGED <<device, answer, spoiled>>
      \/ /\ dirty[c] /\ trans.stage = "commit"
         /\ current' = FallenBack(c)
         /\ trans' = Free /\ answer' = [kind |-> "error"]
         /\ spoiled' = (spoiled \/ trans.kind = "resume" \/ \E d \in Ctrl \ {c} : dirty[d])
         /\ UNCHANGED device
  BY DEF CommitOne
<1>3. /\ trans \in TransType /\ trans.kind \in {"set", "try", "get", "resume"}
      /\ trans.next \in 1 .. Len(Ctrls) /\ trans.next + 1 \in 1 .. Len(Ctrls) + 1
  <2>1. trans \in TransType /\ trans.kind \in {"set", "try", "get", "resume"}
        /\ trans.next \in 1 .. Len(Ctrls) + 1
    BY <1>1, TransIs DEF IInv
  <2> QED BY <1>1, <2>1, LenOfCtrls
<1>4. c \in Ctrl
  BY <1>3, CtrlIs
<1>5. trans' = on => GoesOn
  <2> SUFFICES ASSUME trans' = on PROVE GoesOn
    OBVIOUS
  <2>1. trans' \in TransType
    BY <1>3 DEF TransType
  <2>2. /\ trans'.kind = trans.kind /\ trans'.stage = trans.stage /\ trans'.asked = trans.asked
        /\ trans'.set = trans.set /\ trans'.moved = trans.moved /\ trans'.begun = trans.begun
        /\ trans'.aside = trans.aside /\ trans'.next = trans.next + 1
    BY <1>3 DEF TransType
  <2>3. trans' # Free
    BY <1>3, <2>2 DEF Free
  <2> QED BY <2>1, <2>2, <2>3 DEF GoesOn
<1>6. loaded \in [Ctrl -> BOOLEAN] /\ dirty \in [Ctrl -> BOOLEAN]
  BY DEF IInv, TypeOK
<1> HIDE DEF on
<1>7. KeptLoaded(c) \in BOOLEAN
      /\ (KeptLoaded(c) => loaded[c] /\ Has(c, "GET_CUR") /\ ~Has(c, "AUTO_UPDATE"))
  BY <1>4, <1>6 DEF KeptLoaded
<1>8. /\ loaded' \in [Ctrl -> BOOLEAN] /\ dirty' \in [Ctrl -> BOOLEAN]
      /\ loaded'[c] = KeptLoaded(c) /\ ~dirty'[c]
      /\ \A d \in Ctrl \ {c} : loaded'[d] = loaded[d] /\ dirty'[d] = dirty[d]
  BY <1>1, <1>4, <1>6, <1>7
<1> QED BY <1>1, <1>2, <1>3, <1>4, <1>5, <1>7, <1>8

LEMMA DoneGrows ==
  ASSUME trans.next \in 1 .. Len(Ctrls), GoesOn
  PROVE  Done' = Done \cup {Ctrls[trans.next]}
<1>1. trans'.next - 1 = trans.next
  BY LenOfCtrls DEF GoesOn
<1>2. \A i : i \in 1 .. trans.next <=> i \in 1 .. trans.next - 1 \/ i = trans.next
  OBVIOUS
<1> QED BY <1>1, <1>2 DEF Done

LEMMA CommitOneKeeps ==
  ASSUME IInv, CommitOne
  PROVE  IInv'
<1> DEFINE c == Ctrls[trans.next]
<1>1. /\ trans # Free /\ trans.stage # "set" /\ trans.next \in 1 .. Len(Ctrls) /\ c \in Ctrl
      /\ UNCHANGED <<backup, modified>> /\ aside' = aside \ {c}
  BY CommitOneIs
<1>2. \/ /\ dirty[c] => trans.stage = "commit"
         /\ device' = IF dirty[c] THEN Copied(device, current, c) ELSE device
         /\ GoesOn
         /\ UNCHANGED <<current, answer, spoiled>>
      \/ /\ dirty[c] /\ trans.stage # "commit"
         /\ current' = FallenBack(c)
         /\ GoesOn
         /\ UNCHANGED <<device, answer, spoiled>>
      \/ /\ dirty[c] /\ trans.stage = "commit"
         /\ current' = FallenBack(c)
         /\ trans' = Free
         /\ spoiled' = (spoiled \/ trans.kind = "resume" \/ \E d \in Ctrl \ {c} : dirty[d])
         /\ UNCHANGED device
  BY CommitOneIs
<1>3. trans \in TransType /\ trans.kind \in {"set", "try", "get", "resume"}
  BY <1>1, TransIs DEF IInv
<1>4. GoesOn => trans' # Free /\ trans'.kind = trans.kind
  BY DEF GoesOn
<1>5. /\ current \in [Field -> Values] /\ backup \in [Field -> Values]
      /\ device \in [Field -> Values] /\ spoiled \in BOOLEAN /\ aside \subseteq Ctrl
      /\ loaded \in [Ctrl -> BOOLEAN] /\ dirty \in [Ctrl -> BOOLEAN]
      /\ modified \in [Ctrl -> BOOLEAN]
  BY DEF IInv, TypeOK
<1>6. /\ loaded' \in [Ctrl -> BOOLEAN] /\ dirty' \in [Ctrl -> BOOLEAN] /\ ~dirty'[c]
      /\ loaded'[c] => loaded[c] /\ Has(c, "GET_CUR") /\ ~Has(c, "AUTO_UPDATE")
      /\ \A d \in Ctrl \ {c} : loaded'[d] = loaded[d] /\ dirty'[d] = dirty[d]
  BY CommitOneIs
<1>10. GoesOn => Done' = Done \cup {c}
  BY <1>1, DoneGrows
<1> HIDE DEF c
<1>7. /\ Copied(device, current, c) \in [Field -> Values]
      /\ \A f \in Field : Copied(device, current, c)[f] =
                            IF ControlOf(f) = c THEN current[f] ELSE device[f]
      /\ FallenBack(c) \in [Field -> Values]
      /\ \A f \in Field : FallenBack(c)[f] = IF ControlOf(f) = c THEN backup[f] ELSE current[f]
  BY <1>5, CopiedIs DEF FallenBack
<1>8. TypeOK'
  BY <1>1, <1>2, <1>5, <1>6, <1>7 DEF TypeOK, GoesOn
<1>9. PhaseInv'
  BY <1>1, <1>2, <1>3 DEF IInv, PhaseInv, GoesOn
<1>11. GoesOn \/ trans' = Free
  BY <1>2
<1>12. ~spoiled' => ~spoiled
  BY <1>2
<1>13. DirtyInv'
  <2>1. \A d \in Ctrl : (dirty'[d] => modified'[d]) /\ (modified'[d] => Has(d, "SET_CUR"))
    BY <1>1, <1>6 DEF IInv, DirtyInv
  <2>2. ASSUME NEW f \in Field, ~modified'[ControlOf(f)], ~SelfSet(f)
        PROVE  device'[f] = Factory
    <3>1. ~dirty[ControlOf(f)] /\ device[f] = Factory
      BY <1>1, <2>2, FieldIs DEF IInv, DirtyInv
    <3> QED BY <1>2, <1>7, <3>1
  <2>3. ASSUME trans' # Free, NEW d \in Done' PROVE ~dirty'[d]
    <3>1. d \in Done \/ d = c
      BY <1>10, <1>11, <2>3
    <3>2. d \in Done => ~dirty[d] /\ d \in Ctrl
      BY <1>1, <1>3, CtrlIs, LenOfCtrls DEF IInv, DirtyInv, Done
    <3> QED BY <1>6, <3>1, <3>2
  <2>4. ASSUME ~spoiled', trans'.kind \in {"none", "get"}, NEW d \in Ctrl PROVE ~dirty'[d]
    <3>1. CASE GoesOn
      BY <1>4, <1>6, <1>12, <2>4, <3>1 DEF IInv, DirtyInv
    <3>2. CASE trans' = Free
      <4>1. \A e \in Ctrl \ {c} : ~dirty[e]
        BY <1>4, <1>2, <2>4, <3>2
      <4> QED BY <1>6, <4>1
    <3> QED BY <1>11, <3>1, <3>2
  <2>5. ASSUME ~spoiled', trans'.kind \in {"set", "try"}, NEW f \in Field,
               dirty'[ControlOf(f)], ~loaded'[ControlOf(f)]
        PROVE  SpansControl(f)
    <3>1. GoesOn
      BY <1>11, <2>5, FreeIs
    <3>2. ControlOf(f) # c /\ dirty[ControlOf(f)] /\ ~loaded[ControlOf(f)]
      BY <1>6, <2>5, FieldIs
    <3> QED BY <1>4, <1>12, <2>5, <3>1, <3>2 DEF IInv, DirtyInv
  <2> QED BY <2>1, <2>2, <2>3, <2>4, <2>5 DEF DirtyInv
<1>14. CacheInv'
  <2> SUFFICES ASSUME ~spoiled', NEW f \in Field, ~SelfSet(f), loaded'[ControlOf(f)]
               PROVE  IF ~dirty'[ControlOf(f)] THEN current'[f] = device'[f]
                      ELSE Has(ControlOf(f), "GET_CUR") /\ trans'.kind # "resume" =>
                             backup'[f] = device'[f]
    BY DEF CacheInv
  <2>1. CASE ControlOf(f) = c
    <3>1. loaded[c] /\ Has(c, "GET_CUR")
      BY <1>6, <2>1
    <3>2. CASE ~dirty[c]
      BY <1>2, <1>6, <1>12, <2>1, <3>1, <3>2 DEF IInv, CacheInv
    <3>3. CASE dirty[c] /\ device' = Copied(device, current, c) /\ current' = current
      BY <1>6, <1>7, <2>1, <3>3
    <3>4. CASE dirty[c] /\ trans.kind # "resume" /\ current' = FallenBack(c) /\ device' = device
      <4>1. backup[f] = device[f]
        BY <1>12, <2>1, <3>1, <3>4 DEF IInv, CacheInv
      <4> QED BY <1>6, <1>7, <2>1, <3>4, <4>1
    <3>5. trans.stage \in {"set", "commit", "rollback"}
      BY <1>1, TransIs DEF IInv
    <3>6. trans.stage # "commit" => trans.kind # "resume"
      BY <1>1, <3>5 DEF IInv, PhaseInv
    <3> QED BY <1>2, <3>2, <3>3, <3>4, <3>6
  <2>2. CASE ControlOf(f) # c
    <3>1. loaded[ControlOf(f)] /\ dirty'[ControlOf(f)] = dirty[ControlOf(f)]
      BY <1>6, <2>2, FieldIs
    <3>2. current'[f] = current[f] /\ device'[f] = device[f] /\ backup'[f] = backup[f]
      BY <1>1, <1>2, <1>7, <2>2
    <3>3. IF ~dirty[ControlOf(f)] THEN current[f] = device[f]
          ELSE Has(ControlOf(f), "GET_CUR") /\ trans.kind # "resume" => backup[f] = device[f]
      BY <1>12, <3>1 DEF IInv, CacheInv
    <3>4. CASE GoesOn
      BY <1>4, <3>1, <3>2, <3>3, <3>4
    <3>5. CASE trans' = Free
      <4>1. ~dirty[ControlOf(f)]
        BY <1>4, <1>2, <2>2, <3>5, FieldIs
      <4> QED BY <3>1, <3>2, <3>3, <4>1
    <3> QED BY <1>11, <3>4, <3>5
  <2> QED BY <2>1, <2>2
<1> QED BY <1>8, <1>9, <1>13, <1>14 DEF IInv

\* The camera changes one field, and a transaction takes note of it.
Notes(f, v) ==
  /\ SelfSet(f) /\ device' = [device EXCEPT ![f] = v]
  /\ UNCHANGED <<cacheVars, answer, spoiled, aside>>
  /\ trans = Free => trans' = Free
  /\ trans # Free =>
       /\ trans' \in TransType /\ trans'.kind = trans.kind
       /\ trans'.stage = trans.stage /\ trans'.next = trans.next
       /\ trans'.set = trans.set /\ trans'.asked = trans.asked /\ trans'.aside = trans.aside
       /\ trans'.begun = [trans.begun EXCEPT ![f] = v]
       /\ trans.kind = "set" => trans'.moved = trans.moved \cup {ControlOf(f)}

LEMMA AdjustsIs ==
  ASSUME IInv, CameraAdjusts
  PROVE  \E f \in Field, v \in Values : Notes(f, v)
<1>1. PICK f \in Field, v \in Values :
        /\ Has(ControlOf(f), "AUTO_UPDATE")
        /\ device' = [device EXCEPT ![f] = v]
        /\ trans' =
             CASE trans = Free -> Free
               [] trans.kind = "set" ->
                    [trans EXCEPT !.moved = @ \cup {ControlOf(f)}, !.begun[f] = v]
               [] OTHER -> [trans EXCEPT !.begun[f] = v]
  BY DEF CameraAdjusts
<1>2. UNCHANGED <<cacheVars, answer, spoiled, aside>>
  BY DEF CameraAdjusts, history
<1>3. trans = Free => trans' = Free
  BY <1>1, FreeIs
<1>4. ASSUME trans # Free
      PROVE  /\ trans' \in TransType /\ trans'.kind = trans.kind
             /\ trans'.stage = trans.stage /\ trans'.next = trans.next
             /\ trans'.set = trans.set /\ trans'.asked = trans.asked
             /\ trans'.aside = trans.aside
             /\ trans'.begun = [trans.begun EXCEPT ![f] = v]
             /\ trans.kind = "set" => trans'.moved = trans.moved \cup {ControlOf(f)}
  <2>1. trans \in TransType /\ ControlOf(f) \in Ctrl
    BY <1>4, TransIs, FieldIs DEF IInv
  <2>2. [trans.begun EXCEPT ![f] = v] \in [Field -> Values]
    BY <1>4, TransIs DEF IInv
  <2>3. CASE trans.kind = "set"
    <3>1. trans' = [trans EXCEPT !.moved = @ \cup {ControlOf(f)}, !.begun[f] = v]
      BY <1>1, <1>4, <2>3
    <3> QED BY <2>1, <2>2, <2>3, <3>1 DEF TransType
  <2>4. CASE trans.kind # "set"
    <3>1. trans' = [trans EXCEPT !.begun[f] = v]
      BY <1>1, <1>4, <2>4
    <3> QED BY <2>1, <2>2, <2>4, <3>1 DEF TransType
  <2> QED BY <2>3, <2>4
<1>5. Notes(f, v)
  BY <1>1, <1>2, <1>3, <1>4 DEF Notes, SelfSet
<1> QED BY <1>5

LEMMA AdjustsKeeps ==
  ASSUME IInv, CameraAdjusts
  PROVE  IInv'
<1>1. PICK f \in Field, v \in Values : Notes(f, v)
  BY AdjustsIs
<1>2. UNCHANGED <<cacheVars, answer, spoiled, aside>>
  BY <1>1 DEF Notes
<1>3. /\ device' \in [Field -> Values]
      /\ \A g \in Field : ~SelfSet(g) => device'[g] = device[g]
  BY <1>1 DEF IInv, TypeOK, Notes
<1>4. trans = Free => trans' = Free
  BY <1>1 DEF Notes
<1>5. trans # Free => /\ trans' \in TransType /\ trans'.kind = trans.kind
                      /\ trans'.stage = trans.stage /\ trans'.next = trans.next
                      /\ trans'.set = trans.set /\ trans'.asked = trans.asked
  BY <1>1 DEF Notes
<1>6. TypeOK'
  BY <1>2, <1>3, <1>4, <1>5 DEF IInv, TypeOK, cacheVars
<1>7. PhaseInv'
  BY <1>4, <1>5 DEF IInv, PhaseInv
<1>8. trans # Free => Done' = Done
  BY <1>5 DEF Done
<1>9. trans'.kind = trans.kind
  BY <1>4, <1>5
<1>10. DirtyInv'
  BY <1>2, <1>3, <1>4, <1>8, <1>9 DEF IInv, DirtyInv, cacheVars
<1>11. CacheInv'
  BY <1>2, <1>3, <1>9 DEF IInv, CacheInv, cacheVars
<1> QED BY <1>6, <1>7, <1>10, <1>11 DEF IInv

LEMMA ResetKeeps ==
  ASSUME IInv, ResetResume
  PROVE  IInv'
<1>1. /\ trans = Free
      /\ trans' = [Trans("resume", <<>>) EXCEPT !.stage = "commit", !.begun = device']
      /\ device' = [f \in Field |-> Factory]
      /\ dirty' = [c \in Ctrl |-> dirty[c] \/ ToRestore(c)]
      /\ UNCHANGED <<current, backup, loaded, modified, spoiled, aside>>
  BY DEF ResetResume, history
<1>2. /\ device' \in [Field -> Values] /\ aside \subseteq Ctrl /\ modified \in [Ctrl -> BOOLEAN]
      /\ dirty \in [Ctrl -> BOOLEAN]
  BY <1>1, ValuesAre DEF IInv, TypeOK
<1>3. /\ trans'.kind = "resume" /\ trans'.stage = "commit" /\ trans'.next = 1
      /\ trans'.set = 0 /\ trans'.asked = <<>>
  BY <1>1 DEF Trans
<1>4. trans' \in TransType
  <2>1. 1 \in 1 .. Len(Ctrls) + 1 /\ <<>> \in Seq(Entry)
    BY LenOfCtrls
  <2> QED BY <1>1, <1>2, <2>1 DEF Trans, TransType
<1>5. dirty' \in [Ctrl -> BOOLEAN]
  BY <1>1, <1>2 DEF ToRestore
<1>6. TypeOK'
  BY <1>1, <1>2, <1>4, <1>5 DEF IInv, TypeOK
<1>7. PhaseInv'
  BY <1>3 DEF PhaseInv
<1>8. Done' = {}
  BY <1>3 DEF Done
<1>9. DirtyInv'
  BY <1>1, <1>3, <1>8 DEF IInv, DirtyInv, ToRestore
<1>10. CacheInv'
  <2> SUFFICES ASSUME ~spoiled, NEW f \in Field, ~SelfSet(f), loaded[ControlOf(f)],
                      ~dirty'[ControlOf(f)]
               PROVE  current[f] = device'[f]
    BY <1>1, <1>3 DEF CacheInv
  <2> DEFINE c == ControlOf(f)
  <2>1. c \in Ctrl /\ ~dirty[c] /\ ~ToRestore(c)
    BY <1>1, FieldIs
  <2>2. ~modified[c]
    <3>1. modified[c] => Has(c, "SET_CUR")
      BY <2>1 DEF IInv, DirtyInv
    <3>2. ~Has(c, "AUTO_UPDATE")
      BY DEF SelfSet
    <3> QED BY <2>1, <3>1, <3>2, Restorable DEF ToRestore
  <2>3. current[f] = device[f] /\ device[f] = Factory
    BY <2>1, <2>2 DEF IInv, CacheInv, DirtyInv
  <2> QED BY <1>1, <2>3
<1> QED BY <1>6, <1>7, <1>9, <1>10 DEF IInv

LEMMA SetCtrlsIs ==
  ASSUME SetCtrls
  PROVE  \E kind \in {"set", "try"}, asked \in Seq(Entry) :
           Len(asked) >= 1 /\ Begin(kind, asked)
<1>1. PICK n \in 1 .. Steps : \E asked \in [1 .. n -> Request] :
        Begin("set", asked) \/ Begin("try", asked)
  BY DEF SetCtrls
<1>2. PICK asked \in [1 .. n -> Request] : Begin("set", asked) \/ Begin("try", asked)
  BY <1>1
<1>3. n \in Nat /\ n >= 1
  OBVIOUS
<1>4. asked \in [1 .. n -> Entry]
  BY DEF Request, Entry, Named
<1>5. asked \in Seq(Entry) /\ Len(asked) = n
  BY <1>3, <1>4, SeqDef, LenProperties
<1> QED BY <1>2, <1>3, <1>5

LEMMA GetCtrlIs ==
  ASSUME GetCtrl
  PROVE  \E asked \in Seq(Entry) : Len(asked) >= 1 /\ Begin("get", asked)
<1>1. PICK f \in Field : Begin("get", <<[field |-> f, value |-> Zero]>>)
  BY DEF GetCtrl, Named
<1>2. [field |-> f, value |-> Zero] \in Entry
  BY DEF Entry
<1>3. <<[field |-> f, value |-> Zero]>> \in Seq(Entry)
      /\ Len(<<[field |-> f, value |-> Zero]>>) >= 1
  BY <1>2
<1> QED BY <1>1, <1>3

LEMMA InvStep == IInv /\ [Next]_vars => IInv'
<1> SUFFICES ASSUME IInv, [Next]_vars PROVE IInv'
  OBVIOUS
<1>1. CASE SetCtrls
  BY <1>1, SetCtrlsIs, BeginKeeps
<1>2. CASE GetCtrl
  BY <1>2, GetCtrlIs, BeginKeeps
<1>3. CASE ReadOne
  BY <1>3, ReadOneKeeps
<1>4. CASE SetOne
  BY <1>4, SetOneKeeps
<1>5. CASE CommitOne
  BY <1>5, CommitOneKeeps
<1>6. CASE EndTrans
  BY <1>6, EndKeeps
<1>7. CASE QueryCtrl
  BY <1>7, QueryKeeps
<1>8. CASE CameraAdjusts
  BY <1>8, AdjustsKeeps
<1>9. CASE ResetResume
  BY <1>9, ResetKeeps
<1>10. CASE UNCHANGED vars
  <2>1. /\ UNCHANGED <<device, current, backup, loaded, dirty, modified>>
        /\ UNCHANGED <<trans, answer, spoiled, aside>>
    BY <1>10 DEF vars, cacheVars, history
  <2>2. TypeOK' /\ PhaseInv'
    BY <2>1 DEF IInv, TypeOK, PhaseInv
  <2>3. Done' = Done
    BY <2>1 DEF Done
  <2>4. DirtyInv' /\ CacheInv'
    BY <2>1, <2>3 DEF IInv, DirtyInv, CacheInv
  <2> QED BY <2>2, <2>4 DEF IInv
<1> QED
  BY <1>1, <1>2, <1>3, <1>4, <1>5, <1>6, <1>7, <1>8, <1>9, <1>10 DEF Next

\* The invariant holds of every camera.
THEOREM Invariant == Spec => []IInv
BY InvInit, InvStep, PTL DEF Spec

\* The cache has a value for every field, and a transaction is well-formed.
\* (struct uvc_control, uvc_ctrl_begin.)
THEOREM TypeCorrect == Spec => []TypeOK
<1>1. IInv => TypeOK
  BY DEF IInv
<1> QED BY <1>1, Invariant, PTL

\* What the cache keeps is what the camera holds, while no transaction runs, until
\* a commit has been refused before it came to all: of every camera, whatever it
\* refuses and changes.  (uvc_ctrl_commit_entity, uvc_ctrl_set.)
THEOREM CacheHolds == Spec => []CacheIsTrue
<1>1. IInv => CacheIsTrue
  <2> SUFFICES ASSUME IInv, trans = Free, ~spoiled, NEW f \in Field,
                      loaded[ControlOf(f)], ~Has(ControlOf(f), "AUTO_UPDATE")
               PROVE  current[f] = device[f]
    BY DEF CacheIsTrue
  <2>1. ~dirty[ControlOf(f)]
    BY FieldIs, FreeIs DEF IInv, DirtyInv
  <2> QED BY <2>1 DEF IInv, CacheInv, SelfSet
<1> QED BY <1>1, Invariant, PTL

-----------------------------------------------------------------------------
\* What changes by itself is kept by the transaction that reads it, and where an
\* event or a query has left it.
LEMMA ReadInit == Init => ReadInv
BY FieldIs DEF Init, ReadInv, ReadIsTrue, NoAnswer

\* Where no reading is under way only what is dirty, or put aside.
LEMMA AutoKept ==
  ASSUME ReadInv, ~spoiled, trans.kind # "get" \/ trans.stage # "rollback",
         NEW f \in Field, SelfSet(f), loaded[ControlOf(f)]
  PROVE  dirty[ControlOf(f)] \/ ControlOf(f) \in aside
BY DEF ReadInv

LEMMA BeginReads ==
  ASSUME ReadInv, NEW kind, NEW asked, Begin(kind, asked)
  PROVE  ReadInv'
<1>1. trans.kind = "none" /\ answer' = NoAnswer /\ UNCHANGED <<loaded, dirty, spoiled, aside>>
  BY FreeIs DEF Begin, cacheVars, history
<1> QED BY <1>1, AutoKept DEF ReadInv, ReadIsTrue, NoAnswer

LEMMA RefusedReads ==
  ASSUME ReadInv, trans.stage = "set", Refused
  PROVE  ReadInv'
<1>1. answer'.kind = "error" /\ UNCHANGED <<loaded, dirty, spoiled, aside>>
  BY DEF Refused, cacheVars, history
<1> QED BY <1>1, AutoKept DEF ReadInv, ReadIsTrue

LEMMA ReadOneReads ==
  ASSUME IInv, ReadInv, ReadOne
  PROVE  ReadInv'
<1>1. trans # Free /\ trans.kind = "get" /\ trans.stage = "set"
  BY FreeIs DEF ReadOne
<1>2. CASE Refused
  BY <1>1, <1>2, RefusedReads
<1>3. CASE ~Refused
  <2> DEFINE f == trans.asked[1].field
             c == ControlOf(f)
  <2>1. /\ current' = Refreshed(c) /\ loaded' = [loaded EXCEPT ![c] = TRUE]
        /\ trans' = [trans EXCEPT !.stage = "rollback"]
        /\ answer' = [kind |-> "value", field |-> f, aside |-> c \in aside,
                      right |-> current'[f] = device[f]]
        /\ UNCHANGED <<device, dirty, spoiled, aside>>
    BY <1>3 DEF ReadOne, history
  <2>2. /\ trans \in TransType /\ trans.next = 1 /\ trans.asked \in Seq(Entry)
        /\ 1 \in 1 .. Len(trans.asked)
    <3>1. /\ trans \in TransType /\ trans.next = 1 /\ trans.asked \in Seq(Entry)
          /\ trans.set \in Nat /\ Len(trans.asked) \in Nat /\ trans.set < Len(trans.asked)
      BY <1>1, TransIs DEF IInv, PhaseInv
    <3> QED BY <3>1
  <2>3. trans.asked[1] \in Entry
    BY <2>2, ElementOfSeq
  <2>4. f \in Field /\ c \in Ctrl
    BY <2>3, FieldIs DEF Entry
  <2>5. trans'.kind = "get" /\ trans'.stage = "rollback" /\ trans'.next = 1
    BY <1>1, <2>1, <2>2 DEF TransType
  <2>6. Done' = {}
    BY <2>5 DEF Done
  <2> HIDE DEF f, c
  <2>7. ~spoiled /\ c \notin aside => current'[f] = device[f]
    <3> SUFFICES ASSUME ~spoiled, c \notin aside PROVE current'[f] = device[f]
      OBVIOUS
    <3>1. CASE loaded[c]
      <4>1. ~dirty[c]
        BY <1>1, <2>4 DEF IInv, DirtyInv
      <4>2. ~SelfSet(f)
        BY <1>1, <2>4, <3>1, <4>1, AutoKept DEF c
      <4>3. current[f] = device[f]
        BY <2>4, <3>1, <4>1, <4>2 DEF IInv, CacheInv, c
      <4> QED BY <2>1, <3>1, <4>3 DEF Refreshed
    <3>2. CASE ~loaded[c]
      BY <2>1, <2>4, <3>2 DEF Refreshed, Copied, c
    <3> QED BY <3>1, <3>2
  <2>8. ReadIsTrue'
    <3>1. answer'.right = (current'[f] = device[f]) /\ answer'.aside = (c \in aside)
      BY <2>1
    <3> QED BY <2>1, <2>7, <3>1 DEF ReadIsTrue
  <2> QED BY <2>5, <2>6, <2>8 DEF ReadInv
<1> QED BY <1>2, <1>3

LEMMA SetOneReads ==
  ASSUME IInv, ReadInv, SetOne
  PROVE  ReadInv'
<1>1. trans # Free /\ trans.kind \in {"set", "try"} /\ trans.stage = "set"
  BY FreeIs DEF SetOne
<1>2. CASE Refused
  BY <1>1, <1>2, RefusedReads
<1>3. CASE ~Refused
  <2>1. PICK g \in Field, v \in Asked \cup {Zero} : Sets(g, v)
    BY <1>3, SetOneIs
  <2> DEFINE c == ControlOf(g)
  <2>2. c \in Ctrl /\ loaded \in [Ctrl -> BOOLEAN] /\ dirty \in [Ctrl -> BOOLEAN]
    BY FieldIs DEF IInv, TypeOK
  <2>3. /\ dirty'[c]
        /\ \A d \in Ctrl \ {c} : loaded'[d] = loaded[d] /\ dirty'[d] = dirty[d]
        /\ UNCHANGED <<answer, spoiled, aside>>
    BY <2>1, <2>2 DEF Sets
  <2> HIDE DEF c
  <2>4. ASSUME ~spoiled', NEW f \in Field, SelfSet(f), loaded'[ControlOf(f)]
        PROVE  dirty'[ControlOf(f)] \/ ControlOf(f) \in aside'
    <3>1. CASE ControlOf(f) = c
      BY <2>3, <3>1
    <3>2. CASE ControlOf(f) # c
      BY <1>1, <2>3, <2>4, <3>2, AutoKept, FieldIs
    <3> QED BY <3>1, <3>2
  <2> QED BY <2>3, <2>4 DEF ReadInv, ReadIsTrue
<1> QED BY <1>2, <1>3

LEMMA CommitOneReads ==
  ASSUME IInv, ReadInv, CommitOne
  PROVE  ReadInv'
<1> DEFINE c == Ctrls[trans.next]
<1>1. /\ trans.next \in 1 .. Len(Ctrls) /\ c \in Ctrl /\ (loaded'[c] => ~Has(c, "AUTO_UPDATE"))
      /\ \A d \in Ctrl \ {c} : loaded'[d] = loaded[d] /\ dirty'[d] = dirty[d]
      /\ answer' = answer \/ answer' = [kind |-> "error"]
      /\ (~spoiled' => ~spoiled) /\ aside' = aside \ {c}
      /\ GoesOn \/ (trans' = Free /\ trans.stage = "commit")
  BY CommitOneIs
<1>2. GoesOn => Done' = Done \cup {c}
  BY <1>1, DoneGrows
<1> HIDE DEF c
<1>3. ASSUME ~spoiled', NEW f \in Field, SelfSet(f), loaded'[ControlOf(f)]
      PROVE  \/ dirty'[ControlOf(f)] \/ ControlOf(f) \in aside'
             \/ trans'.kind = "get" /\ trans'.stage = "rollback" /\ ControlOf(f) \notin Done'
  <2>1. ControlOf(f) # c
    BY <1>1, <1>3 DEF SelfSet
  <2>2. loaded[ControlOf(f)] /\ dirty'[ControlOf(f)] = dirty[ControlOf(f)]
    BY <1>1, <1>3, <2>1, FieldIs
  <2>3. CASE trans.stage = "commit"
    BY <1>1, <1>3, <2>1, <2>2, <2>3, AutoKept
  <2>4. CASE trans.stage # "commit"
    <3>1. GoesOn
      BY <1>1, <2>4
    <3>2. \/ dirty[ControlOf(f)] \/ ControlOf(f) \in aside
          \/ trans.kind = "get" /\ trans.stage = "rollback" /\ ControlOf(f) \notin Done
      BY <1>1, <1>3, <2>2 DEF ReadInv
    <3> QED BY <1>1, <1>2, <2>1, <2>2, <3>1, <3>2 DEF GoesOn
  <2> QED BY <2>3, <2>4
<1> QED BY <1>1, <1>3 DEF ReadInv, ReadIsTrue

LEMMA OverhearKeeps ==
  ASSUME NEW read, Overhear(read), NEW f \in Field, SelfSet(f), loaded'[ControlOf(f)],
         loaded[ControlOf(f)] => ControlOf(f) \in aside
  PROVE  ControlOf(f) \in aside'
<1>1. loaded[ControlOf(f)] \/ ControlOf(f) \in read
  BY FieldIs DEF Overhear
<1> QED BY <1>1 DEF Overhear, SelfSet

LEMMA EndReads ==
  ASSUME IInv, ReadInv, EndTrans
  PROVE  ReadInv'
<1>1. PICK read : Overhear(read)
  BY EndIs
<1>2. \A c \in Ctrl : ~dirty[c] /\ c \in Done
  BY EndKeeps, AllDone DEF EndTrans
<1>3. UNCHANGED <<answer, spoiled>>
  BY EndIs
<1>4. ASSUME ~spoiled, NEW f \in Field, SelfSet(f), loaded'[ControlOf(f)]
      PROVE  ControlOf(f) \in aside'
  <2>1. loaded[ControlOf(f)] => ControlOf(f) \in aside
    BY <1>2, <1>4, FieldIs DEF ReadInv
  <2> QED BY <1>1, <1>4, <2>1, OverhearKeeps
<1> QED BY <1>3, <1>4 DEF ReadInv, ReadIsTrue

LEMMA QueryReads ==
  ASSUME IInv, ReadInv, QueryCtrl
  PROVE  ReadInv'
<1>1. PICK read : Overhear(read)
  BY QueryIs
<1>2. trans.kind = "none" /\ answer' = NoAnswer /\ UNCHANGED spoiled
  BY QueryIs, FreeIs
<1>3. ASSUME ~spoiled, NEW f \in Field, SelfSet(f), loaded'[ControlOf(f)]
      PROVE  ControlOf(f) \in aside'
  <2>1. ~dirty[ControlOf(f)]
    BY <1>2, <1>3, FieldIs DEF IInv, DirtyInv
  <2>2. loaded[ControlOf(f)] => ControlOf(f) \in aside
    BY <1>2, <1>3, <2>1, AutoKept
  <2> QED BY <1>1, <1>3, <2>2, OverhearKeeps
<1> QED BY <1>2, <1>3 DEF ReadInv, ReadIsTrue, NoAnswer

LEMMA OthersRead ==
  ASSUME IInv, ReadInv, CameraAdjusts \/ ResetResume \/ UNCHANGED vars
  PROVE  ReadInv'
<1>1. CASE CameraAdjusts
  <2>1. PICK f \in Field, v \in Values : Notes(f, v)
    BY <1>1, AdjustsIs
  <2>2. UNCHANGED <<answer, spoiled, aside, loaded, dirty>>
    BY <2>1 DEF Notes, cacheVars
  <2>3. trans'.kind = trans.kind /\ (trans.kind = "get" =>
          trans'.stage = trans.stage /\ trans'.next = trans.next)
    BY <2>1, FreeIs DEF Notes
  <2>4. trans.kind = "get" => Done' = Done
    BY <2>3 DEF Done
  <2> QED BY <2>2, <2>3, <2>4 DEF ReadInv, ReadIsTrue
<1>2. CASE ResetResume
  <2>1. /\ trans.kind = "none" /\ answer' = NoAnswer /\ UNCHANGED <<loaded, spoiled, aside>>
        /\ dirty' = [c \in Ctrl |-> dirty[c] \/ ToRestore(c)]
    BY <1>2, FreeIs DEF ResetResume, history
  <2> QED BY <2>1, AutoKept, FieldIs DEF ReadInv, ReadIsTrue, NoAnswer
<1>3. CASE UNCHANGED vars
  <2>1. UNCHANGED <<answer, spoiled, aside, loaded, dirty, trans>>
    BY <1>3 DEF vars, cacheVars, history
  <2> QED BY <2>1 DEF ReadInv, ReadIsTrue, Done
<1> QED BY <1>1, <1>2, <1>3

LEMMA ReadStep == IInv /\ ReadInv /\ [Next]_vars => ReadInv'
<1> SUFFICES ASSUME IInv, ReadInv, [Next]_vars PROVE ReadInv'
  OBVIOUS
<1>1. CASE SetCtrls \/ GetCtrl
  BY <1>1, SetCtrlsIs, GetCtrlIs, BeginReads
<1>2. CASE ReadOne \/ SetOne
  BY <1>2, ReadOneReads, SetOneReads
<1>3. CASE CommitOne \/ EndTrans \/ QueryCtrl
  BY <1>3, CommitOneReads, EndReads, QueryReads
<1>4. CASE CameraAdjusts \/ ResetResume \/ UNCHANGED vars
  BY <1>4, OthersRead
<1> QED BY <1>1, <1>2, <1>3, <1>4 DEF Next

\* What VIDIOC_G_CTRL returns is what the camera holds, of every camera and whoever
\* listens to events, but for a control that changes by itself whose value an event
\* or a query has left in the cache since the last transaction, and until a commit
\* has been refused before it came to all.
\* (__uvc_ctrl_get; the loaded flag that uvc_ctrl_commit_entity resets.)
THEOREM ReadsAreTrue == Spec => []ReadIsTrue
<1>1. IInv /\ ReadInv /\ [Next]_vars => ReadInv'
  BY ReadStep
<1>2. ReadInv => ReadIsTrue
  BY DEF ReadInv
<1> QED BY <1>1, <1>2, ReadInit, Invariant, PTL DEF Spec

-----------------------------------------------------------------------------
\* What one control is to have, as a program has asked so far.
Meant(asked, begun, f, n) ==
  LET places == {i \in 1 .. n : asked[i].field = f}
  IN IF places = {} THEN begun[f] ELSE Nearest(asked[Max(places)].value)

LEMMA MeantNothing ==
  ASSUME NEW asked, NEW begun, NEW f
  PROVE  Meant(asked, begun, f, 0) = begun[f]
<1>1. {i \in 1 .. 0 : asked[i].field = f} = {}
  OBVIOUS
<1> QED BY <1>1 DEF Meant

LEMMA MeantMore ==
  ASSUME NEW asked, NEW begun, NEW n \in Nat, NEW f
  PROVE  Meant(asked, begun, f, n + 1) =
           IF asked[n + 1].field = f THEN Nearest(asked[n + 1].value)
           ELSE Meant(asked, begun, f, n)
<1> DEFINE places == {i \in 1 .. n + 1 : asked[i].field = f}
<1>1. CASE asked[n + 1].field = f
  <2>1. n + 1 \in places /\ \A i \in places : i \in Int /\ n + 1 >= i
    BY <1>1
  <2>2. Max(places) = n + 1
    <3> HIDE DEF places
    <3>1. \A m \in places : (\A i \in places : m >= i) => m = n + 1
      BY <2>1
    <3> QED BY <2>1, <3>1 DEF Max
  <2>3. places # {}
    BY <2>1
  <2> HIDE DEF places
  <2>4. Meant(asked, begun, f, n + 1) =
          IF places = {} THEN begun[f] ELSE Nearest(asked[Max(places)].value)
    BY DEF Meant, places
  <2> QED BY <1>1, <2>2, <2>3, <2>4
<1>2. CASE asked[n + 1].field # f
  <2>1. places = {i \in 1 .. n : asked[i].field = f}
    BY <1>2
  <2> QED BY <1>2, <2>1 DEF Meant
<1> QED BY <1>1, <1>2

LEMMA WantedIs ==
  /\ \A f, n : Wanted(f, n) = Meant(trans.asked, trans.begun, f, n)
  /\ \A f : Wanted(f, trans.set)' = Meant(trans'.asked, trans'.begun, f, trans'.set)
BY DEF Wanted, Meant

\* Which controls the wish of a program foresees.
AskedOf(asked, n) == {asked[i].field : i \in 1 .. n}
Expected(moved, left, fields, f) ==
  LET c == ControlOf(f)
  IN /\ c \notin moved
     /\ c \in left => f \in fields \/ \A g \in fields : ControlOf(g) # c

LEMMA AskedMore ==
  ASSUME NEW asked, NEW n \in Nat
  PROVE  AskedOf(asked, n + 1) = AskedOf(asked, n) \cup {asked[n + 1].field}
<1>1. \A i : i \in 1 .. n + 1 <=> i \in 1 .. n \/ i = n + 1
  OBVIOUS
<1> QED BY <1>1 DEF AskedOf

LEMMA ForeseenIs ==
  /\ \A f, n : Foreseen(f, n) = Expected(trans.moved, trans.aside, AskedOf(trans.asked, n), f)
  /\ \A f : Foreseen(f, trans.set)' =
             Expected(trans'.moved, trans'.aside, AskedOf(trans'.asked, trans'.set), f)
BY DEF Foreseen, Expected, AskedOf

\* A set is under way.
Setting == trans.kind = "set" /\ trans.stage # "rollback" /\ ~spoiled
AskedDirty ==
  trans.kind \in {"set", "try"} /\ trans.stage = "set" /\ ~spoiled =>
    \A i \in 1 .. trans.set : dirty[ControlOf(trans.asked[i].field)]

LEMMA SetInvIs ==
  /\ SetInv = /\ trans # Free => aside \subseteq trans.aside
              /\ AskedDirty
              /\ Setting => \A f \in Field : Foreseen(f, trans.set) =>
                   Wanted(f, trans.set) = IF dirty[ControlOf(f)] THEN current[f] ELSE device[f]
  /\ SetInv' = /\ trans' # Free => aside' \subseteq trans'.aside
               /\ AskedDirty'
               /\ Setting' => \A f \in Field : Foreseen(f, trans.set)' =>
                    Wanted(f, trans.set)' =
                      IF dirty'[ControlOf(f)] THEN current'[f] ELSE device'[f]
BY DEF SetInv, Setting, AskedDirty

LEMMA SetInit == Init => SetInv
BY FreeIs DEF Init, SetInv

LEMMA BeginSets ==
  ASSUME IInv, NEW kind, NEW asked, Begin(kind, asked)
  PROVE  SetInv'
<1>1. /\ trans.kind = "none" /\ trans' = Trans(kind, asked)
      /\ UNCHANGED <<device, current, dirty, spoiled, aside>>
  BY FreeIs DEF Begin, cacheVars, history
<1>2. trans'.asked = asked /\ trans'.begun = device /\ trans'.set = 0 /\ trans'.aside = aside
  BY <1>1 DEF Trans
<1>3. ~spoiled => \A f \in Field : ~dirty[ControlOf(f)]
  BY <1>1, FieldIs DEF IInv, DirtyInv
<1>4. \A f : Wanted(f, trans.set)' = device[f]
  BY <1>2, WantedIs, MeantNothing
<1>5. AskedDirty'
  BY <1>2 DEF AskedDirty
<1>6. Setting' => \A f \in Field : Wanted(f, trans.set)' =
                    IF dirty'[ControlOf(f)] THEN current'[f] ELSE device'[f]
  BY <1>1, <1>3, <1>4 DEF Setting
<1>7. aside' \subseteq trans'.aside
  BY <1>1, <1>2
<1> QED BY <1>5, <1>6, <1>7, SetInvIs

\* What no longer sets, or is over.
LEMMA NotSetting ==
  ASSUME trans'.kind = "none" \/ trans'.stage = "rollback",
         trans' # Free => aside' \subseteq trans'.aside, trans'.kind = "none" => trans' = Free
  PROVE  SetInv'
BY SetInvIs, FreeIs DEF Setting, AskedDirty, Free

LEMMA RolledBack ==
  ASSUME IInv, SetInv, trans # Free, trans' = [trans EXCEPT !.stage = "rollback"], aside' = aside
  PROVE  SetInv'
<1>1. trans \in TransType
  BY TransIs DEF IInv
<1>2. trans'.stage = "rollback" /\ trans'.aside = trans.aside /\ trans'.kind # "none"
  BY <1>1 DEF TransType
<1> QED BY <1>2, NotSetting DEF SetInv

LEMMA SetOneSets ==
  ASSUME AskedInRange, IInv, ReadInv, SetInv, SetOne
  PROVE  SetInv'
<1>1. CASE Refused
  BY <1>1, FreeIs, RolledBack DEF SetOne, Refused, history
<1>2. CASE ~Refused
  <2>1. /\ trans # Free /\ trans.kind \in {"set", "try"} /\ trans.stage = "set"
        /\ trans'.kind = trans.kind /\ trans'.asked = trans.asked
        /\ trans'.begun = trans.begun /\ trans'.moved = trans.moved
        /\ trans'.set = trans.set + 1 /\ trans'.aside = trans.aside
    BY <1>2, SetOneIs
  <2>2. PICK f \in Field, v \in Asked \cup {Zero} :
          trans.asked[trans.set + 1] = [field |-> f, value |-> v] /\ Sets(f, v)
    BY <1>2, SetOneIs
  <2> DEFINE c == ControlOf(f)
  <2>3. c \in Ctrl /\ v \in 0 .. 7 /\ trans.set \in Nat
    BY <2>1, FieldIs, TransIs DEF AskedInRange, Word, Zero, IInv
  <2>4. Stored(f, v) = Nearest(v)
    BY <2>3, StoredIsNearest
  <2>5. trans.asked[trans.set + 1].field = f /\ trans.asked[trans.set + 1].value = v
    BY <2>2
  <2>6. \A g : Wanted(g, trans.set)' = IF f = g THEN Nearest(v) ELSE Wanted(g, trans.set)
    BY <2>1, <2>3, <2>5, WantedIs, MeantMore
  <2> DEFINE fields == AskedOf(trans.asked, trans.set)
  <2>7. \A g : Foreseen(g, trans.set)' = Expected(trans.moved, trans.aside, fields \cup {f}, g)
    BY <2>1, <2>3, <2>5, ForeseenIs, AskedMore
  <2>8. /\ loaded \in [Ctrl -> BOOLEAN] /\ dirty \in [Ctrl -> BOOLEAN]
        /\ current \in [Field -> Values] /\ TypeOK
    BY DEF IInv, TypeOK
  <2>9. /\ Before(f) \in [Field -> Values]
        /\ \A g \in Field : ControlOf(g) # c => Before(f)[g] = current[g]
        /\ loaded[c] => Before(f) = current
        /\ ~loaded[c] /\ ~SpansControl(f) /\ Has(c, "GET_CUR") =>
             \A g \in Field : ControlOf(g) = c => Before(f)[g] = device[g]
    BY <2>8, BeforeIs
  <2>10. /\ current'[f] = Stored(f, v)
         /\ \A g \in Field \ {f} : current'[g] = Before(f)[g]
         /\ dirty'[c] /\ \A d \in Ctrl \ {c} : dirty'[d] = dirty[d]
         /\ device' = device /\ spoiled' = spoiled /\ aside' = aside
    BY <2>2, <2>3, <2>8, <2>9 DEF Sets
  <2>11. aside \subseteq trans.aside
    BY <2>1 DEF SetInv
  <2>12. AskedDirty'
    <3> SUFFICES ASSUME ~spoiled, NEW i \in 1 .. trans.set + 1
                 PROVE  dirty'[ControlOf(trans.asked[i].field)]
      BY <2>1, <2>10 DEF AskedDirty
    <3>1. CASE i = trans.set + 1
      BY <2>5, <2>10, <3>1
    <3>2. CASE i # trans.set + 1
      <4>1. i \in 1 .. trans.set
        BY <2>3, <3>2
      <4>2. dirty[ControlOf(trans.asked[i].field)]
        BY <2>1, <4>1 DEF SetInv
      <4>3. trans.asked[i].field \in Field
        <5>1. trans.asked \in Seq(Entry) /\ i \in 1 .. Len(trans.asked)
          BY <1>2, <2>1, <2>3, <4>1, SetOneIs, TransIs DEF IInv
        <5>2. trans.asked[i] \in Entry
          BY <5>1, ElementOfSeq
        <5> QED BY <5>2 DEF Entry
      <4>4. ControlOf(trans.asked[i].field) \in Ctrl
        BY <4>3, FieldIs
      <4> QED BY <2>10, <4>2, <4>4
    <3> QED BY <3>1, <3>2
  <2> HIDE DEF c
  <2>13. ASSUME trans.kind = "set", ~spoiled, NEW g \in Field,
                Expected(trans.moved, trans.aside, fields \cup {f}, g)
         PROVE  Wanted(g, trans.set)' = IF dirty'[ControlOf(g)] THEN current'[g] ELSE device[g]
    <3>1. CASE g = f
      BY <2>4, <2>6, <2>10, <3>1 DEF c
    <3>2. CASE g # f
      <4>1. /\ Expected(trans.moved, trans.aside, fields, g)
            /\ ControlOf(g) = c => ControlOf(g) \notin trans.aside \/ g \in fields
        <5> HIDE DEF fields
        <5> QED BY <2>13, <3>2 DEF Expected, c
      <4>2. Wanted(g, trans.set) = IF dirty[ControlOf(g)] THEN current[g] ELSE device[g]
        BY <2>1, <2>13, <4>1, ForeseenIs, SetInvIs DEF Setting
      <4>3. CASE ControlOf(g) # c
        BY <2>6, <2>9, <2>10, <3>2, <4>2, <4>3, FieldIs
      <4>4. CASE ControlOf(g) = c
        <5>1. ~SpansControl(f) /\ Has(c, "GET_CUR")
          BY <3>2, <4>4, FieldsShare DEF c
        <5>2. CASE dirty[c] /\ loaded[c]
          BY <2>6, <2>9, <2>10, <3>2, <4>2, <4>4, <5>2
        <5>3. CASE dirty[c] /\ ~loaded[c]
          BY <2>1, <2>13, <5>1, <5>3 DEF IInv, DirtyInv, c
        <5>4. CASE ~dirty[c] /\ loaded[c]
          <6>1. g \notin fields
            <7> SUFFICES ASSUME g \in fields PROVE FALSE
              OBVIOUS
            <7>1. PICK i \in 1 .. trans.set : g = trans.asked[i].field
              BY DEF AskedOf
            <7>2. dirty[ControlOf(trans.asked[i].field)]
              BY <2>1, <2>13 DEF SetInv
            <7> QED BY <4>4, <5>4, <7>1, <7>2
          <6>2. c \notin aside
            BY <2>11, <4>1, <4>4, <6>1
          <6>3. ~SelfSet(g)
            BY <2>1, <2>13, <4>4, <5>4, <6>2, AutoKept
          <6>4. current[g] = device[g]
            BY <2>13, <4>4, <5>4, <6>3 DEF IInv, CacheInv
          <6> QED BY <2>6, <2>9, <2>10, <3>2, <4>2, <4>4, <5>4, <6>4
        <5>5. CASE ~dirty[c] /\ ~loaded[c]
          BY <2>6, <2>9, <2>10, <3>2, <4>2, <4>4, <5>1, <5>5
        <5> QED BY <5>2, <5>3, <5>4, <5>5
      <4> QED BY <4>3, <4>4
    <3> QED BY <3>1, <3>2
  <2> HIDE DEF fields
  <2>14. Setting' => trans.kind = "set" /\ ~spoiled
    BY <2>1, <2>10 DEF Setting
  <2> QED BY <2>1, <2>7, <2>10, <2>11, <2>12, <2>13, <2>14, SetInvIs
<1> QED BY <1>1, <1>2

LEMMA CommitOneSets ==
  ASSUME IInv, SetInv, CommitOne
  PROVE  SetInv'
<1> DEFINE c == Ctrls[trans.next]
<1>1. /\ c \in Ctrl /\ ~dirty'[c] /\ trans # Free /\ trans.stage # "set"
      /\ \A d \in Ctrl \ {c} : dirty'[d] = dirty[d]
      /\ aside' = aside \ {c}
  BY CommitOneIs
<1>2. \/ /\ device' = IF dirty[c] THEN Copied(device, current, c) ELSE device
         /\ GoesOn
         /\ UNCHANGED <<current, answer, spoiled>>
      \/ trans.stage = "rollback" /\ GoesOn
      \/ trans' = Free
  <2>1. trans.stage \in {"set", "commit", "rollback"} /\ trans.stage # "set"
    BY CommitOneIs, TransIs DEF IInv
  <2> QED BY <2>1, CommitOneIs
<1> HIDE DEF c
<1>3. CASE trans' = Free
  BY <1>3, FreeIs, NotSetting
<1>4. GoesOn => aside' \subseteq trans'.aside
  BY <1>1 DEF SetInv, GoesOn
<1>5. CASE trans.stage = "rollback" /\ GoesOn
  <2>1. trans'.stage = "rollback" /\ trans'.kind # "none"
    BY <1>1, <1>5, TransIs DEF GoesOn, IInv
  <2> QED BY <1>4, <1>5, <2>1, NotSetting
<1>6. CASE /\ device' = IF dirty[c] THEN Copied(device, current, c) ELSE device
           /\ GoesOn
           /\ UNCHANGED <<current, answer, spoiled>>
  <2>1. AskedDirty'
    BY <1>1, <1>6 DEF AskedDirty, GoesOn
  <2> SUFFICES ASSUME Setting', NEW f \in Field, Foreseen(f, trans.set)'
               PROVE  Wanted(f, trans.set)' =
                        IF dirty'[ControlOf(f)] THEN current'[f] ELSE device'[f]
    BY <1>4, <1>6, <2>1, SetInvIs
  <2>2. Setting /\ Foreseen(f, trans.set)
    BY <1>6, ForeseenIs DEF Setting, GoesOn
  <2>3. Wanted(f, trans.set)' = Wanted(f, trans.set)
    BY <1>6, WantedIs DEF GoesOn
  <2>4. Wanted(f, trans.set) = IF dirty[ControlOf(f)] THEN current[f] ELSE device[f]
    BY <2>2, SetInvIs
  <2>5. device'[f] = IF dirty[c] /\ ControlOf(f) = c THEN current[f] ELSE device[f]
    <3>1. device \in [Field -> Values] /\ current \in [Field -> Values]
      BY DEF IInv, TypeOK
    <3> QED BY <1>6, <3>1, CopiedIs
  <2> QED BY <1>1, <1>6, <2>3, <2>4, <2>5, FieldIs
<1> QED BY <1>2, <1>3, <1>5, <1>6

\* What the camera changes by itself is foreseen no longer.
LEMMA AdjustsSets ==
  ASSUME IInv, SetInv, CameraAdjusts
  PROVE  SetInv'
<1>1. PICK h \in Field, v \in Values : Notes(h, v)
  BY AdjustsIs
<1>2. CASE trans = Free
  BY <1>1, <1>2, FreeIs, NotSetting DEF Notes
<1>3. CASE trans # Free
  <2>1. /\ trans'.kind = trans.kind /\ trans'.stage = trans.stage
        /\ trans'.set = trans.set /\ trans'.asked = trans.asked /\ trans'.aside = trans.aside
        /\ trans'.begun = [trans.begun EXCEPT ![h] = v]
        /\ trans.kind = "set" => trans'.moved = trans.moved \cup {ControlOf(h)}
        /\ device' = [device EXCEPT ![h] = v]
        /\ UNCHANGED <<current, dirty, spoiled, aside>>
    BY <1>1, <1>3 DEF Notes, cacheVars
  <2>2. aside' \subseteq trans'.aside /\ AskedDirty'
    BY <1>3, <2>1, SetInvIs DEF AskedDirty
  <2> SUFFICES ASSUME Setting', NEW f \in Field, Foreseen(f, trans.set)'
               PROVE  Wanted(f, trans.set)' =
                        IF dirty'[ControlOf(f)] THEN current'[f] ELSE device'[f]
    BY <2>2, SetInvIs
  <2>3. Setting /\ trans.kind = "set"
    BY <2>1 DEF Setting
  <2>4. Foreseen(f, trans.set) /\ f # h
    BY <2>1, <2>3, ForeseenIs DEF Expected
  <2>5. trans.begun \in [Field -> Values] /\ device \in [Field -> Values]
    BY <1>3, TransIs DEF IInv, TypeOK
  <2>6. trans'.begun[f] = trans.begun[f] /\ device'[f] = device[f]
    BY <2>1, <2>4, <2>5
  <2>7. Meant(trans.asked, trans'.begun, f, trans.set) = Meant(trans.asked, trans.begun, f, trans.set)
    BY <2>6 DEF Meant
  <2>8. Wanted(f, trans.set)' = Wanted(f, trans.set)
    BY <2>1, <2>7, WantedIs
  <2> QED BY <2>1, <2>3, <2>4, <2>6, <2>8, SetInvIs
<1> QED BY <1>2, <1>3

LEMMA OthersSet ==
  ASSUME IInv, SetInv, ReadOne \/ EndTrans \/ QueryCtrl \/ ResetResume \/ UNCHANGED vars
  PROVE  SetInv'
<1>1. CASE ReadOne
  BY <1>1, FreeIs, RolledBack DEF ReadOne, Refused, history
<1>2. CASE EndTrans \/ QueryCtrl
  BY <1>2, EndIs, QueryIs, FreeIs, NotSetting
<1>3. CASE ResetResume
  <2>1. trans'.kind = "resume" /\ trans'.aside = aside /\ aside' = aside
    BY <1>3 DEF ResetResume, Trans, history
  <2> QED BY <2>1, SetInvIs DEF Setting, AskedDirty
<1>4. CASE UNCHANGED vars
  <2>1. UNCHANGED <<trans, current, device, dirty, spoiled, aside>>
    BY <1>4 DEF vars, cacheVars, history
  <2>2. \A f : Wanted(f, trans.set)' = Wanted(f, trans.set)
    BY <2>1, WantedIs
  <2>3. \A f : Foreseen(f, trans.set)' = Foreseen(f, trans.set)
    BY <2>1, ForeseenIs
  <2> QED BY <2>1, <2>2, <2>3 DEF SetInv
<1> QED BY <1>1, <1>2, <1>3, <1>4

LEMMA SetStep ==
  ASSUME AskedInRange
  PROVE  IInv /\ ReadInv /\ SetInv /\ [Next]_vars => SetInv'
<1> SUFFICES ASSUME IInv, ReadInv, SetInv, [Next]_vars PROVE SetInv'
  OBVIOUS
<1>1. CASE SetCtrls \/ GetCtrl
  BY <1>1, SetCtrlsIs, GetCtrlIs, BeginSets
<1>2. CASE SetOne
  BY <1>2, SetOneSets
<1>3. CASE CommitOne
  BY <1>3, CommitOneSets
<1>4. CASE CameraAdjusts
  BY <1>4, AdjustsSets
<1>5. CASE ReadOne \/ EndTrans \/ QueryCtrl \/ ResetResume \/ UNCHANGED vars
  BY <1>5, OthersSet
<1> QED BY <1>1, <1>2, <1>3, <1>4, <1>5 DEF Next

\* When a set is about to report success the camera has all that was asked for, and
\* every other value as before: of every camera and whoever listens to events, for
\* values that are the same signed and unsigned.  Not spoken for are a control that
\* the camera changed meanwhile, and what shares a control with a value that was
\* asked for where an event had left that control in the cache.
\* (The read-modify-write in uvc_ctrl_set.)
THEOREM SetsAreDone == ASSUME AskedInRange PROVE Spec => []DoneMeansSet
<1>1. IInv /\ ReadInv /\ [Next]_vars => ReadInv'
  BY ReadStep
<1>2. IInv /\ ReadInv /\ SetInv /\ [Next]_vars => SetInv'
  BY SetStep
<1>3. IInv /\ SetInv => DoneMeansSet
  <2> SUFFICES ASSUME IInv, SetInv, trans.kind = "set", trans.next = Len(Ctrls) + 1,
                      trans.stage = "commit", ~spoiled, NEW f \in Field,
                      Foreseen(f, Len(trans.asked))
               PROVE  device[f] = Wanted(f, Len(trans.asked))
    BY DEF DoneMeansSet
  <2>1. trans # Free
    BY FreeIs
  <2>2. trans.set = Len(trans.asked)
    BY <2>1 DEF IInv, PhaseInv
  <2>3. ~dirty[ControlOf(f)]
    BY <2>1, AllDone, FieldIs DEF IInv, DirtyInv
  <2> QED BY <2>2, <2>3 DEF SetInv
<1> QED BY <1>1, <1>2, <1>3, ReadInit, SetInit, Invariant, PTL DEF Spec
=============================================================================
