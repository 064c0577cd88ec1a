---------------------------- MODULE CameraProofs ----------------------------
(***************************************************************************)
(* The camera of CapV4L2, for any number of buffers and URBs and any       *)
(* length of a frame: a buffer has one owner, what is delivered as good is *)
(* a whole frame, the clock outlives the URBs, and nobody waits for a      *)
(* camera that has nothing to give.                                        *)
(***************************************************************************)
EXTENDS CapV4L2, SequenceTheorems, WellFoundedInduction, TLAPS

USE BufferAssumption, FrameLenAssumption, DropAssumption, NoneAssumption, UrbsAssumption

-----------------------------------------------------------------------------
\* Sequences without repetitions, and the sets of what is in them.
LEMMA SetOfEmpty ==
  ToSet(<<>>) = {} /\ IsInjective(<<>>)
BY DEF ToSet, IsInjective

LEMMA SetOfAppend ==
  ASSUME NEW S, NEW s \in Seq(S), NEW e \in S
  PROVE  /\ ToSet(Append(s, e)) = ToSet(s) \cup {e}
         /\ IsInjective(s) /\ e \notin ToSet(s) => IsInjective(Append(s, e))
<1> DEFINE a == Append(s, e)
<1>1. /\ a \in Seq(S) /\ Len(a) = Len(s) + 1 /\ DOMAIN a = 1 .. Len(s) + 1
      /\ DOMAIN s = 1 .. Len(s) /\ Len(s) \in Nat
      /\ \A i \in 1 .. Len(s) : a[i] = s[i]
      /\ a[Len(s) + 1] = e
  BY AppendProperties, LenProperties
<1> HIDE DEF a
<1>2. \A i \in DOMAIN a : i \in DOMAIN s \/ i = Len(s) + 1
  BY <1>1
<1>3. ToSet(a) = ToSet(s) \cup {e}
  BY <1>1, <1>2 DEF ToSet
<1>4. ASSUME IsInjective(s), e \notin ToSet(s) PROVE IsInjective(a)
  BY <1>1, <1>2, <1>4 DEF ToSet, IsInjective
<1> QED BY <1>3, <1>4 DEF a

LEMMA SetOfTail ==
  ASSUME NEW S, NEW s \in Seq(S), s # <<>>
  PROVE  /\ Head(s) = s[1] /\ s[1] \in ToSet(s) /\ s[1] \in S
         /\ IsInjective(s) => ToSet(Tail(s)) = ToSet(s) \ {s[1]} /\ IsInjective(Tail(s))
         /\ Len(s) > 1 => Tail(s) # <<>> /\ Tail(s)[1] = s[2]
         /\ Len(s) = 1 => Tail(s) = <<>>
<1> DEFINE t == Tail(s)
<1>1. /\ t \in Seq(S) /\ Len(t) = Len(s) - 1 /\ DOMAIN t = 1 .. Len(s) - 1
      /\ DOMAIN s = 1 .. Len(s) /\ Len(s) \in Nat \ {0}
      /\ \A i \in 1 .. Len(s) - 1 : t[i] = s[i + 1]
      /\ Head(s) = s[1]
  BY HeadTailProperties, LenProperties, EmptySeq
<1> HIDE DEF t
<1>2. s[1] \in ToSet(s) /\ s[1] \in S
  BY <1>1, ElementOfSeq DEF ToSet
<1>3. ASSUME IsInjective(s) PROVE ToSet(t) = ToSet(s) \ {s[1]} /\ IsInjective(t)
  <2>1. \A i \in DOMAIN t : i + 1 \in DOMAIN s /\ t[i] = s[i + 1] /\ i + 1 # 1
    BY <1>1
  <2>2. \A i \in DOMAIN s : i = 1 \/ (i - 1 \in DOMAIN t /\ s[i] = t[i - 1])
    BY <1>1
  <2>3. IsInjective(t)
    BY <2>1, <1>3, <1>1 DEF IsInjective
  <2>4. ToSet(t) \subseteq ToSet(s) \ {s[1]}
    BY <2>1, <1>3, <1>1 DEF ToSet, IsInjective
  <2>5. ToSet(s) \ {s[1]} \subseteq ToSet(t)
    BY <2>2 DEF ToSet
  <2> QED BY <2>3, <2>4, <2>5
<1>4. Len(s) > 1 => t # <<>> /\ t[1] = s[2]
  BY <1>1, EmptySeq
<1>5. Len(s) = 1 => t = <<>>
  BY <1>1, EmptySeq
<1> QED BY <1>1, <1>2, <1>3, <1>4, <1>5 DEF t

LEMMA SetOfConcat ==
  ASSUME NEW S, NEW s \in Seq(S), NEW t \in Seq(S)
  PROVE  /\ ToSet(s \o t) = ToSet(s) \cup ToSet(t)
         /\ IsInjective(s \o t) <=>
              IsInjective(s) /\ IsInjective(t) /\ ToSet(s) \cap ToSet(t) = {}
<1> DEFINE a == s \o t
<1>1. /\ a \in Seq(S) /\ DOMAIN a = 1 .. Len(s) + Len(t)
      /\ DOMAIN s = 1 .. Len(s) /\ Len(s) \in Nat
      /\ DOMAIN t = 1 .. Len(t) /\ Len(t) \in Nat
      /\ \A i \in 1 .. Len(s) + Len(t) : a[i] = IF i <= Len(s) THEN s[i] ELSE t[i - Len(s)]
  BY ConcatProperties, LenProperties
<1> HIDE DEF a
<1>2. \A i \in DOMAIN s : i \in DOMAIN a /\ a[i] = s[i]
  BY <1>1
<1>3. \A i \in DOMAIN t : i + Len(s) \in DOMAIN a /\ a[i + Len(s)] = t[i]
  BY <1>1
<1>4. \A i \in DOMAIN a : \/ i \in DOMAIN s /\ a[i] = s[i]
                          \/ i - Len(s) \in DOMAIN t /\ a[i] = t[i - Len(s)]
  BY <1>1
<1>5. ToSet(a) = ToSet(s) \cup ToSet(t)
  BY <1>2, <1>3, <1>4 DEF ToSet
<1>6. ASSUME IsInjective(a)
      PROVE  IsInjective(s) /\ IsInjective(t) /\ ToSet(s) \cap ToSet(t) = {}
  <2>1. IsInjective(s)
    BY <1>2, <1>6 DEF IsInjective
  <2>2. IsInjective(t)
    BY <1>1, <1>3, <1>6 DEF IsInjective
  <2>3. \A i \in DOMAIN s, j \in DOMAIN t : i # j + Len(s)
    BY <1>1
  <2>4. ToSet(s) \cap ToSet(t) = {}
    BY <1>2, <1>3, <1>6, <2>3 DEF IsInjective, ToSet
  <2> QED BY <2>1, <2>2, <2>4
<1>7. ASSUME IsInjective(s), IsInjective(t), ToSet(s) \cap ToSet(t) = {}
      PROVE  IsInjective(a)
  <2> SUFFICES ASSUME NEW i \in DOMAIN a, NEW j \in DOMAIN a, a[i] = a[j] PROVE i = j
    BY DEF IsInjective
  <2>1. CASE i \in DOMAIN s /\ j \in DOMAIN s
    BY <2>1, <1>2, <1>7 DEF IsInjective
  <2>2. CASE i \notin DOMAIN s /\ j \notin DOMAIN s
    <3>1. i - Len(s) \in DOMAIN t /\ j - Len(s) \in DOMAIN t /\ t[i - Len(s)] = t[j - Len(s)]
      BY <2>2, <1>4
    <3>2. i - Len(s) = j - Len(s)
      BY <3>1, <1>7 DEF IsInjective
    <3> QED BY <3>2, <1>1
  <2>3. CASE i \in DOMAIN s /\ j \notin DOMAIN s
    BY <2>3, <1>2, <1>4, <1>7 DEF ToSet
  <2>4. CASE i \notin DOMAIN s /\ j \in DOMAIN s
    BY SMTT(30), <2>4, <1>2, <1>4, <1>7 DEF ToSet
  <2> QED BY <2>1, <2>2, <2>3, <2>4
<1> QED BY <1>5, <1>6, <1>7 DEF a

LEMMA ThreeLists ==
  ASSUME NEW S, NEW q \in Seq(S), NEW d \in Seq(S), NEW p \in Seq(S)
  PROVE  IsInjective(q \o d \o p) <=>
           /\ IsInjective(q) /\ IsInjective(d) /\ IsInjective(p)
           /\ ToSet(q) \cap ToSet(d) = {}
           /\ ToSet(q) \cap ToSet(p) = {} /\ ToSet(d) \cap ToSet(p) = {}
<1>1. q \o d \in Seq(S)
  BY ConcatProperties
<1>2. /\ ToSet(q \o d) = ToSet(q) \cup ToSet(d)
      /\ IsInjective(q \o d) <=>
           IsInjective(q) /\ IsInjective(d) /\ ToSet(q) \cap ToSet(d) = {}
  BY SetOfConcat
<1>3. IsInjective((q \o d) \o p) <=>
        IsInjective(q \o d) /\ IsInjective(p) /\ ToSet(q \o d) \cap ToSet(p) = {}
  BY <1>1, SetOfConcat
<1> QED BY <1>2, <1>3

LEMMA SetOfSeq ==
  ASSUME NEW S, NEW s \in Seq(S)
  PROVE  ToSet(s) \subseteq S
BY LenProperties, ElementOfSeq DEF ToSet

\* The buffers are taken in the order of their indices.
LEMMA LessRelation == \A y, x \in Nat : y < x => <<y, x>> \in OpToRel(<, Nat)
BY SMT DEF OpToRel

LEMMA Least ==
  ASSUME NEW S, S \subseteq Nat, S # {}
  PROVE  Min(S) \in S
<1>1. PICK x \in S : \A y \in S : ~(<<y, x>> \in OpToRel(<, Nat))
  BY NatLessThanWellFounded, WFMin
<1>2. ASSUME NEW y \in S PROVE x <= y
  <2>1. x \in Nat /\ y \in Nat
    OBVIOUS
  <2>2. ~(y < x)
    BY <1>1, <2>1, LessRelation, Zenon
  <2> QED BY <2>1, <2>2
<1> QED BY <1>2 DEF Min
-----------------------------------------------------------------------------
(***************************************************************************)
(* What the handler does with one payload.                                 *)
(***************************************************************************)
VbState == {"dequeued", "queued", "active", "done"}
Hand == [buf : Buffer \cup {None}, held : [Buffer -> Content], irqqueue : Seq(Buffer),
         vb : [Buffer -> VbState], done : Seq(Buffer), fid : Fid \cup {NoFid}]

CameraType == camera \in [on : BOOLEAN, fid : Fid, next : 1 .. FrameLen]

\* What it has in hand is in the lists that the states say.
HandOwns(h) ==
  /\ \A b \in Buffer : /\ h.vb[b] = "active" <=> b \in ToSet(h.irqqueue)
                       /\ h.vb[b] = "done" <=> b \in ToSet(h.done)
  /\ IsInjective(h.irqqueue) /\ IsInjective(h.done)
  /\ h.buf # None => h.irqqueue # <<>> /\ h.buf = h.irqqueue[1]

\* FillInv, when the camera is to send payload n of the frame.
Whole(c) == c.state = "done" /\ ~c.cut => ~c.torn /\ c.used = FrameLen
Part(c, fid, n) ==
  /\ c.state \in {"queued", "active"}
  /\ c.used = 0 => ~c.torn
  /\ c.used # 0 =>
       /\ c.state = "active"
       /\ \/ Spoilt(c)
          \/ c.current /\ fid = camera.fid /\ c.used < n /\ (c.torn => c.used + 1 < n)
RestFresh(h) == \A i \in 2 .. Len(h.irqqueue) : h.held[h.irqqueue[i]] = Empty("queued")
HandFills(h, n) ==
  /\ \A b \in Buffer : Whole(h.held[b])
  /\ RestFresh(h)
  /\ h.irqqueue # <<>> =>
       /\ Part(h.held[h.irqqueue[1]], h.fid, n)
       /\ h.buf = None => h.held[h.irqqueue[1]] = Empty("queued")
HandOK(h, n) == h \in Hand /\ HandOwns(h) /\ HandFills(h, n)

\* It leaves alone what is not the driver's.
Keeps(h, g) ==
  /\ \A b \in Buffer : /\ h.vb[b] \in {"dequeued", "queued"} => g.held[b] = h.held[b]
                       /\ g.vb[b] = "dequeued" <=> h.vb[b] = "dequeued"
                       /\ g.vb[b] = "queued" <=> h.vb[b] = "queued"
  /\ h.done # <<>> => g.done # <<>>
  /\ h.irqqueue = <<>> => g.irqqueue = <<>>

LEMMA KeepsOn ==
  ASSUME NEW f, NEW g, NEW h, Keeps(f, g), Keeps(g, h)
  PROVE  Keeps(f, h)
BY DEF Keeps

LEMMA EmptyContent ==
  \A s \in {"idle", "queued", "active", "ready", "done", "error"} : Empty(s) \in Content
BY DEF Empty, Content

\* Writing into the buffer that is being filled.
Put(h, c) == [h EXCEPT !.held[h.buf] = c]

LEMMA Puts ==
  ASSUME NEW h \in Hand, HandOwns(h), h.buf # None, NEW c \in Content
  PROVE  /\ Put(h, c) \in Hand /\ HandOwns(Put(h, c)) /\ Keeps(h, Put(h, c))
         /\ Put(h, c).held = [h.held EXCEPT ![h.buf] = c]
         /\ Put(h, c).held[h.buf] = c
         /\ \A b \in Buffer \ {h.buf} : Put(h, c).held[b] = h.held[b]
         /\ Put(h, c).buf = h.buf /\ Put(h, c).irqqueue = h.irqqueue
         /\ Put(h, c).vb = h.vb /\ Put(h, c).done = h.done /\ Put(h, c).fid = h.fid
<1>1. h.buf \in Buffer
  BY DEF Hand
<1>2. /\ Put(h, c).held = [h.held EXCEPT ![h.buf] = c]
      /\ Put(h, c).buf = h.buf /\ Put(h, c).irqqueue = h.irqqueue
      /\ Put(h, c).vb = h.vb /\ Put(h, c).done = h.done /\ Put(h, c).fid = h.fid
  BY DEF Put, Hand
<1>3. Put(h, c) \in Hand
  BY <1>1 DEF Put, Hand
<1>4. HandOwns(Put(h, c))
  BY <1>2 DEF HandOwns
<1>5. h.vb[h.buf] = "active"
  <2>1. h.irqqueue # <<>> /\ h.buf = h.irqqueue[1] /\ h.irqqueue \in Seq(Buffer)
    BY DEF HandOwns, Hand
  <2>2. h.buf \in ToSet(h.irqqueue)
    BY <2>1, SetOfTail
  <2> QED BY <1>1, <2>2 DEF HandOwns
<1>6. Put(h, c).held[h.buf] = c /\ \A b \in Buffer \ {h.buf} : Put(h, c).held[b] = h.held[b]
  BY <1>1, <1>2 DEF Hand
<1>7. Keeps(h, Put(h, c))
  BY <1>2, <1>5, <1>6 DEF Keeps
<1> QED BY <1>2, <1>3, <1>4, <1>6, <1>7

\* The buffers behind the one that is filled.
LEMMA Others ==
  ASSUME NEW h \in Hand, HandOwns(h), h.buf # None
  PROVE  \A i \in 2 .. Len(h.irqqueue) : h.irqqueue[i] \in Buffer \ {h.buf}
<1> SUFFICES ASSUME NEW i \in 2 .. Len(h.irqqueue)
             PROVE  h.irqqueue[i] \in Buffer \ {h.buf}
  OBVIOUS
<1>1. /\ h.irqqueue \in Seq(Buffer) /\ Len(h.irqqueue) \in Nat
      /\ 1 \in DOMAIN h.irqqueue /\ i \in DOMAIN h.irqqueue
  BY LenProperties DEF Hand
<1> QED BY <1>1, ElementOfSeq, LenProperties DEF HandOwns, IsInjective

LEMMA RestStaysFresh ==
  ASSUME NEW h \in Hand, HandOwns(h), h.buf # None, RestFresh(h),
         NEW g, g.irqqueue = h.irqqueue, \A b \in Buffer \ {h.buf} : g.held[b] = h.held[b]
  PROVE  RestFresh(g)
<1> SUFFICES ASSUME NEW i \in 2 .. Len(h.irqqueue)
             PROVE  g.held[h.irqqueue[i]] = Empty("queued")
  BY DEF RestFresh
<1>1. h.irqqueue[i] \in Buffer \ {h.buf}
  BY Others
<1> QED BY <1>1 DEF RestFresh

\* The first buffer is filled on, the others are as they were.
LEMMA PutsPart ==
  ASSUME NEW h \in Hand, HandOwns(h), h.buf # None, NEW c \in Content, NEW n, NEW m,
         HandFills(h, m), Part(c, h.fid, n)
  PROVE  HandOK(Put(h, c), n)
<1> DEFINE g == Put(h, c)
<1>1. /\ g \in Hand /\ HandOwns(g)
      /\ g.held[h.buf] = c /\ (\A b \in Buffer \ {h.buf} : g.held[b] = h.held[b])
      /\ g.buf = h.buf /\ g.irqqueue = h.irqqueue /\ g.fid = h.fid
  BY Puts
<1> HIDE DEF g
<1>2. h.irqqueue # <<>> /\ h.buf = h.irqqueue[1] /\ h.buf \in Buffer
  BY DEF HandOwns, Hand
<1>3. RestFresh(g)
  BY <1>1, RestStaysFresh DEF HandFills
<1>4. Whole(c)
  BY DEF Part, Whole
<1>5. \A b \in Buffer : Whole(g.held[b])
  BY <1>1, <1>4 DEF HandFills
<1>6. HandFills(g, n)
  BY <1>1, <1>2, <1>3, <1>5 DEF HandFills
<1> QED BY <1>1, <1>6 DEF HandOK, g
\* A buffer that is handed over, or written over, leaves a fresh one or none.
LEMMA HandsOver ==
  ASSUME NEW h \in Hand, HandOwns(h), h.buf # None, RestFresh(h),
         \A b \in Buffer \ {h.buf} : Whole(h.held[b]),
         LET c == h.held[h.buf]
         IN ~Spoilt(c) => ~c.torn /\ c.used = FrameLen,
         NEW n
  PROVE  LET g == NextBuffer(h)
         IN /\ HandOK(g, n) /\ Keeps(h, g) /\ g.fid = h.fid
            /\ g.irqqueue # <<>> => g.held[g.irqqueue[1]] = Empty("queued")
<1> DEFINE c == h.held[h.buf]
           e == Empty("queued")
<1>1. /\ h.irqqueue # <<>> /\ h.buf = h.irqqueue[1] /\ h.buf \in Buffer
      /\ h.irqqueue \in Seq(Buffer) /\ h.done \in Seq(Buffer) /\ c \in Content
  BY DEF HandOwns, Hand
<1>2. e \in Content /\ Part(e, h.fid, n) /\ Whole(e)
  BY EmptyContent DEF Empty, Part, Whole
<1>3. CASE DropCorrupted /\ c.error
  <2>1. NextBuffer(h) = Put(h, e)
    BY <1>3 DEF NextBuffer, Put
  <2> DEFINE g == Put(h, e)
  <2>2. /\ g \in Hand /\ HandOwns(g) /\ Keeps(h, g)
        /\ g.held[h.buf] = e /\ (\A b \in Buffer \ {h.buf} : g.held[b] = h.held[b])
        /\ g.buf = h.buf /\ g.irqqueue = h.irqqueue /\ g.fid = h.fid
    BY Puts, <1>2
  <2> HIDE DEF g
  <2>3. RestFresh(g)
    BY <2>2, RestStaysFresh
  <2>4. HandFills(g, n)
    BY <2>2, <2>3, <1>1, <1>2 DEF HandFills
  <2> QED BY <2>1, <2>2, <2>4, <1>1 DEF HandOK, g
<1>4. CASE ~(DropCorrupted /\ c.error)
  <2> DEFINE g == NextBuffer(h)
             d == [c EXCEPT !.state = IF c.error THEN "error" ELSE "done"]
             q == h.irqqueue
  <2>1. /\ g.held = [h.held EXCEPT ![h.buf] = d]
        /\ g.irqqueue = Tail(q)
        /\ g.vb = [h.vb EXCEPT ![h.buf] = "done"]
        /\ g.done = Append(h.done, h.buf)
        /\ g.buf = IF Len(q) > 1 THEN q[2] ELSE None
        /\ g.fid = h.fid
        /\ g = [buf |-> g.buf, held |-> g.held, irqqueue |-> g.irqqueue, vb |-> g.vb,
                done |-> g.done, fid |-> g.fid]
    BY <1>4, <1>1 DEF NextBuffer, Hand
  <2>2. d \in Content /\ Whole(d)
    BY <1>1 DEF Content, Whole, Spoilt
  <2> HIDE DEF g, d
  <2>3. /\ Tail(q) \in Seq(Buffer) /\ ToSet(Tail(q)) = ToSet(q) \ {h.buf} /\ IsInjective(Tail(q))
        /\ Len(q) > 1 => Tail(q) # <<>> /\ Tail(q)[1] = q[2]
        /\ Len(q) = 1 => Tail(q) = <<>>
        /\ h.buf \in ToSet(q)
        /\ Len(q) \in Nat \ {0} /\ Len(Tail(q)) = Len(q) - 1
        /\ \A i \in 1 .. Len(Tail(q)) : Tail(q)[i] = q[i + 1]
    BY <1>1, SetOfTail, HeadTailProperties, LenProperties, EmptySeq DEF HandOwns
  <2>4. h.buf \notin ToSet(h.done)
    BY <2>3, <1>1 DEF HandOwns
  <2>5. /\ Append(h.done, h.buf) \in Seq(Buffer) /\ Append(h.done, h.buf) # <<>>
        /\ ToSet(Append(h.done, h.buf)) = ToSet(h.done) \cup {h.buf}
        /\ IsInjective(Append(h.done, h.buf))
    BY <1>1, <2>4, SetOfAppend, AppendProperties DEF HandOwns
  <2>6. Len(q) > 1 => q[2] \in Buffer
    BY <1>1, <2>3, ElementOfSeq
  <2>7. /\ g.held \in [Buffer -> Content] /\ g.vb \in [Buffer -> VbState]
        /\ g.fid \in Fid \cup {NoFid} /\ h.held \in [Buffer -> Content]
    BY <1>1, <2>1, <2>2 DEF Hand, VbState
  <2>8. g \in Hand
    BY <2>1, <2>3, <2>5, <2>6, <2>7 DEF Hand
  <2>9. \A b \in Buffer : /\ g.vb[b] = IF b = h.buf THEN "done" ELSE h.vb[b]
                          /\ g.held[b] = IF b = h.buf THEN d ELSE h.held[b]
    BY <2>1, <2>7, <1>1 DEF Hand
  <2>10. HandOwns(g)
    <3>1. \A b \in Buffer : /\ g.vb[b] = "active" <=> b \in ToSet(g.irqqueue)
                            /\ g.vb[b] = "done" <=> b \in ToSet(g.done)
      BY <2>1, <2>3, <2>5, <2>9 DEF HandOwns
    <3> QED BY <3>1, <2>1, <2>3, <2>5 DEF HandOwns
  <2>11. Keeps(h, g)
    BY <2>1, <2>3, <2>5, <2>9, <1>1 DEF Keeps, HandOwns
  <2>12. \A i \in 1 .. Len(Tail(q)) : g.held[Tail(q)[i]] = e
    <3> SUFFICES ASSUME NEW i \in 1 .. Len(Tail(q)) PROVE g.held[Tail(q)[i]] = e
      OBVIOUS
    <3>1. i + 1 \in 2 .. Len(q) /\ Tail(q)[i] = q[i + 1]
      BY <2>3
    <3>2. q[i + 1] \in Buffer /\ q[i + 1] # h.buf
      BY <3>1, <1>1, <2>3, ElementOfSeq, LenProperties DEF HandOwns, IsInjective
    <3> QED BY <3>1, <3>2, <2>9 DEF RestFresh
  <2>13. Tail(q) # <<>> => g.held[Tail(q)[1]] = e
    <3>1. Tail(q) # <<>> => 1 \in 1 .. Len(Tail(q))
      BY <2>3
    <3> QED BY <3>1, <2>12
  <2>14. \A b \in Buffer : Whole(g.held[b])
    BY <2>9, <2>2
  <2>15. HandFills(g, n)
    <3>1. RestFresh(g)
      <4>1. 2 .. Len(Tail(q)) \subseteq 1 .. Len(Tail(q))
        BY <2>3
      <4>2. \A i \in 2 .. Len(Tail(q)) : g.held[Tail(q)[i]] = e
        BY <4>1, <2>12
      <4> QED BY <4>2, <2>1 DEF RestFresh
    <3>2. Part(e, g.fid, n)
      BY <1>2, <2>1
    <3> QED BY <2>1, <2>13, <2>14, <3>1, <3>2 DEF HandFills
  <2> QED BY <2>1, <2>8, <2>10, <2>11, <2>13, <2>15 DEF HandOK, g
<1> QED BY <1>3, <1>4

\* What uvc_video_decode_start makes of the buffer: it is skipped, it is to be
\* handed over for a frame that has been cut off, or it takes the payload.
LEMMA Starts ==
  ASSUME NEW h, HandOK(h, camera.next), CameraType, NEW p \in Payload, h.buf # None
  PROVE  LET s == DecodeStart(h, p)
             c == s.h.held[h.buf]
         IN /\ s.h \in Hand /\ HandOwns(s.h) /\ Keeps(h, s.h)
            /\ s.h.buf = h.buf /\ s.h.irqqueue = h.irqqueue
            /\ s.ret \in {"skip", "again", "data"}
            /\ s.ret = "again" =>
                 /\ Spoilt(c) /\ RestFresh(s.h)
                 /\ \A b \in Buffer \ {h.buf} : Whole(s.h.held[b])
            /\ s.ret = "skip" => c.used = 0 /\ HandOK(s.h, camera.next)
            /\ s.ret = "data" =>
                 c.state = "active" /\ s.h.fid = camera.fid /\ HandOK(s.h, camera.next)
            /\ h.held[h.buf].used = 0 => s.ret # "again"
<1> DEFINE o == h.held[h.buf]
           m == [o EXCEPT !.error = @ \/ p.err]
           a == [m EXCEPT !.state = "active"]
           r == [m EXCEPT !.state = "ready"]
           n == camera.next
<1>1. /\ h \in Hand /\ HandOwns(h) /\ HandFills(h, n)
      /\ h.irqqueue # <<>> /\ h.buf = h.irqqueue[1] /\ h.buf \in Buffer
      /\ o \in Content /\ h.held \in [Buffer -> Content] /\ h.irqqueue \in Seq(Buffer)
      /\ p.err \in BOOLEAN
  BY DEF HandOK, HandOwns, Hand, Payload
<1>2. Part(o, h.fid, n)
  BY <1>1 DEF HandFills
<1>3. m \in Content /\ a \in Content /\ r \in Content
  BY <1>1 DEF Content
<1>4. /\ m.used = o.used /\ m.torn = o.torn /\ m.cut = o.cut /\ m.current = o.current
      /\ m.state = o.state /\ (o.error => m.error)
      /\ a.used = o.used /\ a.torn = o.torn /\ a.cut = o.cut /\ a.current = o.current
      /\ a.state = "active" /\ (o.error => a.error)
      /\ r.used = o.used /\ r.torn = o.torn /\ r.cut = o.cut /\ (o.error => r.error)
  BY <1>1 DEF Content
<1>5. /\ [h EXCEPT !.held[h.buf].error = @ \/ p.err] = Put(h, m)
      /\ [Put(h, m) EXCEPT !.held[h.buf].state = "active"] = Put(h, a)
      /\ [Put(h, a) EXCEPT !.held[h.buf].state = "ready"] = Put(h, r)
  <2>1. h.held \in [Buffer -> Content] /\ h.buf \in Buffer
    BY <1>1
  <2>2. [h EXCEPT !.held[h.buf].error = @ \/ p.err] = Put(h, m)
    BY DEF Put
  <2>3. /\ Put(h, m).held[h.buf] = m /\ Put(h, a).held[h.buf] = a
        /\ Put(h, m).buf = h.buf /\ Put(h, a).buf = h.buf
    <3> HIDE DEF m, a
    <3>1. Put(h, m).held[h.buf] = m /\ Put(h, m).buf = h.buf
      BY Puts, <1>1, <1>3
    <3>2. Put(h, a).held[h.buf] = a /\ Put(h, a).buf = h.buf
      BY Puts, <1>1, <1>3
    <3> QED BY <3>1, <3>2
  <2>4. [Put(h, m) EXCEPT !.held[h.buf] = a] = Put(h, a)
    BY <2>1 DEF Put, Hand
  <2>5. [Put(h, a) EXCEPT !.held[h.buf] = r] = Put(h, r)
    BY <2>1 DEF Put, Hand
  <2>6. [a EXCEPT !.state = "ready"] = r
    BY <1>1 DEF Content
  <2> QED BY ZenonT(30), <2>2, <2>3, <2>4, <2>5, <2>6
<1> HIDE DEF m, a, r
<1> DEFINE s == DecodeStart(h, p)
<1>6. CASE OutOfSync(h)
  <2>1. s = Answer(Put(h, m), "skip")
    BY <1>5, <1>6 DEF DecodeStart
  <2>2. s.h = Put(h, m) /\ s.ret = "skip"
    BY <2>1 DEF Answer
  <2>3. o.used = 0 /\ ~o.torn
    BY <1>2, <1>6 DEF OutOfSync, Part
  <2>4. Part(m, h.fid, n)
    BY <1>2, <1>4, <2>3 DEF Part
  <2>5. HandOK(Put(h, m), n)
    BY PutsPart, <1>1, <1>3, <2>4
  <2>6. /\ Put(h, m) \in Hand /\ HandOwns(Put(h, m)) /\ Keeps(h, Put(h, m))
        /\ Put(h, m).held[h.buf] = m
        /\ Put(h, m).buf = h.buf /\ Put(h, m).irqqueue = h.irqqueue
    BY Puts, <1>1, <1>3
  <2> QED BY <2>2, <2>3, <2>5, <2>6, <1>4
<1>7. CASE ~OutOfSync(h) /\ Complete(h)
  <2>1. s = Answer(Put(h, r), "again")
    BY <1>5, <1>7 DEF DecodeStart
  <2>2. s.h = Put(h, r) /\ s.ret = "again"
    BY <2>1 DEF Answer
  <2>3. Spoilt(r)
    BY <1>2, <1>4, <1>7 DEF Complete, Part, Spoilt
  <2>4. /\ Put(h, r) \in Hand /\ HandOwns(Put(h, r)) /\ Keeps(h, Put(h, r))
        /\ Put(h, r).held[h.buf] = r
        /\ \A b \in Buffer \ {h.buf} : Put(h, r).held[b] = h.held[b]
        /\ Put(h, r).buf = h.buf /\ Put(h, r).irqqueue = h.irqqueue
    BY Puts, <1>1, <1>3
  <2>5. \A b \in Buffer \ {h.buf} : Whole(Put(h, r).held[b])
    BY <2>4, <1>1 DEF HandFills
  <2>6. RestFresh(Put(h, r))
    BY <2>4, <1>1, RestStaysFresh DEF HandFills
  <2> QED BY <2>2, <2>3, <2>4, <2>5, <2>6, <1>7 DEF Complete
<1>8. CASE ~OutOfSync(h) /\ ~Complete(h)
  <2> DEFINE g == [Put(h, a) EXCEPT !.fid = camera.fid]
  <2>1. s = Answer(g, "data")
    BY <1>5, <1>8 DEF DecodeStart
  <2>2. s.h = g /\ s.ret = "data"
    BY <2>1 DEF Answer
  <2>3. Part(a, camera.fid, n)
    BY <1>2, <1>4, <1>8 DEF Complete, Part, Spoilt
  <2>4. /\ Put(h, a) \in Hand /\ HandOwns(Put(h, a)) /\ Keeps(h, Put(h, a))
        /\ Put(h, a).held[h.buf] = a
        /\ \A b \in Buffer \ {h.buf} : Put(h, a).held[b] = h.held[b]
        /\ Put(h, a).buf = h.buf /\ Put(h, a).irqqueue = h.irqqueue
    BY Puts, <1>1, <1>3
  <2>5. HandOK(g, n) /\ Keeps(h, g) /\ g.fid = camera.fid /\ g.buf = h.buf
        /\ g.held = Put(h, a).held /\ g.irqqueue = h.irqqueue
    <3>1. /\ g.fid = camera.fid /\ g.buf = h.buf /\ g.held = Put(h, a).held
          /\ g.irqqueue = h.irqqueue /\ g.vb = Put(h, a).vb /\ g.done = Put(h, a).done
          /\ g \in Hand
      BY <2>4 DEF Hand, CameraType
    <3> HIDE DEF g
    <3>2. HandOwns(g) /\ Keeps(h, g)
      BY <3>1, <2>4 DEF HandOwns, Keeps
    <3>3. Whole(a)
      BY <1>4 DEF Whole
    <3>4. \A b \in Buffer : Whole(g.held[b])
      BY <3>1, <3>3, <2>4, <1>1 DEF HandFills
    <3>5. RestFresh(g)
      <4>1. \A b \in Buffer \ {h.buf} : g.held[b] = h.held[b]
        BY <3>1, <2>4
      <4> QED BY <4>1, <3>1, <1>1, RestStaysFresh DEF HandFills
    <3>6. HandFills(g, n)
      BY <3>1, <3>4, <3>5, <2>3, <2>4, <1>1 DEF HandFills
    <3> QED BY <3>1, <3>2, <3>6 DEF HandOK
  <2> HIDE DEF g
  <2> QED BY <2>2, <2>4, <2>5, <1>4 DEF HandOK
<1> QED BY <1>6, <1>7, <1>8

\* uvc_video_decode_isoc comes to decode_data with a buffer that takes the
\* payload, or not at all.
LEMMA StartsAgain ==
  ASSUME NEW h, HandOK(h, camera.next), CameraType, NEW p \in Payload
  PROVE  LET s == Started(h, p)
         IN /\ HandOK(s.h, camera.next) /\ Keeps(h, s.h)
            /\ s.ret \in {"skip", "data"}
            /\ s.ret = "skip" /\ s.h.irqqueue # <<>> => s.h.held[s.h.irqqueue[1]].used = 0
            /\ s.ret = "data" =>
                 /\ s.h.buf # None /\ s.h.held[s.h.buf].state = "active"
                 /\ s.h.fid = camera.fid
<1> DEFINE Good(g, s) ==
             /\ HandOK(s.h, camera.next) /\ Keeps(g, s.h)
             /\ s.ret \in {"skip", "data"}
             /\ s.ret = "skip" /\ s.h.irqqueue # <<>> => s.h.held[s.h.irqqueue[1]].used = 0
             /\ s.ret = "data" =>
                  /\ s.h.buf # None /\ s.h.held[s.h.buf].state = "active"
                  /\ s.h.fid = camera.fid
<1>1. ASSUME NEW g, HandOK(g, camera.next), g.buf = None PROVE Good(g, DecodeStart(g, p))
  <2> DEFINE k == [g EXCEPT !.fid = camera.fid]
  <2>1. DecodeStart(g, p).h = k /\ DecodeStart(g, p).ret = "skip"
    BY <1>1 DEF DecodeStart, Answer
  <2>2. /\ k \in Hand /\ k.buf = None /\ k.held = g.held /\ k.irqqueue = g.irqqueue
        /\ k.vb = g.vb /\ k.done = g.done
    BY <1>1 DEF HandOK, Hand, CameraType
  <2> HIDE DEF k
  <2>3. HandOwns(k) /\ Keeps(g, k)
    BY <1>1, <2>2 DEF HandOK, HandOwns, Keeps
  <2>4. g.irqqueue # <<>> => g.held[g.irqqueue[1]] = Empty("queued")
    BY <1>1 DEF HandOK, HandFills
  <2>5. HandFills(k, camera.next)
    BY SMTT(30), <1>1, <2>2, <2>4 DEF HandOK, HandFills, RestFresh, Part, Empty
  <2> QED BY <2>1, <2>2, <2>3, <2>4, <2>5 DEF HandOK, Empty
<1>2. ASSUME NEW g, HandOK(g, camera.next), g.buf # None, DecodeStart(g, p).ret # "again"
      PROVE  Good(g, DecodeStart(g, p))
  BY <1>2, Starts DEF HandOK, HandOwns
<1>3. CASE DecodeStart(h, p).ret # "again"
  BY <1>1, <1>2, <1>3 DEF Started
<1>4. CASE DecodeStart(h, p).ret = "again"
  <2> DEFINE f == DecodeStart(h, p).h
             g == NextBuffer(f)
  <2>1. h.buf # None
    BY <1>1, <1>4
  <2>2. /\ f \in Hand /\ HandOwns(f) /\ Keeps(h, f) /\ f.buf # None /\ RestFresh(f)
        /\ Spoilt(f.held[f.buf])
        /\ \A b \in Buffer \ {f.buf} : Whole(f.held[b])
    BY <2>1, <1>4, Starts
  <2>3. /\ HandOK(g, camera.next) /\ Keeps(f, g)
        /\ g.irqqueue # <<>> => g.held[g.irqqueue[1]] = Empty("queued")
    BY <2>2, HandsOver
  <2>4. Keeps(h, g)
    BY <2>2, <2>3, KeepsOn
  <2>5. Started(h, p) = DecodeStart(g, p)
    BY <1>4 DEF Started
  <2> HIDE DEF f, g
  <2>6. g.buf # None => g.held[g.buf].used = 0
    BY <2>3 DEF HandOK, HandOwns, Empty
  <2>7. DecodeStart(g, p).ret # "again"
    BY <2>3, <2>6, <1>1, Starts
  <2>8. Good(g, DecodeStart(g, p))
    BY <2>3, <2>7, <1>1, <1>2
  <2> QED BY <2>4, <2>5, <2>8, KeepsOn
<1> QED BY <1>3, <1>4

\* A payload with data.  At the end of a frame nothing of it is left that could
\* be taken for a part of the next one.
LEMMA TakesData ==
  ASSUME NEW h, HandOK(h, camera.next), CameraType, h.buf # None,
         h.held[h.buf].state = "active", h.fid = camera.fid
  PROVE  LET g == Delivered(DecodeEnd(DecodeData(h)))
         IN /\ HandOK(g, camera.next + 1) /\ Keeps(h, g)
            /\ Eof /\ g.irqqueue # <<>> =>
                 LET c == g.held[g.irqqueue[1]] IN c.used = 0 \/ Spoilt(c)
<1> DEFINE o == h.held[h.buf]
           n == camera.next
           full == [o EXCEPT !.state = "ready"]
           torn == o.torn \/ ~Fits(o)
           more == [o EXCEPT !.used = @ + 1, !.torn = torn, !.current = TRUE]
           end == [more EXCEPT !.state = "ready"]
<1>1. /\ h \in Hand /\ HandOwns(h) /\ HandFills(h, n)
      /\ h.irqqueue # <<>> /\ h.buf = h.irqqueue[1] /\ h.buf \in Buffer
      /\ o \in Content /\ h.held \in [Buffer -> Content]
      /\ n \in 1 .. FrameLen
  BY DEF HandOK, HandOwns, Hand, CameraType
<1>2. Part(o, camera.fid, n) /\ o.state = "active"
  BY <1>1 DEF HandFills
\* A frame that is ready is handed over.
<1>3. ASSUME NEW c \in Content, c.state = "ready",
             ~Spoilt(c) /\ c.used = FrameLen => ~c.torn
      PROVE  LET g == Delivered(Put(h, c))
             IN /\ HandOK(g, n + 1) /\ Keeps(h, g)
                /\ g.irqqueue # <<>> => g.held[g.irqqueue[1]] = Empty("queued")
  <2> DEFINE d == [c EXCEPT !.error = @ \/ c.used # FrameLen]
  <2>1. Put(h, c).held[h.buf] = c /\ Put(h, c).buf = h.buf
    BY Puts, <1>1
  <2>2. d \in Content /\ (~Spoilt(d) => ~d.torn /\ d.used = FrameLen)
    BY <1>3 DEF Content, Spoilt
  <2>3. [Put(h, c) EXCEPT !.held[h.buf].error = @ \/ c.used # FrameLen] = Put(h, d)
    BY <2>1, <1>1 DEF Put, Hand
  <2>4. Delivered(Put(h, c)) = NextBuffer(Put(h, d))
    BY <2>1, <2>3, <1>3 DEF Delivered
  <2>5. /\ Put(h, d) \in Hand /\ HandOwns(Put(h, d)) /\ Keeps(h, Put(h, d))
        /\ Put(h, d).held[h.buf] = d /\ Put(h, d).buf = h.buf
        /\ Put(h, d).irqqueue = h.irqqueue
        /\ \A b \in Buffer \ {h.buf} : Put(h, d).held[b] = h.held[b]
    BY ZenonT(30), Puts, <1>1, <2>2
  <2> HIDE DEF d
  <2>6. RestFresh(Put(h, d)) /\ \A b \in Buffer \ {h.buf} : Whole(Put(h, d).held[b])
    BY <2>5, <1>1, RestStaysFresh DEF HandFills
  <2>7. LET g == NextBuffer(Put(h, d))
        IN /\ HandOK(g, n + 1) /\ Keeps(Put(h, d), g)
           /\ g.irqqueue # <<>> => g.held[g.irqqueue[1]] = Empty("queued")
    BY <2>2, <2>5, <2>6, HandsOver
  <2> QED BY <2>4, <2>5, <2>7, KeepsOn
<1>4. CASE o.used = FrameLen
  <2>1. full \in Content /\ full.state = "ready" /\ full.used = o.used /\ full.torn = o.torn
        /\ full.error = o.error /\ full.cut = o.cut
    BY <1>1 DEF Content
  <2>2. ~Spoilt(full) => ~full.torn
    BY <2>1, <1>1, <1>2, <1>4 DEF Part, Spoilt
  <2>3. DecodeData(h) = Put(h, full)
    BY <1>4 DEF DecodeData, Put
  <2>4. DecodeEnd(Put(h, full)) = Put(h, full)
    <3>1. Put(h, full).held = [h.held EXCEPT ![h.buf] = full] /\ Put(h, full).buf = h.buf
      BY Puts, <1>1, <2>1
    <3>2. [full EXCEPT !.state = "ready"] = full
      BY <2>1 DEF Content
    <3> QED BY <3>1, <3>2, <1>1 DEF DecodeEnd, Put, Hand
  <2> HIDE DEF full
  <2>5. LET g == Delivered(Put(h, full))
        IN /\ HandOK(g, n + 1) /\ Keeps(h, g)
           /\ g.irqqueue # <<>> => g.held[g.irqqueue[1]] = Empty("queued")
    BY <1>3, <2>1, <2>2
  <2> QED BY <2>3, <2>4, <2>5 DEF Empty
<1>5. CASE o.used # FrameLen
  <2>1. /\ more \in Content /\ more.state = "active" /\ more.used = o.used + 1
        /\ more.torn = torn /\ more.current = TRUE
        /\ more.error = o.error /\ more.cut = o.cut
    <3>1. torn \in BOOLEAN
      BY <1>1 DEF Content, Fits
    <3>2. o.used + 1 \in 0 .. FrameLen
      BY <1>1, <1>5 DEF Content
    <3> HIDE DEF torn
    <3>3. more \in Content
      BY <3>1, <3>2, <1>1 DEF Content
    <3>4. /\ more.state = o.state /\ more.used = o.used + 1 /\ more.torn = torn
          /\ more.current = TRUE /\ more.error = o.error /\ more.cut = o.cut
      BY <3>1, <3>2, <1>1 DEF Content
    <3> QED BY <3>3, <3>4, <1>2
  <2>2. DecodeData(h) = Put(h, more)
    BY <1>5 DEF DecodeData, Put
  <2> HIDE DEF more
  <2>3. ~Spoilt(more) => more.used < n + 1 /\ (more.torn => more.used + 1 < n + 1)
    <3> SUFFICES ASSUME ~Spoilt(more)
                 PROVE  more.used < n + 1 /\ (more.torn => more.used + 1 < n + 1)
      OBVIOUS
    <3>1. ~Spoilt(o) /\ o.used \in 0 .. FrameLen
      BY <2>1, <1>1 DEF Spoilt, Content
    <3>2. more.torn => o.torn \/ ~Fits(o)
      BY <2>1
    <3>3. CASE o.used = 0
      <4>1. ~o.torn
        BY <3>3, <1>2 DEF Part
      <4>2. n # 1 => n > 1
        BY <1>1
      <4> QED BY <3>2, <3>3, <4>1, <4>2, <2>1, <1>1 DEF Fits
    <3>4. CASE o.used # 0
      <4>1. o.current /\ o.used < n /\ (o.torn => o.used + 1 < n)
        BY <3>1, <3>4, <1>2 DEF Part
      <4>2. ~Fits(o) => o.used + 1 < n
        BY <4>1, <3>1, <1>1 DEF Fits
      <4>3. more.torn => o.used + 1 < n
        BY <3>2, <4>1, <4>2
      <4> QED BY <4>1, <4>3, <2>1, <3>1, <1>1
    <3> QED BY <3>3, <3>4
  <2>4. Part(more, camera.fid, n + 1)
    <3>1. more.used # 0
      BY <2>1, <1>1 DEF Content
    <3> QED BY <3>1, <2>1, <2>3 DEF Part
  <2>5. /\ Put(h, more).held[h.buf] = more /\ Put(h, more).buf = h.buf
        /\ HandOK(Put(h, more), n + 1) /\ Keeps(h, Put(h, more))
    BY ZenonT(30), Puts, PutsPart, <1>1, <2>1, <2>4
  <2>6. CASE ~Eof
    <3>1. DecodeEnd(Put(h, more)) = Put(h, more)
      BY <2>6 DEF DecodeEnd
    <3>2. Delivered(Put(h, more)) = Put(h, more)
      BY <2>1, <2>5 DEF Delivered
    <3> QED BY <3>1, <3>2, <2>2, <2>5, <2>6
  <2>7. CASE Eof
    <3>1. /\ end \in Content /\ end.state = "ready" /\ end.used = more.used
          /\ end.torn = more.torn /\ end.error = more.error /\ end.cut = more.cut
      BY <2>1 DEF Content
    <3>2. ~Spoilt(end) /\ end.used = FrameLen => ~end.torn
      BY <3>1, <2>3, <2>7, <1>1 DEF Eof, Spoilt
    <3>3. more.used # 0
      BY <2>1, <1>1 DEF Content
    <3>4. [Put(h, more) EXCEPT !.held[h.buf].state = "ready"] = Put(h, end)
      BY <2>5, <1>1 DEF Put, Hand
    <3>5. DecodeEnd(Put(h, more)) = Put(h, end)
      BY <2>5, <2>7, <3>3, <3>4 DEF DecodeEnd
    <3> HIDE DEF end
    <3>6. LET g == Delivered(Put(h, end))
          IN /\ HandOK(g, n + 1) /\ Keeps(h, g)
             /\ g.irqqueue # <<>> => g.held[g.irqqueue[1]] = Empty("queued")
      BY <1>3, <3>1, <3>2
    <3> QED BY <2>2, <3>5, <3>6 DEF Empty
  <2> QED BY <2>6, <2>7
<1> QED BY <1>4, <1>5

\* A payload, whatever has become of it on its way.
LEMMA Decodes ==
  ASSUME NEW h, HandOK(h, camera.next), CameraType, NEW p \in Payload
  PROVE  LET g == Decoded(h, p)
         IN /\ Keeps(h, g)
            /\ p.kind = "empty" => HandOK(g, camera.next)
            /\ p.kind # "empty" =>
                 /\ HandOK(g, camera.next + 1)
                 /\ Eof /\ g.irqqueue # <<>> =>
                      LET c == g.held[g.irqqueue[1]] IN c.used = 0 \/ Spoilt(c)
<1> DEFINE n == camera.next
           o == h.held[h.buf]
\* What a payload that is no part of the frame leaves.
<1>1. ASSUME NEW g, HandOK(g, n),
             Eof /\ g.irqqueue # <<>> =>
               LET c == g.held[g.irqqueue[1]] IN c.used = 0 \/ Spoilt(c)
      PROVE  HandOK(g, n + 1)
  <2>1. n \in 1 .. FrameLen
    BY DEF CameraType
  <2>2. ASSUME g.irqqueue # <<>> PROVE Part(g.held[g.irqqueue[1]], g.fid, n + 1)
    <3> DEFINE c == g.held[g.irqqueue[1]]
    <3>1. c.used \in Nat
      <4>1. g.irqqueue[1] \in Buffer /\ g.held \in [Buffer -> Content]
        BY <1>1, <2>2, SetOfTail DEF HandOK, Hand
      <4>2. c \in Content
        BY <4>1
      <4> HIDE DEF c
      <4> QED BY <4>2 DEF Content
    <3>2. Part(c, g.fid, n)
      BY <1>1, <2>2 DEF HandOK, HandFills
    <3> HIDE DEF c
    <3>3. n \in Nat
      BY <2>1
    <3>4. c.used < n => c.used < n + 1
      BY <3>1, <3>3
    <3>5. c.used + 1 < n => c.used + 1 < n + 1
      BY <3>1, <3>3
    <3>6. Part(c, g.fid, n + 1)
      BY <3>2, <3>4, <3>5 DEF Part
    <3> QED BY <3>6 DEF c
  <2> QED BY <1>1, <2>2 DEF HandOK, HandFills
<1>2. h \in Hand /\ HandOwns(h) /\ HandFills(h, n)
  BY DEF HandOK
<1>3. ASSUME h.buf # None
      PROVE  /\ h.irqqueue # <<>> /\ h.buf = h.irqqueue[1] /\ h.buf \in Buffer
             /\ o \in Content /\ h.held \in [Buffer -> Content]
             /\ Part(o, h.fid, n)
  BY <1>2, <1>3 DEF HandOwns, Hand, HandFills
<1>4. Keeps(h, h)
  BY DEF Keeps
<1>5. ASSUME h.buf = None
      PROVE  h.irqqueue # <<>> => h.held[h.irqqueue[1]].used = 0
  BY <1>2, <1>5 DEF HandFills, Empty
<1>6. CASE p.kind = "bad"
  <2>1. CASE h.buf # None /\ (Eof \/ camera.fid # h.fid)
    <3> DEFINE cut == o.cut \/ o.state = "active"
               c == [o EXCEPT !.cut = cut]
    <3>1. cut \in BOOLEAN
      BY <1>3, <2>1 DEF Content
    <3>2. Decoded(h, p) = Put(h, c)
      BY <1>6, <2>1 DEF Decoded, Put
    <3>3. /\ c \in Content /\ c.state = o.state /\ c.used = o.used /\ c.torn = o.torn
          /\ c.cut = cut /\ c.current = o.current /\ c.error = o.error
      <4> HIDE DEF cut
      <4> QED BY <3>1, <1>3, <2>1 DEF Content
    <3> HIDE DEF c
    <3>4. c.used # 0 => Spoilt(c)
      BY <3>3, <1>3, <2>1 DEF Part, Spoilt
    <3>5. Part(c, h.fid, n)
      BY <3>3, <3>4, <1>3, <2>1 DEF Part
    <3>6. /\ HandOK(Put(h, c), n) /\ Keeps(h, Put(h, c))
          /\ Put(h, c).held[h.irqqueue[1]] = c /\ Put(h, c).irqqueue = h.irqqueue
      <4>1. HandOK(Put(h, c), n)
        BY <3>3, <3>5, <1>2, <2>1, PutsPart
      <4>2. h \in Hand /\ HandOwns(h) /\ h.buf # None /\ c \in Content
        BY <1>2, <2>1, <3>3
      <4>3. /\ Keeps(h, Put(h, c)) /\ Put(h, c).held[h.buf] = c
            /\ Put(h, c).irqqueue = h.irqqueue
        BY <4>2, Puts
      <4>4. h.buf = h.irqqueue[1]
        BY <1>3, <2>1
      <4> QED BY <4>1, <4>3, <4>4
    <3> QED BY <3>2, <3>4, <3>6, <1>1, <1>6
  <2>2. CASE ~(h.buf # None /\ (Eof \/ camera.fid # h.fid))
    <3>1. Decoded(h, p) = h
      BY <1>6, <2>2 DEF Decoded
    <3>2. Eof /\ h.irqqueue # <<>> => h.held[h.irqqueue[1]].used = 0
      BY <1>5, <2>2
    <3> QED BY <3>1, <3>2, <1>1, <1>4, <1>6
  <2> QED BY <2>1, <2>2
<1>7. CASE p.kind = "lost"
  <2>1. CASE h.buf # None
    <3> DEFINE c == [o EXCEPT !.error = TRUE]
    <3>1. Decoded(h, p) = Put(h, c)
      BY <1>7, <2>1 DEF Decoded, Put
    <3>2. /\ c \in Content /\ c.state = o.state /\ c.used = o.used /\ c.torn = o.torn
          /\ c.error = TRUE
      BY <1>3, <2>1 DEF Content
    <3> HIDE DEF c
    <3>3. Spoilt(c) /\ Part(c, h.fid, n)
      BY <3>2, <1>3, <2>1 DEF Part, Spoilt
    <3>4. /\ HandOK(Put(h, c), n) /\ Keeps(h, Put(h, c))
          /\ Put(h, c).held[h.irqqueue[1]] = c /\ Put(h, c).irqqueue = h.irqqueue
      <4>1. HandOK(Put(h, c), n)
        BY <3>2, <3>3, <1>2, <2>1, PutsPart
      <4>2. h \in Hand /\ HandOwns(h) /\ h.buf # None /\ c \in Content
        BY <1>2, <2>1, <3>2
      <4>3. /\ Keeps(h, Put(h, c)) /\ Put(h, c).held[h.buf] = c
            /\ Put(h, c).irqqueue = h.irqqueue
        BY <4>2, Puts
      <4>4. h.buf = h.irqqueue[1]
        BY <1>3, <2>1
      <4> QED BY <4>1, <4>3, <4>4
    <3> QED BY <3>1, <3>3, <3>4, <1>1, <1>7
  <2>2. CASE h.buf = None
    <3>1. Decoded(h, p) = h
      BY <1>7, <2>2 DEF Decoded
    <3> QED BY <3>1, <1>1, <1>4, <1>5, <1>7, <2>2
  <2> QED BY <2>1, <2>2
<1>8. CASE p.kind = "empty"
  <2>1. Decoded(h, p) = Started(h, p).h
    BY <1>8 DEF Decoded
  <2> QED BY <2>1, <1>8, StartsAgain
<1>9. CASE p.kind = "data"
  <2> DEFINE s == Started(h, p)
  <2>1. /\ HandOK(s.h, n) /\ Keeps(h, s.h) /\ s.ret \in {"skip", "data"}
        /\ s.ret = "skip" /\ s.h.irqqueue # <<>> => s.h.held[s.h.irqqueue[1]].used = 0
        /\ s.ret = "data" =>
             s.h.buf # None /\ s.h.held[s.h.buf].state = "active" /\ s.h.fid = camera.fid
    BY StartsAgain
  <2>2. Decoded(h, p) = IF s.ret = "data" THEN Delivered(DecodeEnd(DecodeData(s.h))) ELSE s.h
    BY <1>9 DEF Decoded
  <2> HIDE DEF s
  <2>3. CASE s.ret = "data"
    BY <2>1, <2>2, <2>3, <1>9, TakesData, KeepsOn
  <2>4. CASE s.ret = "skip"
    BY <2>1, <2>2, <2>4, <1>1, <1>9
  <2> QED BY <2>1, <2>3, <2>4
<1> QED BY <1>6, <1>7, <1>8, <1>9 DEF Payload

-----------------------------------------------------------------------------
(***************************************************************************)
(* DecodePayload, as a step of the queue.                                  *)
(***************************************************************************)
InHand == [buf |-> handler.buf, held |-> held, irqqueue |-> irqqueue,
           vb |-> vb, done |-> done, fid |-> lastFid]

LEMMA InHandOK ==
  ASSUME IInv, handler.busy
  PROVE  HandOK(InHand, camera.next) /\ CameraType
<1> DEFINE h == InHand
<1>1. /\ h.buf = handler.buf /\ h.held = held /\ h.irqqueue = irqqueue
      /\ h.vb = vb /\ h.done = done /\ h.fid = lastFid
  BY DEF InHand
<1>2. /\ QueueTypeOK /\ CameraType /\ lastFid \in Fid \cup {NoFid}
      /\ handler.buf \in Buffer \cup {None}
  BY DEF IInv, TypeOK, VideoTypeOK, CameraType
<1>3. h \in Hand
  BY <1>2 DEF Hand, QueueTypeOK, VbState, InHand
<1> HIDE DEF h
<1>4. IsInjective(irqqueue) /\ IsInjective(done)
  <2>1. /\ irqqueue \o done \in Seq(Buffer) /\ posted \in Seq(Buffer)
        /\ irqqueue \in Seq(Buffer) /\ done \in Seq(Buffer)
    BY <1>2, ConcatProperties DEF QueueTypeOK
  <2>2. IsInjective((irqqueue \o done) \o posted)
    BY DEF IInv, OneOwner
  <2>3. IsInjective(irqqueue \o done)
    BY <2>1, <2>2, SetOfConcat
  <2> QED BY <2>1, <2>3, SetOfConcat
<1>5. HandOwns(h)
  BY <1>1, <1>4 DEF HandOwns, IInv, OneOwner
<1>6. HandFills(h, camera.next)
  <2>1. \A b \in Buffer : Whole(held[b])
    BY DEF IInv, FillInv, Whole
  <2>2. \A i \in 2 .. Len(irqqueue) : held[irqqueue[i]] = Empty("queued")
    BY DEF IInv, FillInv, Fresh
  <2>3. ASSUME irqqueue # <<>>
        PROVE  /\ Part(held[irqqueue[1]], lastFid, camera.next)
               /\ handler.buf = None => held[irqqueue[1]] = Empty("queued")
    BY <2>3 DEF IInv, FillInv, Part, Growing, Fresh
  <2> QED BY <1>1, <2>1, <2>2, <2>3 DEF HandFills, RestFresh
<1> QED BY <1>2, <1>3, <1>5, <1>6 DEF HandOK, h

\* What the camera's going on does to what is in the buffers.
Same(c, d) ==
  /\ d.state = c.state /\ d.error = c.error /\ d.used = c.used /\ d.torn = c.torn
  /\ c = Empty("queued") => d = c

LEMMA Ages ==
  ASSUME NEW x \in [Buffer -> Content]
  PROVE  /\ Aged(x) \in [Buffer -> Content]
         /\ \A b \in Buffer : Same(x[b], Aged(x)[b]) /\ Aged(x)[b].cut = x[b].cut
         /\ ~Eof => Aged(x) = x
<1> DEFINE y(b) == [x[b] EXCEPT !.current = FALSE]
<1>1. ASSUME NEW b \in Buffer
      PROVE  y(b) \in Content /\ Same(x[b], y(b)) /\ y(b).cut = x[b].cut
  <2> DEFINE c == x[b]
  <2>1. c \in Content
    OBVIOUS
  <2> HIDE DEF c
  <2> DEFINE d == [c EXCEPT !.current = FALSE]
  <2>2. d \in Content /\ d.cut = c.cut
    BY <2>1 DEF Content
  <2>3. d.state = c.state /\ d.error = c.error /\ d.used = c.used /\ d.torn = c.torn
    BY <2>1 DEF Content
  <2>4. c = Empty("queued") => d = c
    <3>1. c = Empty("queued") => c.current = FALSE
      BY DEF Empty
    <3> QED BY <3>1, <2>1 DEF Content
  <2>5. y(b) = d
    BY DEF c
  <2> HIDE DEF d
  <2> QED BY <2>2, <2>3, <2>4, <2>5 DEF c, Same
<1> HIDE DEF y
<1>2. Aged(x) = IF Eof THEN [b \in Buffer |-> y(b)] ELSE x
  BY DEF Aged, y
<1> QED BY <1>1, <1>2 DEF Same

LEMMA Cuts ==
  ASSUME NEW x \in [Buffer -> Content]
  PROVE  /\ Cut(x) \in [Buffer -> Content]
         /\ \A b \in Buffer : /\ Same(x[b], Cut(x)[b])
                              /\ x[b].cut => Cut(x)[b].cut
                              /\ x[b].state = "active" => Cut(x)[b].cut
<1> DEFINE y(b) == [x[b] EXCEPT !.cut = @ \/ x[b].state = "active"]
<1>1. ASSUME NEW b \in Buffer
      PROVE  /\ y(b) \in Content /\ Same(x[b], y(b))
             /\ (x[b].cut => y(b).cut) /\ (x[b].state = "active" => y(b).cut)
  <2> DEFINE c == x[b]
             t == c.cut \/ c.state = "active"
             d == [c EXCEPT !.cut = t]
  <2>1. c \in Content
    OBVIOUS
  <2> HIDE DEF c
  <2>2. t \in BOOLEAN /\ (c = Empty("queued") => t = FALSE /\ c.cut = FALSE)
    BY <2>1 DEF Content, Empty
  <2>3. (c.cut => t) /\ (c.state = "active" => t)
    OBVIOUS
  <2> HIDE DEF t
  <2>4. d \in Content /\ d.cut = t
    BY <2>1, <2>2 DEF Content
  <2>5. d.state = c.state /\ d.error = c.error /\ d.used = c.used /\ d.torn = c.torn
    BY <2>1, <2>2 DEF Content
  <2>6. c = Empty("queued") => d = c
    BY <2>1, <2>2 DEF Content
  <2>7. y(b) = d
    BY DEF c, t
  <2> QED BY <2>3, <2>4, <2>5, <2>6, <2>7 DEF c, Same
<1> HIDE DEF y
<1>2. Cut(x) = [b \in Buffer |-> y(b)]
  BY DEF Cut, y
<1> QED BY <1>1, <1>2

LEMMA Sends ==
  ASSUME CameraType, CameraSends
  PROVE  /\ CameraType' /\ camera'.on = camera.on
         /\ ~Eof => camera'.fid = camera.fid /\ camera'.next = camera.next + 1
<1> DEFINE f == 1 - camera.fid
<1>1. f \in Fid /\ camera.next \in 1 .. FrameLen
  BY DEF CameraType, Fid
<1>2. CASE Eof
  <2>1. camera' = [camera EXCEPT !.fid = f, !.next = 1]
    BY <1>2 DEF CameraSends
  <2>2. 1 \in 1 .. FrameLen
    OBVIOUS
  <2>3. camera \in [on : BOOLEAN, fid : Fid, next : 1 .. FrameLen]
    BY DEF CameraType
  <2> HIDE DEF f
  <2>4. camera' \in [on : BOOLEAN, fid : Fid, next : 1 .. FrameLen] /\ camera'.on = camera.on
    BY <1>1, <2>1, <2>2, <2>3
  <2> QED BY <1>2, <2>4 DEF CameraType
<1>3. CASE ~Eof
  <2>1. camera' = [camera EXCEPT !.next = camera.next + 1] /\ camera.next + 1 \in 1 .. FrameLen
    BY <1>1, <1>3 DEF CameraSends, Eof
  <2> QED BY <1>1, <1>3, <2>1 DEF CameraType
<1> QED BY <1>2, <1>3

Grows(c, fid, cam) ==
  /\ c.current /\ fid = cam.fid /\ c.used < cam.next
  /\ c.torn => c.used + 1 < cam.next

LEMMA PayloadStep ==
  ASSUME IInv, DecodePayload
  PROVE  /\ held' \in [Buffer -> Content] /\ vb' \in [Buffer -> VbState]
         /\ irqqueue' \in Seq(Buffer) /\ done' \in Seq(Buffer)
         /\ lastFid' \in Fid \cup {NoFid} /\ CameraType'
         /\ handler' \in [left : 0 .. PerUrb, buf : Buffer \cup {None}, busy : {TRUE}]
         /\ \A b \in Buffer : /\ vb'[b] = "active" <=> b \in ToSet(irqqueue')
                              /\ vb'[b] = "done" <=> b \in ToSet(done')
         /\ IsInjective(irqqueue') /\ IsInjective(done')
         /\ handler'.buf # None => irqqueue' # <<>> /\ handler'.buf = irqqueue'[1]
         /\ \A b \in Buffer : held'[b].state = "done" /\ ~held'[b].cut
                                => ~held'[b].torn /\ held'[b].used = FrameLen
         /\ \A i \in 2 .. Len(irqqueue') : held'[irqqueue'[i]] = Empty("queued")
         /\ irqqueue' # <<>> =>
              LET c == held'[irqqueue'[1]]
              IN /\ c.state \in {"queued", "active"}
                 /\ c.used = 0 => ~c.torn
                 /\ c.used # 0 => c.state = "active" /\ (Spoilt(c) \/ Grows(c, lastFid', camera'))
                 /\ handler'.buf = None => c = Empty("queued")
         /\ \A b \in Buffer :
              /\ vb[b] = "queued" /\ Fresh(b) => held'[b] = Empty("queued")
              /\ vb'[b] = "dequeued" <=> vb[b] = "dequeued"
              /\ vb'[b] = "queued" <=> vb[b] = "queued"
         /\ done # <<>> => done' # <<>>
         /\ irqqueue = <<>> => irqqueue' = <<>>
<1>1. PICK p \in Payload :
        LET h == Decoded(InHand, p)
        IN /\ handler' = [handler EXCEPT !.left = @ - 1, !.buf = h.buf]
           /\ irqqueue' = h.irqqueue /\ vb' = h.vb /\ done' = h.done
           /\ lastFid' = h.fid
           /\ IF p.kind = "empty" THEN held' = h.held /\ UNCHANGED camera
              ELSE held' = Aged(h.held) /\ CameraSends
  BY DEF DecodePayload, InHand
<1> DEFINE g == Decoded(InHand, p)
<1>2. HandOK(InHand, camera.next) /\ CameraType
  BY InHandOK DEF DecodePayload
<1>3. /\ Keeps(InHand, g)
      /\ p.kind = "empty" => HandOK(g, camera.next)
      /\ p.kind # "empty" =>
           /\ HandOK(g, camera.next + 1)
           /\ Eof /\ g.irqqueue # <<>> =>
                LET c == g.held[g.irqqueue[1]] IN c.used = 0 \/ Spoilt(c)
  BY <1>2, Decodes
<1>4. /\ handler' = [handler EXCEPT !.left = @ - 1, !.buf = g.buf]
      /\ irqqueue' = g.irqqueue /\ vb' = g.vb /\ done' = g.done /\ lastFid' = g.fid
      /\ p.kind = "empty" => held' = g.held /\ UNCHANGED camera
      /\ p.kind # "empty" => held' = Aged(g.held) /\ CameraSends
  BY <1>1
<1> HIDE DEF g
<1>5. PICK n : HandOK(g, n)
  BY <1>3
<1>6. /\ irqqueue' \in Seq(Buffer) /\ done' \in Seq(Buffer) /\ vb' \in [Buffer -> VbState]
      /\ lastFid' \in Fid \cup {NoFid} /\ g.buf \in Buffer \cup {None}
      /\ g.held \in [Buffer -> Content]
  BY <1>4, <1>5 DEF HandOK, Hand
<1>7. /\ held' \in [Buffer -> Content] /\ CameraType'
      /\ \A b \in Buffer : Same(g.held[b], held'[b]) /\ held'[b].cut = g.held[b].cut
  <2>1. CASE p.kind = "empty"
    BY <2>1, <1>2, <1>4, <1>6 DEF Same, CameraType
  <2>2. CASE p.kind # "empty"
    BY <2>2, <1>2, <1>4, <1>6, Ages, Sends
  <2> QED BY <2>1, <2>2
<1>8. handler' \in [left : 0 .. PerUrb, buf : Buffer \cup {None}, busy : {TRUE}] /\ handler'.buf = g.buf
  <2>1. /\ handler \in [left : 0 .. PerUrb, buf : Buffer \cup {None}, busy : BOOLEAN]
        /\ handler.busy /\ handler.left > 0
    BY DEF IInv, TypeOK, VideoTypeOK, DecodePayload
  <2>2. handler.left - 1 \in 0 .. PerUrb
    BY <2>1
  <2> QED BY <2>1, <2>2, <1>4, <1>6
<1>9. /\ \A b \in Buffer : /\ vb'[b] = "active" <=> b \in ToSet(irqqueue')
                           /\ vb'[b] = "done" <=> b \in ToSet(done')
      /\ IsInjective(irqqueue') /\ IsInjective(done')
      /\ handler'.buf # None => irqqueue' # <<>> /\ handler'.buf = irqqueue'[1]
  BY <1>4, <1>5, <1>8 DEF HandOK, HandOwns
<1>10. \A b \in Buffer : held'[b].state = "done" /\ ~held'[b].cut
                           => ~held'[b].torn /\ held'[b].used = FrameLen
  BY <1>5, <1>7 DEF HandOK, HandFills, Whole, Same
<1>11. \A i \in 2 .. Len(irqqueue') : held'[irqqueue'[i]] = Empty("queued")
  <2> SUFFICES ASSUME NEW i \in 2 .. Len(irqqueue')
               PROVE  held'[irqqueue'[i]] = Empty("queued")
    OBVIOUS
  <2>1. g.held[irqqueue'[i]] = Empty("queued")
    BY <1>4, <1>5 DEF HandOK, HandFills, RestFresh
  <2>2. irqqueue'[i] \in Buffer
    BY <1>6, ElementOfSeq, LenProperties
  <2> QED BY <2>1, <2>2, <1>7 DEF Same
<1>12. ASSUME irqqueue' # <<>>
       PROVE  LET c == held'[irqqueue'[1]]
              IN /\ c.state \in {"queued", "active"}
                 /\ c.used = 0 => ~c.torn
                 /\ c.used # 0 => c.state = "active" /\ (Spoilt(c) \/ Grows(c, lastFid', camera'))
                 /\ handler'.buf = None => c = Empty("queued")
  <2> DEFINE c == held'[irqqueue'[1]]
             d == g.held[irqqueue'[1]]
  <2>1. irqqueue'[1] \in Buffer
    BY <1>6, <1>12, SetOfTail
  <2>2. Same(d, c) /\ c.cut = d.cut
    BY <1>7, <2>1
  <2>3. g.buf = None => d = Empty("queued")
    BY <1>4, <1>5, <1>12 DEF HandOK, HandFills
  <2>4. CASE p.kind = "empty"
    <3>1. Part(d, g.fid, camera.next) /\ c = d /\ camera' = camera
      BY <2>4, <1>3, <1>4, <1>12 DEF HandOK, HandFills
    <3> HIDE DEF c, d
    <3> QED BY <3>1, <2>3, <1>4, <1>8 DEF Part, Grows, c
  <2>5. CASE p.kind # "empty" /\ Eof
    <3>1. Part(d, g.fid, camera.next + 1) /\ (d.used = 0 \/ Spoilt(d))
      BY <2>5, <1>3, <1>4, <1>12 DEF HandOK, HandFills
    <3> HIDE DEF d
    <3> QED BY <3>1, <2>2, <2>3, <1>8 DEF Part, Same, Spoilt
  <2>6. CASE p.kind # "empty" /\ ~Eof
    <3>1. Part(d, g.fid, camera.next + 1)
      BY <2>6, <1>3, <1>4, <1>12 DEF HandOK, HandFills
    <3>2. c = d /\ camera'.fid = camera.fid /\ camera'.next = camera.next + 1
      BY <2>6, <1>2, <1>4, <1>6, Ages, Sends
    <3> QED BY <3>1, <3>2, <2>3, <1>4, <1>8 DEF Part, Grows
  <2> QED BY <2>4, <2>5, <2>6
<1>13. \A b \in Buffer :
         /\ vb[b] = "queued" /\ Fresh(b) => held'[b] = Empty("queued")
         /\ vb'[b] = "dequeued" <=> vb[b] = "dequeued"
         /\ vb'[b] = "queued" <=> vb[b] = "queued"
  BY <1>3, <1>4, <1>7 DEF Keeps, InHand, Fresh, Same
<1>14. (done # <<>> => done' # <<>>) /\ (irqqueue = <<>> => irqqueue' = <<>>)
  BY <1>3, <1>4 DEF Keeps, InHand
<1> QED BY <1>6, <1>7, <1>8, <1>9, <1>10, <1>11, <1>12, <1>13, <1>14

-----------------------------------------------------------------------------
(***************************************************************************)
(* Types, and who is doing what.                                           *)
(***************************************************************************)
LEMMA InvInit == Init => IInv
<1> SUFFICES ASSUME Init PROVE IInv
  OBVIOUS
<1> USE DEF Init, VideoInit, QueueInit
<1>1. TypeOK
  <2>1. Empty("idle") \in Content
    BY EmptyContent
  <2>2. held \in [Buffer -> Content] /\ vb \in [Buffer -> {"dequeued", "queued", "active", "done"}]
    BY <2>1
  <2>3. QueueTypeOK
    BY <2>2, EmptySeq DEF QueueTypeOK
  <2>4. handler \in [left : 0 .. PerUrb, buf : Buffer \cup {None}, busy : BOOLEAN]
    BY DEF Idle
  <2>5. camera \in [on : BOOLEAN, fid : Fid, next : 1 .. FrameLen]
    BY DEF Fid
  <2>6. VideoTypeOK
    <3> HIDE DEF Init
    <3>1. lastFid = NoFid /\ job = "none" /\ inFlight = 0 /\ submitted = 0
      BY DEF Init
    <3>2. clock = FALSE /\ frozen = FALSE /\ plug = "in" /\ power = "on"
      BY DEF Init
    <3>3. lastFid \in Fid \cup {NoFid} /\ job \in Job /\ plug \in {"in", "gone", "unregistered"}
      BY <3>1, <3>2 DEF Job
    <3>4. clock \in BOOLEAN /\ frozen \in BOOLEAN /\ power \in {"on", "falling", "suspended", "rising"}
      BY <3>1, <3>2
    <3>5. inFlight \in 0 .. Urbs /\ submitted \in 0 .. Urbs
      BY <3>1
    <3> QED BY <2>3, <2>4, <2>5, <3>3, <3>4, <3>5 DEF VideoTypeOK
  <2> QED BY <2>6 DEF TypeOK, Place
<1>2. ProcessInv
  BY DEF ProcessInv, Idle
<1>3. OneOwner
  BY SetOfEmpty, ConcatEmptySeq DEF OneOwner, Idle
<1>4. FillInv
  BY SetOfEmpty, EmptySeq DEF FillInv, Empty
<1>5. WaitInv
  BY DEF WaitInv
<1> QED BY <1>1, <1>2, <1>3, <1>4, <1>5 DEF IInv

-----------------------------------------------------------------------------
(***************************************************************************)
(* The steps.                                                              *)
(***************************************************************************)
USE DEF Runs, Registered, Throw

LEMMA StreamIsOnKeeps == IInv /\ StreamIsOn => IInv'
<1> SUFFICES ASSUME IInv, StreamIsOn PROVE IInv'
  OBVIOUS
<1> USE DEF IInv, StreamIsOn, videoVars, queueVars, streamVars, processVars
<1>1. TypeOK'
  <2>1. QueueTypeOK'
    BY DEF TypeOK, VideoTypeOK, QueueTypeOK
  <2>2. VideoTypeOK'
    BY <2>1 DEF TypeOK, VideoTypeOK
  <2> QED BY <2>2 DEF TypeOK, Place
<1>2. ProcessInv'
  BY DEF ProcessInv
<1>3. OneOwner'
  BY DEF OneOwner
<1>4. FillInv'
  BY DEF FillInv, Fresh, Growing
<1>5. WaitInv'
  BY DEF WaitInv, DequeueReady
<1> QED BY <1>1, <1>2, <1>3, <1>4, <1>5

LEMMA LoopKeeps == IInv /\ Loop => IInv'
<1> SUFFICES ASSUME IInv, Loop PROVE IInv'
  OBVIOUS
<1> USE DEF IInv, Loop, PollReady, videoVars, queueVars, streamVars, processVars
<1>1. TypeOK'
  <2>1. QueueTypeOK'
    BY DEF TypeOK, VideoTypeOK, QueueTypeOK
  <2>2. VideoTypeOK'
    BY <2>1 DEF TypeOK, VideoTypeOK
  <2> QED BY <2>2 DEF TypeOK, Place
<1>2. ProcessInv'
  BY DEF ProcessInv
<1>3. OneOwner'
  BY DEF OneOwner
<1>4. FillInv'
  BY DEF FillInv, Fresh, Growing
<1>5. WaitInv'
  BY DEF WaitInv, DequeueReady
<1> QED BY <1>1, <1>2, <1>3, <1>4, <1>5

LEMMA CallDequeueKeeps == IInv /\ CallDequeue => IInv'
<1> SUFFICES ASSUME IInv, CallDequeue PROVE IInv'
  OBVIOUS
<1> USE DEF IInv, CallDequeue, videoVars, queueVars, streamVars, processVars
<1>1. TypeOK'
  <2>1. QueueTypeOK'
    BY DEF TypeOK, VideoTypeOK, QueueTypeOK
  <2>2. VideoTypeOK'
    BY <2>1 DEF TypeOK, VideoTypeOK
  <2> QED BY <2>2 DEF TypeOK, Place
<1>2. ProcessInv'
  BY DEF ProcessInv
<1>3. OneOwner'
  BY DEF OneOwner
<1>4. FillInv'
  BY DEF FillInv, Fresh, Growing
<1>5. WaitInv'
  BY DEF WaitInv, DequeueReady
<1> QED BY <1>1, <1>2, <1>3, <1>4, <1>5

LEMMA QuitKeeps == IInv /\ Quit => IInv'
<1> SUFFICES ASSUME IInv, Quit PROVE IInv'
  OBVIOUS
<1> USE DEF IInv, Quit, videoVars, queueVars, streamVars, processVars
<1>1. TypeOK'
  <2>1. QueueTypeOK'
    BY DEF TypeOK, VideoTypeOK, QueueTypeOK
  <2>2. VideoTypeOK'
    BY <2>1 DEF TypeOK, VideoTypeOK
  <2> QED BY <2>2 DEF TypeOK, Place
<1>2. ProcessInv'
  BY DEF ProcessInv
<1>3. OneOwner'
  BY DEF OneOwner
<1>4. FillInv'
  BY DEF FillInv, Fresh, Growing
<1>5. WaitInv'
  BY DEF WaitInv, DequeueReady
<1> QED BY <1>1, <1>2, <1>3, <1>4, <1>5

LEMMA CaptureOffKeeps == IInv /\ CaptureOff => IInv'
<1> SUFFICES ASSUME IInv, CaptureOff PROVE IInv'
  OBVIOUS
<1> USE DEF IInv, CaptureOff, videoVars, queueVars, streamVars, processVars
<1>1. TypeOK'
  <2>1. QueueTypeOK'
    BY DEF TypeOK, VideoTypeOK, QueueTypeOK
  <2>2. VideoTypeOK'
    BY <2>1 DEF TypeOK, VideoTypeOK, Job
  <2> QED BY <2>2 DEF TypeOK, Place
<1>2. ProcessInv'
  BY DEF ProcessInv, TypeOK, VideoTypeOK
<1>3. OneOwner'
  BY DEF OneOwner
<1>4. FillInv'
  BY DEF FillInv, Fresh, Growing
<1>5. WaitInv'
  BY DEF WaitInv, DequeueReady
<1> QED BY <1>1, <1>2, <1>3, <1>4, <1>5

LEMMA CloseKeeps == IInv /\ Close => IInv'
<1> SUFFICES ASSUME IInv, Close PROVE IInv'
  OBVIOUS
<1> USE DEF IInv, Close, videoVars, queueVars, streamVars, processVars
<1>1. TypeOK'
  <2>1. QueueTypeOK'
    BY DEF TypeOK, VideoTypeOK, QueueTypeOK
  <2>2. VideoTypeOK'
    BY <2>1 DEF TypeOK, VideoTypeOK, Job
  <2> QED BY <2>2 DEF TypeOK, Place
<1>2. ProcessInv'
  BY DEF ProcessInv
<1>3. OneOwner'
  BY DEF OneOwner
<1>4. FillInv'
  BY DEF FillInv, Fresh, Growing
<1>5. WaitInv'
  BY DEF WaitInv, DequeueReady
<1> QED BY <1>1, <1>2, <1>3, <1>4, <1>5

LEMMA SuspendComputerKeeps == IInv /\ SuspendComputer => IInv'
<1> SUFFICES ASSUME IInv, SuspendComputer PROVE IInv'
  OBVIOUS
<1> USE DEF IInv, SuspendComputer, Suspend, appVars, videoVars, queueVars, streamVars, processVars
<1>1. TypeOK'
  <2>1. QueueTypeOK'
    BY DEF TypeOK, VideoTypeOK, QueueTypeOK
  <2>2. VideoTypeOK'
    BY <2>1 DEF TypeOK, VideoTypeOK, Job
  <2> QED BY <2>2 DEF TypeOK, Place
<1>2. ProcessInv'
  BY DEF ProcessInv
<1>3. OneOwner'
  BY DEF OneOwner
<1>4. FillInv'
  BY DEF FillInv, Fresh, Growing, ProcessInv
<1>5. WaitInv'
  BY DEF WaitInv, DequeueReady
<1> QED BY <1>1, <1>2, <1>3, <1>4, <1>5

LEMMA ReplugKeeps == IInv /\ Replug => IInv'
<1> SUFFICES ASSUME IInv, Replug PROVE IInv'
  OBVIOUS
<1> USE DEF IInv, Replug, appVars, videoVars, queueVars, streamVars, processVars
<1>1. TypeOK'
  <2>1. QueueTypeOK'
    BY DEF TypeOK, VideoTypeOK, QueueTypeOK
  <2>2. VideoTypeOK'
    BY <2>1 DEF TypeOK, VideoTypeOK
  <2> QED BY <2>2 DEF TypeOK, Place
<1>2. ProcessInv'
  BY DEF ProcessInv
<1>3. OneOwner'
  BY DEF OneOwner
<1>4. FillInv'
  BY DEF FillInv, Fresh, Growing
<1>5. WaitInv'
  BY DEF WaitInv, DequeueReady
<1> QED BY <1>1, <1>2, <1>3, <1>4, <1>5

LEMMA UrbCompletesKeeps == IInv /\ UrbCompletes /\ UNCHANGED appVars => IInv'
<1> SUFFICES ASSUME IInv, UrbCompletes /\ UNCHANGED appVars PROVE IInv'
  OBVIOUS
<1> USE DEF IInv, UrbCompletes, Given, appVars, videoVars, queueVars, streamVars, processVars
<1>0. FirstBuffer \in Buffer \cup {None} /\ (irqqueue # <<>> => FirstBuffer # None)
  BY SetOfTail DEF TypeOK, VideoTypeOK, QueueTypeOK, FirstBuffer
<1>1. TypeOK'
  <2>1. QueueTypeOK'
    BY DEF TypeOK, VideoTypeOK, QueueTypeOK
  <2>2. handler' \in [left : 0 .. PerUrb, buf : Buffer \cup {None}, busy : BOOLEAN]
    BY <1>0
  <2>3. inFlight' \in 0 .. Urbs
    BY DEF TypeOK, VideoTypeOK
  <2>4. VideoTypeOK'
    BY <2>1, <2>2, <2>3 DEF TypeOK, VideoTypeOK
  <2> QED BY <2>4 DEF TypeOK, Place
<1>2. ProcessInv'
  BY DEF ProcessInv, TypeOK, VideoTypeOK
<1>3. OneOwner'
  BY DEF OneOwner, FirstBuffer
<1>4. FillInv'
  BY <1>0 DEF FillInv, Fresh, Growing
<1>5. WaitInv'
  BY DEF WaitInv, DequeueReady
<1> QED BY <1>1, <1>2, <1>3, <1>4, <1>5

LEMMA ResubmitKeeps == IInv /\ Resubmit /\ UNCHANGED appVars => IInv'
<1> SUFFICES ASSUME IInv, Resubmit /\ UNCHANGED appVars PROVE IInv'
  OBVIOUS
<1> USE DEF IInv, Resubmit, appVars, Idle, videoVars, queueVars, streamVars, processVars
<1>1. TypeOK'
  <2>1. QueueTypeOK'
    BY DEF TypeOK, VideoTypeOK, QueueTypeOK
  <2>2. handler' \in [left : 0 .. PerUrb, buf : Buffer \cup {None}, busy : BOOLEAN]
    BY DEF TypeOK, VideoTypeOK
  <2>3. inFlight' \in 0 .. Urbs
    BY DEF TypeOK, VideoTypeOK, ProcessInv
  <2>4. VideoTypeOK'
    BY <2>1, <2>2, <2>3 DEF TypeOK, VideoTypeOK
  <2> QED BY <2>4 DEF TypeOK, Place
<1>2. ProcessInv'
  <2>1. inFlight \in Nat /\ submitted \in Nat
    BY DEF TypeOK, VideoTypeOK
  <2>2. inFlight + 1 <= submitted
    BY <2>1 DEF ProcessInv
  <2>3. inFlight' \in {inFlight, inFlight + 1} /\ handler' = Idle /\ handler'.busy = FALSE
    OBVIOUS
  <2>4. inFlight' <= submitted' /\ inFlight' \in Nat
    BY <2>1, <2>2, <2>3
  <2>5. inFlight' + (IF handler'.busy THEN 1 ELSE 0) <= submitted'
    <3> HIDE DEF IInv, Resubmit, Idle
    <3> QED BY <2>3, <2>4
  <2> QED BY <2>3, <2>5 DEF ProcessInv
<1>3. OneOwner'
  BY DEF OneOwner
<1>4. FillInv'
  BY DEF FillInv, Fresh, Growing
<1>5. WaitInv'
  BY DEF WaitInv, DequeueReady
<1> QED BY <1>1, <1>2, <1>3, <1>4, <1>5

LEMMA CommitStreamKeeps == IInv /\ CommitStream /\ UNCHANGED appVars => IInv'
<1> SUFFICES ASSUME IInv, CommitStream /\ UNCHANGED appVars PROVE IInv'
  OBVIOUS
<1> USE DEF IInv, CommitStream, appVars, videoVars, queueVars, streamVars, processVars
<1>1. TypeOK'
  <2>1. QueueTypeOK'
    BY DEF TypeOK, VideoTypeOK, QueueTypeOK
  <2>2. camera' \in [on : BOOLEAN, fid : Fid, next : 1 .. FrameLen]
    <3>1. camera' = camera \/ camera' = [on |-> TRUE, fid |-> 0, next |-> 1]
      OBVIOUS
    <3>2. [on |-> TRUE, fid |-> 0, next |-> 1] \in [on : BOOLEAN, fid : Fid, next : 1 .. FrameLen]
      BY DEF Fid
    <3> QED BY <3>1, <3>2 DEF TypeOK, VideoTypeOK
  <2>3. lastFid' \in Fid \cup {NoFid} /\ job' \in Job /\ submitted' \in 0 .. Urbs
    BY DEF TypeOK, VideoTypeOK, Job
  <2>4. VideoTypeOK'
    BY <2>1, <2>2, <2>3 DEF TypeOK, VideoTypeOK
  <2> QED BY <2>4 DEF TypeOK, Place
<1>2. ProcessInv'
  BY DEF ProcessInv, TypeOK, VideoTypeOK
<1>3. OneOwner'
  BY DEF OneOwner
<1>4. FillInv'
  BY DEF FillInv, Fresh, Growing
<1>5. WaitInv'
  BY DEF WaitInv, DequeueReady
<1> QED BY <1>1, <1>2, <1>3, <1>4, <1>5

LEMMA SubmitUrbKeeps == IInv /\ SubmitUrb /\ UNCHANGED appVars => IInv'
<1> SUFFICES ASSUME IInv, SubmitUrb /\ UNCHANGED appVars PROVE IInv'
  OBVIOUS
<1> USE DEF IInv, SubmitUrb, appVars, videoVars, queueVars, streamVars, processVars
<1>1. TypeOK'
  <2>1. QueueTypeOK'
    BY DEF TypeOK, VideoTypeOK, QueueTypeOK
  <2>2. handler' \in [left : 0 .. PerUrb, buf : Buffer \cup {None}, busy : BOOLEAN]
    BY DEF TypeOK, VideoTypeOK
  <2>3. inFlight' \in 0 .. Urbs /\ submitted' \in 0 .. Urbs
    BY DEF TypeOK, VideoTypeOK, ProcessInv
  <2>4. VideoTypeOK'
    BY <2>1, <2>2, <2>3 DEF TypeOK, VideoTypeOK, Job
  <2> QED BY <2>4 DEF TypeOK, Place
<1>2. ProcessInv'
  BY DEF ProcessInv, TypeOK, VideoTypeOK
<1>3. OneOwner'
  BY DEF OneOwner
<1>4. FillInv'
  BY DEF FillInv, Fresh, Growing
<1>5. WaitInv'
  BY DEF WaitInv, DequeueReady
<1> QED BY <1>1, <1>2, <1>3, <1>4, <1>5

LEMMA SubmitFailsKeeps == IInv /\ SubmitFails /\ UNCHANGED appVars => IInv'
<1> SUFFICES ASSUME IInv, SubmitFails /\ UNCHANGED appVars PROVE IInv'
  OBVIOUS
<1> USE DEF IInv, SubmitFails, appVars, videoVars, queueVars, streamVars, processVars
<1>1. TypeOK'
  <2>1. QueueTypeOK'
    BY DEF TypeOK, VideoTypeOK, QueueTypeOK
  <2>2. VideoTypeOK'
    BY <2>1 DEF TypeOK, VideoTypeOK, Job
  <2> QED BY <2>2 DEF TypeOK, Place
<1>2. ProcessInv'
  BY DEF ProcessInv
<1>3. OneOwner'
  BY DEF OneOwner
<1>4. FillInv'
  BY DEF FillInv, Fresh, Growing
<1>5. WaitInv'
  BY DEF WaitInv, DequeueReady
<1> QED BY <1>1, <1>2, <1>3, <1>4, <1>5

LEMMA ResumeKeeps == IInv /\ Resume /\ UNCHANGED appVars => IInv'
<1> SUFFICES ASSUME IInv, Resume /\ UNCHANGED appVars PROVE IInv'
  OBVIOUS
<1> USE DEF IInv, Resume, appVars, videoVars, queueVars, streamVars, processVars
<1>1. TypeOK'
  <2>1. QueueTypeOK'
    BY DEF TypeOK, VideoTypeOK, QueueTypeOK
  <2>2. VideoTypeOK'
    BY <2>1 DEF TypeOK, VideoTypeOK, Job
  <2> QED BY <2>2 DEF TypeOK, Place
<1>2. ProcessInv'
  BY DEF ProcessInv
<1>3. OneOwner'
  BY DEF OneOwner
<1>4. FillInv'
  BY DEF FillInv, Fresh, Growing
<1>5. WaitInv'
  BY DEF WaitInv, DequeueReady
<1> QED BY <1>1, <1>2, <1>3, <1>4, <1>5

LEMMA UnplugKeeps == IInv /\ Unplug /\ UNCHANGED appVars => IInv'
<1> SUFFICES ASSUME IInv, Unplug /\ UNCHANGED appVars PROVE IInv'
  OBVIOUS
<1> USE DEF IInv, Unplug, appVars, videoVars, queueVars, streamVars, processVars
<1>1. TypeOK'
  <2>1. QueueTypeOK'
    BY DEF TypeOK, VideoTypeOK, QueueTypeOK
  <2>2. VideoTypeOK'
    BY <2>1 DEF TypeOK, VideoTypeOK
  <2> QED BY <2>2 DEF TypeOK, Place
<1>2. ProcessInv'
  BY DEF ProcessInv
<1>3. OneOwner'
  BY DEF OneOwner
<1>4. FillInv'
  BY DEF FillInv, Fresh, Growing
<1>5. WaitInv'
  BY DEF WaitInv, DequeueReady
<1> QED BY <1>1, <1>2, <1>3, <1>4, <1>5

LEMMA UnregisterKeeps == IInv /\ Unregister /\ UNCHANGED appVars => IInv'
<1> SUFFICES ASSUME IInv, Unregister /\ UNCHANGED appVars PROVE IInv'
  OBVIOUS
<1> USE DEF IInv, Unregister, appVars, videoVars, queueVars, streamVars, processVars
<1>1. TypeOK'
  <2>1. QueueTypeOK'
    BY DEF TypeOK, VideoTypeOK, QueueTypeOK
  <2>2. VideoTypeOK'
    BY <2>1 DEF TypeOK, VideoTypeOK
  <2> QED BY <2>2 DEF TypeOK, Place
<1>2. ProcessInv'
  BY DEF ProcessInv
<1>3. OneOwner'
  BY DEF OneOwner
<1>4. FillInv'
  BY DEF FillInv, Fresh, Growing
<1>5. WaitInv'
  BY DEF WaitInv, DequeueReady
<1> QED BY <1>1, <1>2, <1>3, <1>4, <1>5

-----------------------------------------------------------------------------
(***************************************************************************)
(* The steps that change the queue.  What OneOwner says of the lists,      *)
(* apart from one another: that they share nothing follows from the states.*)
(***************************************************************************)
Lists ==
  /\ \A b \in Buffer :
       /\ vb[b] = "active" <=> b \in ToSet(irqqueue)
       /\ vb[b] = "done" <=> b \in ToSet(done)
       /\ vb[b] = "queued" <=> b \in ToSet(posted) \/ (pc = "queue" /\ b = cur)
  /\ IsInjective(irqqueue) /\ IsInjective(done) /\ IsInjective(posted)
  /\ handler.buf # None => irqqueue # <<>> /\ handler.buf = irqqueue[1]
  /\ pc = "convert" => vb[cur] = "dequeued"

LEMMA OwnerLists == QueueTypeOK => (OneOwner <=> Lists)
<1> SUFFICES ASSUME QueueTypeOK PROVE OneOwner <=> Lists
  OBVIOUS
<1>1. irqqueue \in Seq(Buffer) /\ done \in Seq(Buffer) /\ posted \in Seq(Buffer)
  BY DEF QueueTypeOK
<1>2. /\ ToSet(irqqueue) \subseteq Buffer /\ ToSet(done) \subseteq Buffer
      /\ ToSet(posted) \subseteq Buffer
  BY <1>1, SetOfSeq
<1>3. IsInjective(irqqueue \o done \o posted) <=>
        /\ IsInjective(irqqueue) /\ IsInjective(done) /\ IsInjective(posted)
        /\ ToSet(irqqueue) \cap ToSet(done) = {}
        /\ ToSet(irqqueue) \cap ToSet(posted) = {} /\ ToSet(done) \cap ToSet(posted) = {}
  BY <1>1, ThreeLists
<1>4. ASSUME OneOwner PROVE Lists
  BY <1>3, <1>4 DEF OneOwner, Lists
<1>5. ASSUME Lists PROVE OneOwner
  <2>1. /\ ToSet(irqqueue) \cap ToSet(done) = {}
        /\ ToSet(irqqueue) \cap ToSet(posted) = {} /\ ToSet(done) \cap ToSet(posted) = {}
    BY <1>2, <1>5 DEF Lists
  <2> QED BY <1>3, <1>5, <2>1 DEF OneOwner, Lists
<1> QED BY <1>4, <1>5

LEMMA InvLists ==
  ASSUME IInv
  PROVE  QueueTypeOK /\ Lists
BY OwnerLists DEF IInv, TypeOK, VideoTypeOK

\* What videobuf2 takes back is the application's again.
Emptied ==
  /\ streaming' = FALSE
  /\ vb' = [b \in Buffer |-> "dequeued"]
  /\ held' = [b \in Buffer |-> Empty("idle")]
  /\ posted' = <<>> /\ irqqueue' = <<>> /\ done' = <<>>
  /\ UNCHANGED disconnected

LEMMA TakenBack ==
  ASSUME IInv, Emptied, UNCHANGED <<handler, appVars>>, job # "none", ~handler.busy
  PROVE  QueueTypeOK' /\ OneOwner' /\ FillInv' /\ WaitInv'
<1> USE DEF Emptied, appVars
<1>1. QueueTypeOK'
  <2>1. Empty("idle") \in Content
    BY EmptyContent
  <2>2. held' \in [Buffer -> Content] /\ vb' \in [Buffer -> {"dequeued", "queued", "active", "done"}]
    BY <2>1
  <2>3. <<>> \in Seq(Buffer)
    BY EmptySeq
  <2> QED BY <2>2, <2>3 DEF QueueTypeOK, IInv, TypeOK, VideoTypeOK
<1>2. pc # "queue" /\ handler.buf = None
  BY DEF IInv, ProcessInv, Idle
<1>3. Lists'
  <2>1. pc = "convert" => cur \in Buffer
    BY DEF IInv, WaitInv
  <2> QED BY <1>2, <2>1, SetOfEmpty DEF Lists
<1>4. OneOwner'
  <2>1. (QueueTypeOK => (OneOwner <=> Lists))'
    BY OwnerLists, PTL
  <2> QED BY <1>1, <1>3, <2>1
<1>5. FillInv'
  BY <1>2, SetOfEmpty, EmptySeq DEF FillInv, Empty
<1>6. WaitInv'
  BY DEF IInv, WaitInv, DequeueReady
<1> QED BY <1>1, <1>4, <1>5, <1>6

LEMMA CommitFailsKeeps == IInv /\ CommitFails /\ UNCHANGED appVars => IInv'
<1> SUFFICES ASSUME IInv, CommitFails /\ UNCHANGED appVars PROVE IInv'
  OBVIOUS
<1> USE DEF CommitFails, streamVars, processVars
<1>1. CASE job = "recommit" /\ streaming
  <2>1. Emptied /\ UNCHANGED <<handler, appVars>> /\ job # "none" /\ ~handler.busy
    BY <1>1 DEF Emptied, QueueDisable, IInv, ProcessInv
  <2>2. QueueTypeOK' /\ OneOwner' /\ FillInv' /\ WaitInv'
    BY <2>1, TakenBack
  <2>3. TypeOK'
    <3>1. VideoTypeOK'
      BY <2>2 DEF IInv, TypeOK, VideoTypeOK, Job
    <3> QED BY <3>1 DEF IInv, TypeOK, appVars
  <2>4. ProcessInv'
    BY <1>1, <2>1 DEF IInv, ProcessInv, Emptied, appVars
  <2> QED BY <2>2, <2>3, <2>4 DEF IInv
<1>2. CASE job = "commit" \/ ~streaming
  <2> USE <1>2 DEF IInv, appVars, queueVars, QueueDisable
  <2>1. TypeOK'
    <3>1. QueueTypeOK'
      BY DEF TypeOK, VideoTypeOK, QueueTypeOK
    <3>2. VideoTypeOK'
      BY <3>1 DEF TypeOK, VideoTypeOK, Job
    <3> QED BY <3>2 DEF TypeOK
  <2>2. ProcessInv'
    BY DEF ProcessInv
  <2>3. OneOwner'
    BY DEF OneOwner
  <2>4. FillInv'
    BY DEF FillInv, Fresh, Growing, ProcessInv
  <2>5. WaitInv'
    BY DEF WaitInv, DequeueReady
  <2> QED BY <2>1, <2>2, <2>3, <2>4, <2>5
<1> QED BY <1>1, <1>2

LEMMA ResumeFailedKeeps == IInv /\ ResumeFailed /\ UNCHANGED appVars => IInv'
<1> SUFFICES ASSUME IInv, ResumeFailed /\ UNCHANGED appVars PROVE IInv'
  OBVIOUS
<1> USE DEF ResumeFailed, Killed, Killing, streamVars, processVars
<1>1. CASE streaming
  <2>1. Emptied /\ UNCHANGED <<handler, appVars>> /\ job # "none" /\ ~handler.busy
    BY <1>1 DEF Emptied, QueueDisable
  <2>2. QueueTypeOK' /\ OneOwner' /\ FillInv' /\ WaitInv'
    BY <2>1, TakenBack
  <2>3. TypeOK'
    <3>1. VideoTypeOK'
      BY <2>2 DEF IInv, TypeOK, VideoTypeOK, Job
    <3> QED BY <3>1 DEF IInv, TypeOK, appVars
  <2>4. ProcessInv'
    BY <1>1, <2>1 DEF IInv, ProcessInv, Emptied, appVars
  <2> QED BY <2>2, <2>3, <2>4 DEF IInv
<1>2. CASE ~streaming
  <2> USE <1>2 DEF IInv, appVars, queueVars, QueueDisable
  <2>1. TypeOK'
    <3>1. QueueTypeOK'
      BY DEF TypeOK, VideoTypeOK, QueueTypeOK
    <3>2. VideoTypeOK'
      BY <3>1 DEF TypeOK, VideoTypeOK, Job
    <3> QED BY <3>2 DEF TypeOK
  <2>2. ProcessInv'
    BY DEF ProcessInv
  <2>3. OneOwner'
    BY DEF OneOwner
  <2>4. FillInv'
    BY DEF FillInv, Fresh, Growing, ProcessInv
  <2>5. WaitInv'
    BY DEF WaitInv, DequeueReady
  <2> QED BY <2>1, <2>2, <2>3, <2>4, <2>5
<1> QED BY <1>1, <1>2

LEMMA StreamStoppedKeeps == IInv /\ StreamStopped /\ UNCHANGED appVars => IInv'
<1> SUFFICES ASSUME IInv, StreamStopped /\ UNCHANGED appVars PROVE IInv'
  OBVIOUS
<1> USE DEF StreamStopped, Killed, Killing, streamVars, processVars
<1>0. camera' \in [on : BOOLEAN, fid : Fid, next : 1 .. FrameLen]
  BY DEF CameraOff, Fid
<1>1. CASE streaming
  <2>1. Emptied /\ UNCHANGED <<handler, appVars>> /\ job # "none" /\ ~handler.busy
    BY <1>1 DEF Emptied, QueueDisable
  <2>2. QueueTypeOK' /\ OneOwner' /\ FillInv' /\ WaitInv'
    BY <2>1, TakenBack
  <2>3. TypeOK'
    <3>1. VideoTypeOK'
      BY <2>2, <1>0 DEF IInv, TypeOK, VideoTypeOK, Job
    <3> QED BY <3>1 DEF IInv, TypeOK, appVars
  <2>4. ProcessInv'
    BY <1>1, <2>1 DEF IInv, ProcessInv, Emptied, appVars
  <2> QED BY <2>2, <2>3, <2>4 DEF IInv
<1>2. CASE ~streaming
  <2> USE <1>2 DEF IInv, appVars, queueVars, QueueDisable
  <2>1. TypeOK'
    <3>1. QueueTypeOK'
      BY DEF TypeOK, VideoTypeOK, QueueTypeOK
    <3>2. VideoTypeOK'
      BY <3>1, <1>0 DEF TypeOK, VideoTypeOK, Job
    <3> QED BY <3>2 DEF TypeOK
  <2>2. ProcessInv'
    BY DEF ProcessInv
  <2>3. OneOwner'
    BY DEF OneOwner
  <2>4. FillInv'
    BY DEF FillInv, Fresh, Growing, ProcessInv
  <2>5. WaitInv'
    BY DEF WaitInv, DequeueReady
  <2> QED BY <2>1, <2>2, <2>3, <2>4, <2>5
<1> QED BY <1>1, <1>2

LEMMA StreamReleasedKeeps == IInv /\ StreamReleased /\ UNCHANGED appVars => IInv'
<1> SUFFICES ASSUME IInv, StreamReleased /\ UNCHANGED appVars PROVE IInv'
  OBVIOUS
<1> USE DEF StreamReleased, Killed, Killing, streamVars, processVars
<1>1. camera' \in [on : BOOLEAN, fid : Fid, next : 1 .. FrameLen]
  BY DEF CameraOff, Fid
<1>2. Emptied /\ UNCHANGED <<handler, appVars>> /\ job # "none" /\ ~handler.busy
  BY DEF Emptied
<1>3. QueueTypeOK' /\ OneOwner' /\ FillInv' /\ WaitInv'
  BY <1>2, TakenBack
<1>4. TypeOK'
  <2>1. VideoTypeOK'
    BY <1>1, <1>3 DEF IInv, TypeOK, VideoTypeOK, Job
  <2> QED BY <2>1 DEF IInv, TypeOK, appVars
<1>5. ProcessInv'
  BY <1>2 DEF IInv, ProcessInv, Emptied, appVars
<1> QED BY <1>3, <1>4, <1>5 DEF IInv

\* The URB that ends takes the buffers from the queue.
LEMMA Cancels ==
  ASSUME IInv, NEW s \in BOOLEAN, QueueCancel(s)
  PROVE  /\ QueueTypeOK'
         /\ \A b \in Buffer :
              /\ vb'[b] # "active"
              /\ vb'[b] = "done" <=> b \in ToSet(done')
              /\ vb'[b] = "queued" <=> vb[b] = "queued"
              /\ vb'[b] = "dequeued" <=> vb[b] = "dequeued"
              /\ vb[b] = "queued" => held'[b] = held[b]
              /\ held'[b] = held[b] \/ held'[b] = Empty("error")
         /\ IsInjective(done')
         /\ done # <<>> => done' # <<>>
<1> USE DEF QueueCancel
<1>1. QueueTypeOK /\ Lists /\ Empty("error") \in Content
  BY InvLists, EmptyContent
<1>2. irqqueue \in Seq(Buffer) /\ done \in Seq(Buffer)
  BY <1>1 DEF QueueTypeOK
<1>3. /\ done' \in Seq(Buffer) /\ ToSet(done') = ToSet(done) \cup ToSet(irqqueue)
      /\ done # <<>> => done' # <<>>
  BY <1>2, SetOfConcat, ConcatProperties, EmptySeq, LenProperties
<1>4. IsInjective(done')
  <2>1. ToSet(done) \cap ToSet(irqqueue) = {}
    BY <1>1, <1>2, SetOfSeq DEF Lists
  <2> QED BY <1>1, <1>2, <2>1, SetOfConcat DEF Lists
<1>5. QueueTypeOK'
  <2>1. held' \in [Buffer -> Content] /\ vb' \in [Buffer -> {"dequeued", "queued", "active", "done"}]
    BY <1>1 DEF QueueTypeOK
  <2> QED BY <1>1, <1>3, <2>1, EmptySeq DEF QueueTypeOK
<1>6. ASSUME NEW b \in Buffer
      PROVE  /\ vb'[b] # "active"
             /\ vb'[b] = "done" <=> b \in ToSet(done')
             /\ vb'[b] = "queued" <=> vb[b] = "queued"
             /\ vb'[b] = "dequeued" <=> vb[b] = "dequeued"
             /\ vb[b] = "queued" => held'[b] = held[b]
             /\ held'[b] = held[b] \/ held'[b] = Empty("error")
  BY <1>1, <1>3 DEF Lists
<1> QED BY <1>3, <1>4, <1>5, <1>6

LEMMA UrbEndsKeeps ==
  ASSUME IInv, NEW s \in BOOLEAN, UrbEnds(s),
         UNCHANGED <<processVars, camera, plug, appVars>>
  PROVE  IInv'
<1> USE DEF UrbEnds, Given, processVars, appVars
<1>1. /\ inFlight' = inFlight - 1 /\ inFlight' \in 0 .. Urbs /\ inFlight > 0
      /\ ~handler.busy /\ handler' = handler /\ handler = Idle
  BY DEF IInv, TypeOK, VideoTypeOK, ProcessInv
<1>2. CASE UNCHANGED queueVars
  <2> USE <1>2 DEF queueVars, IInv
  <2>1. TypeOK'
    <3>1. QueueTypeOK'
      BY DEF TypeOK, VideoTypeOK, QueueTypeOK
    <3>2. VideoTypeOK'
      BY <1>1, <3>1 DEF TypeOK, VideoTypeOK
    <3> QED BY <3>2 DEF TypeOK
  <2>2. ProcessInv'
    BY <1>1 DEF ProcessInv, TypeOK, VideoTypeOK
  <2>3. OneOwner'
    BY DEF OneOwner
  <2>4. FillInv'
    BY DEF FillInv, Fresh, Growing
  <2>5. WaitInv'
    BY DEF WaitInv, DequeueReady
  <2> QED BY <2>1, <2>2, <2>3, <2>4, <2>5
<1>3. CASE QueueCancel(s)
  <2>1. /\ QueueTypeOK' /\ IsInjective(done') /\ (done # <<>> => done' # <<>>)
        /\ \A b \in Buffer :
              /\ vb'[b] # "active"
              /\ vb'[b] = "done" <=> b \in ToSet(done')
              /\ vb'[b] = "queued" <=> vb[b] = "queued"
              /\ vb'[b] = "dequeued" <=> vb[b] = "dequeued"
              /\ vb[b] = "queued" => held'[b] = held[b]
              /\ held'[b] = held[b] \/ held'[b] = Empty("error")
    BY <1>3, Cancels
  <2>2. irqqueue' = <<>> /\ UNCHANGED <<posted, streaming>>
    BY <1>3 DEF QueueCancel
  <2>3. QueueTypeOK /\ Lists
    BY InvLists
  <2>4. TypeOK'
    <3>1. VideoTypeOK'
      BY <1>1, <2>1 DEF IInv, TypeOK, VideoTypeOK
    <3> QED BY <3>1 DEF IInv, TypeOK
  <2>5. ProcessInv'
    BY <1>1, <2>2 DEF IInv, ProcessInv, TypeOK, VideoTypeOK
  <2>6. cur \in Buffer \/ pc \notin {"convert", "queue"}
    BY DEF IInv, WaitInv
  <2>7. OneOwner'
    <3>1. Lists'
      BY <1>1, <2>1, <2>2, <2>3, <2>6, SetOfEmpty DEF Lists, Idle
    <3>2. (QueueTypeOK => (OneOwner <=> Lists))'
      BY OwnerLists, PTL
    <3> QED BY <2>1, <3>1, <3>2
  <2>8. FillInv'
    <3>1. \A b \in Buffer : held'[b].state = "done" /\ ~held'[b].cut
                               => ~held'[b].torn /\ held'[b].used = FrameLen
      BY <2>1 DEF IInv, FillInv, Empty
    <3>2. \A b \in ToSet(posted) : Fresh(b)'
      <4>1. \A b \in ToSet(posted) : b \in Buffer /\ vb[b] = "queued"
        BY <2>3, SetOfSeq DEF Lists, QueueTypeOK
      <4> QED BY <4>1, <2>1 DEF IInv, FillInv, Fresh
    <3>3. pc = "queue" => Fresh(cur)'
      BY <2>1, <2>3, <2>6 DEF IInv, FillInv, Fresh, Lists
    <3> QED BY <2>2, <3>1, <3>2, <3>3, EmptySeq DEF FillInv, Fresh
  <2>9. WaitInv'
    BY <2>1, <2>2 DEF IInv, WaitInv, DequeueReady
  <2> QED BY <2>4, <2>5, <2>7, <2>8, <2>9 DEF IInv
<1> QED BY <1>2, <1>3

\* What the camera sends while nobody listens: the buffer under way is cut.
LEMMA CutFills ==
  ASSUME IInv, held' \in [Buffer -> Content],
         \A b \in Buffer : /\ Same(held[b], held'[b])
                           /\ held[b].cut => held'[b].cut
                           /\ held[b].state = "active" => held'[b].cut,
         UNCHANGED <<vb, posted, irqqueue, done, streaming, disconnected, handler, appVars>>
  PROVE  QueueTypeOK' /\ OneOwner' /\ FillInv'
<1> USE DEF appVars
<1>1. QueueTypeOK /\ Lists
  BY InvLists
<1>2. QueueTypeOK'
  BY <1>1 DEF QueueTypeOK
<1>3. OneOwner'
  BY DEF IInv, OneOwner
<1>4. /\ ToSet(posted) \subseteq Buffer /\ irqqueue \in Seq(Buffer)
      /\ irqqueue # <<>> => irqqueue[1] \in Buffer
      /\ \A i \in 2 .. Len(irqqueue) : irqqueue[i] \in Buffer
  BY <1>1, SetOfSeq, SetOfTail, ElementOfSeq, LenProperties DEF QueueTypeOK
<1>5. \A b \in Buffer : held'[b].state = "done" /\ ~held'[b].cut
                           => ~held'[b].torn /\ held'[b].used = FrameLen
  <2>1. \A b \in Buffer : held[b].state = "done" /\ ~held[b].cut
                            => ~held[b].torn /\ held[b].used = FrameLen
    BY DEF IInv, FillInv
  <2> SUFFICES ASSUME NEW b \in Buffer
               PROVE  held'[b].state = "done" /\ ~held'[b].cut
                        => ~held'[b].torn /\ held'[b].used = FrameLen
    OBVIOUS
  <2> DEFINE c == held[b]
             d == held'[b]
  <2>2. Same(c, d) /\ (c.cut => d.cut)
    OBVIOUS
  <2>3. c.state = "done" /\ ~c.cut => ~c.torn /\ c.used = FrameLen
    BY <2>1
  <2> HIDE DEF c, d
  <2>4. d.state = "done" /\ ~d.cut => ~d.torn /\ d.used = FrameLen
    BY <2>2, <2>3 DEF Same
  <2> QED BY <2>4 DEF c, d
<1>6. \A b \in Buffer : held[b] = Empty("queued") => held'[b] = Empty("queued")
  BY DEF Same
<1>7. pc = "queue" => Fresh(cur)'
  BY <1>6 DEF IInv, FillInv, WaitInv, Fresh
<1>8. ASSUME irqqueue # <<>>
      PROVE  LET c == held'[irqqueue[1]]
             IN /\ c.state \in {"queued", "active"}
                /\ c.used = 0 => ~c.torn
                /\ c.used # 0 => c.state = "active" /\ Spoilt(c)
                /\ handler.busy /\ handler.buf = None => c = Empty("queued")
  <2> DEFINE c == held[irqqueue[1]]
             d == held'[irqqueue[1]]
  <2>1. /\ c.state \in {"queued", "active"} /\ (c.used = 0 => ~c.torn)
        /\ c.used # 0 => c.state = "active"
        /\ handler.busy /\ handler.buf = None => c = Empty("queued")
    BY <1>8 DEF IInv, FillInv, Fresh
  <2>2. Same(c, d) /\ (c.state = "active" => d.cut)
    BY <1>4, <1>8
  <2> HIDE DEF c, d
  <2>3. d.used # 0 => d.state = "active" /\ Spoilt(d)
    BY <2>1, <2>2 DEF Same, Spoilt
  <2> QED BY <2>1, <2>2, <2>3 DEF Same, d
<1>9. FillInv'
  <2>1. \A b \in ToSet(posted) : Fresh(b)'
    BY <1>4, <1>6 DEF IInv, FillInv, Fresh
  <2>2. \A i \in 2 .. Len(irqqueue) : Fresh(irqqueue[i])'
    BY <1>4, <1>6 DEF IInv, FillInv, Fresh
  <2> QED BY <1>5, <1>7, <1>8, <2>1, <2>2 DEF FillInv, Fresh
<1> QED BY <1>2, <1>3, <1>9

LEMMA CameraUnheardKeeps == IInv /\ CameraUnheard /\ UNCHANGED appVars => IInv'
<1> SUFFICES ASSUME IInv, CameraUnheard /\ UNCHANGED appVars PROVE IInv'
  OBVIOUS
<1> USE DEF CameraUnheard, streamVars, processVars
<1>1. held \in [Buffer -> Content] /\ CameraType
  BY DEF IInv, TypeOK, VideoTypeOK, QueueTypeOK, CameraType
<1> DEFINE x == Cut(held)
<1>2. /\ x \in [Buffer -> Content]
      /\ \A b \in Buffer : /\ Same(held[b], x[b]) /\ (held[b].cut => x[b].cut)
                           /\ held[b].state = "active" => x[b].cut
  BY <1>1, Cuts
<1>3. held' = Aged(x)
  OBVIOUS
<1> HIDE DEF x
<1>4. /\ held' \in [Buffer -> Content]
      /\ \A b \in Buffer : Same(x[b], held'[b]) /\ held'[b].cut = x[b].cut
  BY <1>2, <1>3, Ages
<1>5. \A b \in Buffer : /\ Same(held[b], held'[b]) /\ (held[b].cut => held'[b].cut)
                        /\ held[b].state = "active" => held'[b].cut
  <2> SUFFICES ASSUME NEW b \in Buffer
               PROVE  /\ Same(held[b], held'[b]) /\ (held[b].cut => held'[b].cut)
                      /\ held[b].state = "active" => held'[b].cut
    OBVIOUS
  <2> DEFINE c == held[b]
             d == x[b]
             e == held'[b]
  <2>1. Same(c, d) /\ (c.cut => d.cut) /\ (c.state = "active" => d.cut)
    BY <1>2
  <2>2. Same(d, e) /\ e.cut = d.cut
    BY <1>4
  <2> HIDE DEF c, d, e
  <2>3. Same(c, e) /\ (c.cut => e.cut) /\ (c.state = "active" => e.cut)
    BY <2>1, <2>2 DEF Same
  <2> QED BY <2>3 DEF c, e
<1>6. QueueTypeOK' /\ OneOwner' /\ FillInv'
  BY <1>4, <1>5, CutFills
<1>7. TypeOK'
  <2>1. CameraType'
    BY <1>1, Sends
  <2>2. VideoTypeOK'
    BY <1>6, <2>1 DEF IInv, TypeOK, VideoTypeOK, CameraType
  <2> QED BY <2>2 DEF IInv, TypeOK, appVars
<1>8. ProcessInv'
  BY DEF IInv, ProcessInv, appVars
<1>9. WaitInv'
  BY DEF IInv, WaitInv, DequeueReady, appVars
<1> QED BY <1>6, <1>7, <1>8, <1>9 DEF IInv

LEMMA SuspendedKeeps == IInv /\ Suspended /\ UNCHANGED appVars => IInv'
<1> SUFFICES ASSUME IInv, Suspended /\ UNCHANGED appVars PROVE IInv'
  OBVIOUS
<1> USE DEF Suspended, Killed, streamVars
<1>1. held \in [Buffer -> Content]
  BY DEF IInv, TypeOK, VideoTypeOK, QueueTypeOK
<1>2. /\ held' \in [Buffer -> Content]
      /\ \A b \in Buffer : /\ Same(held[b], held'[b]) /\ (held[b].cut => held'[b].cut)
                           /\ held[b].state = "active" => held'[b].cut
  BY <1>1, Cuts
<1>3. QueueTypeOK' /\ OneOwner' /\ FillInv'
  <2>1. UNCHANGED <<vb, posted, irqqueue, done, streaming, disconnected, handler, appVars>>
    OBVIOUS
  <2> QED BY <1>2, <2>1, CutFills
<1>4. TypeOK'
  <2>1. camera' \in [on : BOOLEAN, fid : Fid, next : 1 .. FrameLen]
    BY DEF CameraOff, Fid
  <2>2. VideoTypeOK'
    BY <1>3, <2>1 DEF IInv, TypeOK, VideoTypeOK, Job
  <2> QED BY <2>2 DEF IInv, TypeOK, appVars
<1>5. ProcessInv'
  BY DEF IInv, ProcessInv, appVars
<1>6. WaitInv'
  BY DEF IInv, WaitInv, DequeueReady, appVars
<1> QED BY <1>3, <1>4, <1>5, <1>6 DEF IInv

\* The last queued URB is decoded payload by payload.
LEMMA DecodePayloadKeeps == IInv /\ DecodePayload /\ UNCHANGED appVars => IInv'
<1> SUFFICES ASSUME IInv, DecodePayload /\ UNCHANGED appVars PROVE IInv'
  OBVIOUS
<1>1. /\ UNCHANGED <<posted, streaming, disconnected, clock, frozen, inFlight>>
      /\ UNCHANGED <<processVars, plug>> /\ handler.busy
  BY DEF DecodePayload
<1>2. /\ held' \in [Buffer -> Content] /\ vb' \in [Buffer -> VbState]
      /\ irqqueue' \in Seq(Buffer) /\ done' \in Seq(Buffer)
      /\ lastFid' \in Fid \cup {NoFid} /\ CameraType'
      /\ handler' \in [left : 0 .. PerUrb, buf : Buffer \cup {None}, busy : {TRUE}]
  BY PayloadStep
<1>3. /\ \A b \in Buffer : /\ vb'[b] = "active" <=> b \in ToSet(irqqueue')
                           /\ vb'[b] = "done" <=> b \in ToSet(done')
      /\ IsInjective(irqqueue') /\ IsInjective(done')
      /\ handler'.buf # None => irqqueue' # <<>> /\ handler'.buf = irqqueue'[1]
  BY PayloadStep
<1>4. /\ \A b \in Buffer : held'[b].state = "done" /\ ~held'[b].cut
                              => ~held'[b].torn /\ held'[b].used = FrameLen
      /\ \A i \in 2 .. Len(irqqueue') : held'[irqqueue'[i]] = Empty("queued")
  BY PayloadStep
<1>5. irqqueue' # <<>> =>
        LET c == held'[irqqueue'[1]]
        IN /\ c.state \in {"queued", "active"}
           /\ c.used = 0 => ~c.torn
           /\ c.used # 0 => c.state = "active" /\ (Spoilt(c) \/ Grows(c, lastFid', camera'))
           /\ handler'.buf = None => c = Empty("queued")
  BY PayloadStep
<1>6. /\ \A b \in Buffer :
           /\ vb[b] = "queued" /\ Fresh(b) => held'[b] = Empty("queued")
           /\ vb'[b] = "dequeued" <=> vb[b] = "dequeued"
           /\ vb'[b] = "queued" <=> vb[b] = "queued"
      /\ done # <<>> => done' # <<>>
      /\ irqqueue = <<>> => irqqueue' = <<>>
  BY PayloadStep
<1>7. QueueTypeOK /\ Lists
  BY InvLists
<1>8. QueueTypeOK'
  BY <1>1, <1>2, <1>7 DEF QueueTypeOK, VbState
<1>9. TypeOK'
  <2>1. VideoTypeOK'
    BY <1>1, <1>2, <1>8 DEF IInv, TypeOK, VideoTypeOK, CameraType, processVars
  <2> QED BY <2>1 DEF IInv, TypeOK, appVars
<1>10. streaming /\ job \notin {"commit", "recommit"} /\ power # "suspended"
  BY <1>1 DEF IInv, ProcessInv
<1>11. ProcessInv'
  BY <1>1, <1>2, <1>10 DEF IInv, ProcessInv, processVars, appVars
<1>12. cur \in Buffer \/ pc \notin {"convert", "queue"}
  BY DEF IInv, WaitInv
<1>13. OneOwner'
  <2>1. Lists'
    <3>1. \A b \in Buffer :
            vb'[b] = "queued" <=> b \in ToSet(posted') \/ (pc' = "queue" /\ b = cur')
      BY <1>1, <1>6, <1>7 DEF Lists, appVars
    <3>2. pc' = "convert" => vb'[cur'] = "dequeued"
      BY <1>6, <1>7, <1>12 DEF Lists, appVars
    <3>3. IsInjective(posted')
      BY <1>1, <1>7 DEF Lists
    <3> QED BY <1>3, <3>1, <3>2, <3>3 DEF Lists
  <2>2. (QueueTypeOK => (OneOwner <=> Lists))'
    BY OwnerLists, PTL
  <2> QED BY <1>8, <2>1, <2>2
<1>14. FillInv'
  <2>1. posted' = posted /\ \A b \in ToSet(posted) : Fresh(b)'
    <3>1. \A b \in ToSet(posted) : b \in Buffer /\ vb[b] = "queued" /\ Fresh(b)
      BY <1>7, SetOfSeq DEF Lists, QueueTypeOK, IInv, FillInv
    <3> QED BY <3>1, <1>1, <1>6 DEF Fresh
  <2>2. (pc = "queue" => Fresh(cur))'
    BY <1>6, <1>7, <1>12 DEF IInv, FillInv, Fresh, Lists, appVars
  <2>3. job' = job /\ power' = power
    BY <1>1 DEF processVars
  <2> QED BY <1>4, <1>5, <1>10, <2>1, <2>2, <2>3 DEF FillInv, Fresh, Growing, Grows
<1>15. WaitInv'
  BY <1>1, <1>6, <1>10 DEF IInv, WaitInv, DequeueReady, appVars
<1> QED BY <1>9, <1>11, <1>13, <1>14, <1>15 DEF IInv

-----------------------------------------------------------------------------
(***************************************************************************)
(* What the program asks of the queue.                                     *)
(***************************************************************************)
LEMMA OpenKeeps == IInv /\ Open => IInv'
<1> SUFFICES ASSUME IInv, Open PROVE IInv'
  OBVIOUS
<1> USE DEF IInv, Open, streamVars, processVars
<1>1. irqqueue = <<>> /\ posted = <<>>
  BY DEF ProcessInv
<1>2. TypeOK'
  <2>1. held' \in [Buffer -> Content]
    BY EmptyContent
  <2>2. QueueTypeOK'
    BY <2>1 DEF TypeOK, VideoTypeOK, QueueTypeOK
  <2>3. VideoTypeOK'
    BY <2>2 DEF TypeOK, VideoTypeOK
  <2> QED BY <2>3 DEF TypeOK, Place
<1>3. ProcessInv'
  BY DEF ProcessInv
<1>4. OneOwner'
  BY DEF OneOwner
<1>5. FillInv'
  BY <1>1, SetOfEmpty, EmptySeq DEF FillInv, Empty
<1>6. WaitInv'
  BY DEF WaitInv, DequeueReady, ProcessInv
<1> QED BY <1>2, <1>3, <1>4, <1>5, <1>6

LEMMA Prepares ==
  ASSUME IInv, NEW b \in Buffer, BufferPrepare(b)
  PROVE  /\ QueueTypeOK'
         /\ \A x \in Buffer : /\ vb'[x] = IF x = b THEN "queued" ELSE vb[x]
                              /\ held'[x] = IF x = b THEN Empty("queued") ELSE held[x]
                              /\ x \in ToSet(posted') <=>
                                   x \in ToSet(posted) \/ (x = b /\ ~streaming)
         /\ IsInjective(posted')
         /\ b \notin ToSet(irqqueue) /\ b \notin ToSet(done) /\ b \notin ToSet(posted)
         /\ UNCHANGED <<irqqueue, done, streaming, disconnected>>
<1> USE DEF BufferPrepare
<1>1. QueueTypeOK /\ Lists /\ Empty("queued") \in Content
  BY InvLists, EmptyContent
<1>2. b \notin ToSet(irqqueue) /\ b \notin ToSet(done) /\ b \notin ToSet(posted)
  BY <1>1 DEF Lists
<1>3. /\ posted' \in Seq(Buffer) /\ IsInjective(posted')
      /\ \A x \in Buffer : x \in ToSet(posted') <=>
                             x \in ToSet(posted) \/ (x = b /\ ~streaming)
  <2>1. posted \in Seq(Buffer) /\ IsInjective(posted)
    BY <1>1 DEF QueueTypeOK, Lists
  <2> QED BY <1>2, <2>1, SetOfAppend, AppendProperties
<1>4. held' \in [Buffer -> Content] /\ vb' \in [Buffer -> {"dequeued", "queued", "active", "done"}]
  BY <1>1 DEF QueueTypeOK
<1>5. QueueTypeOK'
  BY <1>1, <1>3, <1>4 DEF QueueTypeOK
<1>6. \A x \in Buffer : /\ vb'[x] = IF x = b THEN "queued" ELSE vb[x]
                        /\ held'[x] = IF x = b THEN Empty("queued") ELSE held[x]
  BY <1>1 DEF QueueTypeOK
<1> QED BY <1>2, <1>3, <1>5, <1>6

LEMMA PrepareKeeps ==
  ASSUME IInv, NEW b \in Buffer, BufferPrepare(b),
         pc \in {"post", "convert"},
         pc' = "queue" <=> streaming, pc' # "convert", pc' = "queue" => cur' = b,
         UNCHANGED <<streamVars, processVars, camera, plug>>
  PROVE  QueueTypeOK' /\ OneOwner' /\ FillInv'
<1> USE DEF streamVars, processVars
<1>1. /\ QueueTypeOK'
      /\ \A x \in Buffer : /\ vb'[x] = IF x = b THEN "queued" ELSE vb[x]
                           /\ held'[x] = IF x = b THEN Empty("queued") ELSE held[x]
                           /\ x \in ToSet(posted') <=>
                                x \in ToSet(posted) \/ (x = b /\ ~streaming)
      /\ IsInjective(posted')
      /\ b \notin ToSet(irqqueue) /\ b \notin ToSet(done) /\ b \notin ToSet(posted)
      /\ UNCHANGED <<irqqueue, done, streaming, disconnected>>
  BY Prepares
<1>2. QueueTypeOK /\ Lists
  BY InvLists
<1>3. OneOwner'
  <2>1. \A x \in Buffer :
          /\ vb'[x] = "active" <=> x \in ToSet(irqqueue')
          /\ vb'[x] = "done" <=> x \in ToSet(done')
          /\ vb'[x] = "queued" <=> x \in ToSet(posted') \/ (pc' = "queue" /\ x = cur')
    BY <1>1, <1>2 DEF Lists
  <2>2. Lists'
    BY <1>1, <1>2, <2>1 DEF Lists
  <2>3. (QueueTypeOK => (OneOwner <=> Lists))'
    BY OwnerLists, PTL
  <2> QED BY <1>1, <2>2, <2>3
<1>4. FillInv'
  <2>1. \A x \in Buffer : held'[x].state = "done" /\ ~held'[x].cut
                            => ~held'[x].torn /\ held'[x].used = FrameLen
    BY <1>1 DEF IInv, FillInv, Empty
  <2>2. \A x \in ToSet(posted') : Fresh(x)'
    <3>1. posted' \in Seq(Buffer)
      BY <1>1 DEF QueueTypeOK
    <3>2. ToSet(posted') \subseteq Buffer
      BY <3>1, SetOfSeq
    <3> QED BY <1>1, <3>2 DEF IInv, FillInv, Fresh
  <2>3. (pc = "queue" => Fresh(cur))'
    BY <1>1 DEF Fresh
  <2>4. /\ \A i \in 1 .. Len(irqqueue) : irqqueue[i] \in Buffer \ {b}
        /\ irqqueue # <<>> => irqqueue[1] \in Buffer \ {b}
    <3>1. irqqueue \in Seq(Buffer)
      BY <1>2 DEF QueueTypeOK
    <3>2. \A i \in 1 .. Len(irqqueue) : irqqueue[i] \in Buffer /\ irqqueue[i] \in ToSet(irqqueue)
      BY <3>1, ElementOfSeq, LenProperties DEF ToSet
    <3> QED BY <3>1, <3>2, <1>1, SetOfTail
  <2>5. \A i \in 2 .. Len(irqqueue') : Fresh(irqqueue[i])'
    <3>1. 2 .. Len(irqqueue) \subseteq 1 .. Len(irqqueue)
      BY <1>2, LenProperties DEF QueueTypeOK
    <3> QED BY <1>1, <2>4, <3>1 DEF IInv, FillInv, Fresh
  <2>6. irqqueue # <<>> => held'[irqqueue'[1]] = held[irqqueue[1]]
    BY <1>1, <2>4
  <2> QED BY <1>1, <2>1, <2>2, <2>3, <2>5, <2>6 DEF IInv, FillInv, Fresh, Growing
<1> QED BY <1>1, <1>3, <1>4

LEMMA PostBufferKeeps == IInv /\ PostBuffer => IInv'
<1> SUFFICES ASSUME IInv, PostBuffer PROVE IInv'
  OBVIOUS
<1> USE DEF PostBuffer, appVars, streamVars, processVars
<1>1. CASE Registered /\ ~disconnected
  <2> DEFINE b == Min(Unposted)
  <2>1. Unposted \subseteq Nat /\ Unposted \subseteq Buffer
    BY DEF Unposted
  <2>2. b \in Buffer
    BY <2>1, Least
  <2>3. BufferPrepare(b) /\ UNCHANGED appVars
    BY <1>1
  <2> HIDE DEF b
  <2>4. /\ ~streaming /\ streaming' = streaming /\ disconnected' = disconnected
        /\ irqqueue' = irqqueue
    BY <2>3 DEF IInv, ProcessInv, BufferPrepare
  <2>5. QueueTypeOK' /\ OneOwner' /\ FillInv'
    BY <2>2, <2>3, <2>4, PrepareKeeps
  <2>6. TypeOK'
    <3>1. VideoTypeOK'
      BY <2>5 DEF IInv, TypeOK, VideoTypeOK
    <3> QED BY <3>1, <2>3 DEF IInv, TypeOK
  <2>7. ProcessInv'
    BY <2>3, <2>4 DEF IInv, ProcessInv
  <2>8. WaitInv'
    BY <2>3, <2>4 DEF IInv, WaitInv
  <2> QED BY <2>5, <2>6, <2>7, <2>8 DEF IInv
<1>2. CASE ~(Registered /\ ~disconnected)
  <2> USE <1>2 DEF IInv, queueVars
  <2>1. TypeOK'
    <3>1. QueueTypeOK'
      BY DEF TypeOK, VideoTypeOK, QueueTypeOK
    <3>2. VideoTypeOK'
      BY <3>1 DEF TypeOK, VideoTypeOK
    <3> QED BY <3>2 DEF TypeOK, Place
  <2>2. ProcessInv'
    BY DEF ProcessInv
  <2>3. OneOwner'
    BY DEF OneOwner
  <2>4. FillInv'
    BY DEF FillInv, Fresh, Growing
  <2>5. WaitInv'
    BY DEF WaitInv, DequeueReady
  <2> QED BY <2>1, <2>2, <2>3, <2>4, <2>5
<1> QED BY <1>1, <1>2

LEMMA RequeueKeeps == IInv /\ Requeue => IInv'
<1> SUFFICES ASSUME IInv, Requeue PROVE IInv'
  OBVIOUS
<1> USE DEF Requeue, appVars, streamVars, processVars
<1>1. CASE Registered /\ ~disconnected
  <2>1. cur \in Buffer /\ BufferPrepare(cur)
    BY <1>1 DEF IInv, WaitInv
  <2>2. /\ pc' = (IF streaming THEN "queue" ELSE "loop")
        /\ cur' = (IF streaming THEN cur ELSE None)
        /\ UNCHANGED <<captureOn_, polls>>
    BY <1>1
  <2>3. QueueTypeOK' /\ OneOwner' /\ FillInv'
    BY <2>1, <2>2, PrepareKeeps
  <2>4. /\ \A x \in Buffer : vb'[x] = IF x = cur THEN "queued" ELSE vb[x]
        /\ UNCHANGED <<irqqueue, done, streaming, disconnected>>
    BY <2>1, Prepares
  <2>5. TypeOK'
    <3>1. VideoTypeOK'
      BY <2>3 DEF IInv, TypeOK, VideoTypeOK
    <3> QED BY <3>1, <2>2 DEF IInv, TypeOK, Place
  <2>6. ProcessInv'
    <3>1. streaming => posted' = posted
      BY <2>1 DEF BufferPrepare
    <3> QED BY <2>2, <2>4, <3>1 DEF IInv, ProcessInv
  <2>7. WaitInv'
    BY <2>1, <2>2, <2>4 DEF IInv, WaitInv
  <2> QED BY <2>3, <2>5, <2>6, <2>7 DEF IInv
<1>2. CASE ~(Registered /\ ~disconnected)
  <2> USE <1>2 DEF IInv, queueVars
  <2>1. TypeOK'
    <3>1. QueueTypeOK'
      BY DEF TypeOK, VideoTypeOK, QueueTypeOK
    <3>2. VideoTypeOK'
      BY <3>1 DEF TypeOK, VideoTypeOK
    <3> QED BY <3>2 DEF TypeOK, Place
  <2>2. ProcessInv'
    BY DEF ProcessInv
  <2>3. OneOwner'
    BY DEF OneOwner
  <2>4. FillInv'
    BY DEF FillInv, Fresh, Growing
  <2>5. WaitInv'
    BY DEF WaitInv, DequeueReady
  <2> QED BY <2>1, <2>2, <2>3, <2>4, <2>5
<1> QED BY <1>1, <1>2

LEMMA DequeueKeeps == IInv /\ Dequeue => IInv'
<1> SUFFICES ASSUME IInv, Dequeue PROVE IInv'
  OBVIOUS
<1> USE DEF Dequeue, streamVars, processVars
<1>1. CASE streaming
  <2> DEFINE b == Head(done)
  <2>1. /\ done # <<>> /\ vb' = [vb EXCEPT ![b] = "dequeued"] /\ done' = Tail(done)
        /\ UNCHANGED <<held, posted, irqqueue, streaming, disconnected>>
        /\ pc = "dequeue" /\ pc' = "convert" /\ cur' = b /\ UNCHANGED <<captureOn_, polls>>
    BY <1>1 DEF DequeueBuffer
  <2>2. QueueTypeOK /\ Lists
    BY InvLists
  <2>3. done \in Seq(Buffer)
    BY <2>2 DEF QueueTypeOK
  <2>4. b = done[1] /\ b \in ToSet(done) /\ b \in Buffer
    BY <2>1, <2>3, SetOfTail
  <2>5. ToSet(done') = ToSet(done) \ {b} /\ IsInjective(done') /\ done' \in Seq(Buffer)
    BY <2>1, <2>2, <2>3, SetOfTail, HeadTailProperties DEF Lists
  <2> HIDE DEF b
  <2>6. QueueTypeOK'
    <3>1. vb' \in [Buffer -> {"dequeued", "queued", "active", "done"}]
      BY <2>1, <2>2 DEF QueueTypeOK
    <3> QED BY <3>1, <2>1, <2>2, <2>5 DEF QueueTypeOK
  <2>7. vb[b] = "done" /\ \A x \in Buffer : vb'[x] = IF x = b THEN "dequeued" ELSE vb[x]
    BY <2>1, <2>2, <2>4 DEF QueueTypeOK, Lists
  <2>8. TypeOK'
    <3>1. VideoTypeOK'
      BY <2>6 DEF IInv, TypeOK, VideoTypeOK
    <3> QED BY <3>1, <2>1, <2>4 DEF IInv, TypeOK, Place
  <2>9. ProcessInv'
    BY <2>1 DEF IInv, ProcessInv
  <2>10. OneOwner'
    <3>1. Lists'
      <4>1. \A x \in Buffer :
              /\ vb'[x] = "active" <=> x \in ToSet(irqqueue')
              /\ vb'[x] = "done" <=> x \in ToSet(done')
              /\ vb'[x] = "queued" <=> x \in ToSet(posted') \/ (pc' = "queue" /\ x = cur')
        BY <2>1, <2>2, <2>4, <2>5, <2>7 DEF Lists
      <4> QED BY <4>1, <2>1, <2>2, <2>4, <2>5, <2>7 DEF Lists
    <3>2. (QueueTypeOK => (OneOwner <=> Lists))'
      BY OwnerLists, PTL
    <3> QED BY <2>6, <3>1, <3>2
  <2>11. FillInv'
    BY <2>1 DEF IInv, FillInv, Fresh, Growing
  <2>12. WaitInv'
    BY <2>1, <2>4, <2>7, <1>1 DEF IInv, WaitInv
  <2> QED BY <2>8, <2>9, <2>10, <2>11, <2>12 DEF IInv
<1>2. CASE ~streaming
  <2> USE <1>2 DEF IInv, queueVars
  <2>1. TypeOK'
    <3>1. QueueTypeOK'
      BY DEF TypeOK, VideoTypeOK, QueueTypeOK
    <3>2. VideoTypeOK'
      BY <3>1 DEF TypeOK, VideoTypeOK
    <3> QED BY <3>2 DEF TypeOK, Place
  <2>2. ProcessInv'
    BY DEF ProcessInv
  <2>3. OneOwner'
    BY DEF OneOwner
  <2>4. FillInv'
    BY DEF FillInv, Fresh, Growing
  <2>5. WaitInv'
    BY DEF WaitInv
  <2> QED BY <2>1, <2>2, <2>3, <2>4, <2>5
<1> QED BY <1>1, <1>2

LEMMA RequeueEndsKeeps == IInv /\ RequeueEnds => IInv'
<1> SUFFICES ASSUME IInv, RequeueEnds PROVE IInv'
  OBVIOUS
<1> USE DEF RequeueEnds, BufferQueue, streamVars, processVars
<1>1. QueueTypeOK /\ Lists
  BY InvLists
<1>2. /\ cur \in Buffer /\ streaming /\ posted = <<>> /\ pc = "queue" /\ Fresh(cur)
      /\ job = "none" /\ power = "on"
  BY DEF IInv, ProcessInv, WaitInv, FillInv
<1>3. vb[cur] = "queued" /\ cur \notin ToSet(irqqueue) /\ cur \notin ToSet(done)
  BY <1>1, <1>2 DEF Lists
<1>4. /\ irqqueue \in Seq(Buffer) /\ done \in Seq(Buffer) /\ held \in [Buffer -> Content]
      /\ vb \in [Buffer -> VbState]
  BY <1>1 DEF QueueTypeOK, VbState
<1>5. /\ UNCHANGED <<posted, streaming, disconnected, handler, camera, lastFid>>
      /\ pc' = "loop" /\ cur' = None
  OBVIOUS
<1>6. CASE disconnected
  <2> DEFINE c == [held[cur] EXCEPT !.state = "error"]
  <2>1. /\ held' = [held EXCEPT ![cur] = c] /\ vb' = [vb EXCEPT ![cur] = "done"]
        /\ done' = Append(done, cur) /\ irqqueue' = irqqueue /\ irqqueue = <<>>
    BY <1>6 DEF IInv, WaitInv
  <2>2. c \in Content /\ c.state = "error"
    <3> DEFINE d == held[cur]
    <3>1. d \in Content
      BY <1>2, <1>4
    <3> HIDE DEF d
    <3>2. [d EXCEPT !.state = "error"] \in Content /\ [d EXCEPT !.state = "error"].state = "error"
      BY <3>1 DEF Content
    <3> QED BY <3>2 DEF d
  <2> HIDE DEF c
  <2>3. /\ done' \in Seq(Buffer) /\ done' # <<>> /\ IsInjective(done')
        /\ ToSet(done') = ToSet(done) \cup {cur}
    BY <1>1, <1>2, <1>3, <1>4, <2>1, SetOfAppend, AppendProperties DEF Lists
  <2>4. \A x \in Buffer : /\ vb'[x] = IF x = cur THEN "done" ELSE vb[x]
                          /\ held'[x] = IF x = cur THEN c ELSE held[x]
    BY <1>4, <2>1
  <2>5. QueueTypeOK'
    <3>1. held' \in [Buffer -> Content] /\ vb' \in [Buffer -> VbState]
      BY <1>4, <2>1, <2>2 DEF VbState
    <3> QED BY <3>1, <1>1, <1>5, <2>1, <2>3 DEF QueueTypeOK, VbState
  <2>6. TypeOK'
    <3>1. VideoTypeOK'
      BY <2>5 DEF IInv, TypeOK, VideoTypeOK
    <3> QED BY <3>1 DEF IInv, TypeOK, Place
  <2>7. ProcessInv'
    BY <2>1 DEF IInv, ProcessInv
  <2>8. OneOwner'
    <3>1. \A x \in Buffer :
            /\ vb'[x] = "active" <=> x \in ToSet(irqqueue')
            /\ vb'[x] = "done" <=> x \in ToSet(done')
            /\ vb'[x] = "queued" <=> x \in ToSet(posted') \/ (pc' = "queue" /\ x = cur')
      BY <1>1, <1>2, <1>3, <1>5, <2>1, <2>3, <2>4, SetOfEmpty DEF Lists
    <3>2. Lists'
      BY <1>1, <1>5, <2>1, <2>3, <3>1 DEF Lists
    <3>3. (QueueTypeOK => (OneOwner <=> Lists))'
      BY OwnerLists, PTL
    <3> QED BY <2>5, <3>2, <3>3
  <2>9. FillInv'
    BY <1>2, <1>5, <2>1, <2>2, <2>4, SetOfEmpty, EmptySeq DEF IInv, FillInv, Fresh
  <2>10. WaitInv'
    BY <1>2, <1>5, <2>1, <2>4 DEF IInv, WaitInv
  <2> QED BY <2>6, <2>7, <2>8, <2>9, <2>10 DEF IInv
<1>7. CASE ~disconnected
  <2>1. /\ irqqueue' = Append(irqqueue, cur) /\ vb' = [vb EXCEPT ![cur] = "active"]
        /\ held' = held /\ done' = done
    BY <1>7
  <2>2. /\ irqqueue' \in Seq(Buffer) /\ irqqueue' # <<>> /\ IsInjective(irqqueue')
        /\ ToSet(irqqueue') = ToSet(irqqueue) \cup {cur}
        /\ Len(irqqueue') = Len(irqqueue) + 1 /\ Len(irqqueue) \in Nat
        /\ \A i \in 1 .. Len(irqqueue) : irqqueue'[i] = irqqueue[i]
        /\ irqqueue'[Len(irqqueue) + 1] = cur
    BY <1>1, <1>2, <1>3, <1>4, <2>1, SetOfAppend, AppendProperties, LenProperties DEF Lists
  <2>3. \A x \in Buffer : vb'[x] = IF x = cur THEN "active" ELSE vb[x]
    BY <1>4, <2>1
  <2>4. QueueTypeOK'
    <3>1. vb' \in [Buffer -> VbState]
      BY <1>4, <2>1 DEF VbState
    <3> QED BY <3>1, <1>1, <1>5, <2>1, <2>2 DEF QueueTypeOK, VbState
  <2>5. TypeOK'
    <3>1. VideoTypeOK'
      BY <2>4 DEF IInv, TypeOK, VideoTypeOK
    <3> QED BY <3>1 DEF IInv, TypeOK, Place
  <2>6. ProcessInv'
    BY <1>2 DEF IInv, ProcessInv
  <2>7. irqqueue # <<>> => irqqueue'[1] = irqqueue[1]
    <3>1. irqqueue # <<>> => 1 \in 1 .. Len(irqqueue)
      BY <1>4, EmptySeq, LenProperties, <2>2
    <3> QED BY <3>1, <2>2
  <2>8. OneOwner'
    <3>1. \A x \in Buffer :
            /\ vb'[x] = "active" <=> x \in ToSet(irqqueue')
            /\ vb'[x] = "done" <=> x \in ToSet(done')
            /\ vb'[x] = "queued" <=> x \in ToSet(posted') \/ (pc' = "queue" /\ x = cur')
      BY <1>1, <1>2, <1>3, <1>5, <2>1, <2>2, <2>3, SetOfEmpty DEF Lists
    <3>2. Lists'
      BY <1>1, <1>5, <2>1, <2>2, <2>7, <3>1 DEF Lists
    <3>3. (QueueTypeOK => (OneOwner <=> Lists))'
      BY OwnerLists, PTL
    <3> QED BY <2>4, <3>2, <3>3
  <2>9. FillInv'
    <3>1. \A i \in 2 .. Len(irqqueue') : held[irqqueue'[i]] = Empty("queued")
      <4> SUFFICES ASSUME NEW i \in 2 .. Len(irqqueue')
                   PROVE  held[irqqueue'[i]] = Empty("queued")
        OBVIOUS
      <4>1. CASE i = Len(irqqueue) + 1
        BY <4>1, <1>2, <2>2 DEF Fresh
      <4>2. CASE i # Len(irqqueue) + 1
        <5>1. i \in 2 .. Len(irqqueue) /\ i \in 1 .. Len(irqqueue)
          BY <4>2, <2>2
        <5> QED BY <5>1, <2>2 DEF IInv, FillInv, Fresh
      <4> QED BY <4>1, <4>2
    <3>2. CASE irqqueue = <<>>
      <4>1. irqqueue'[1] = cur
        BY <3>2, <2>2, EmptySeq
      <4> QED BY <3>1, <4>1, <1>2, <1>5, <2>1, SetOfEmpty DEF IInv, FillInv, Fresh, Empty
    <3>3. CASE irqqueue # <<>>
      BY <3>1, <3>3, <2>7, <1>2, <1>5, <2>1, SetOfEmpty DEF IInv, FillInv, Fresh, Growing
    <3> QED BY <3>2, <3>3
  <2>10. WaitInv'
    BY <1>2, <1>5, <1>7, <2>1, <2>3 DEF IInv, WaitInv
  <2> QED BY <2>5, <2>6, <2>8, <2>9, <2>10 DEF IInv
<1> QED BY <1>6, <1>7

LEMMA StreamOnKeeps == IInv /\ StreamOn => IInv'
<1> SUFFICES ASSUME IInv, StreamOn PROVE IInv'
  OBVIOUS
<1> USE DEF StreamOn
<1>1. CASE Registered
  <2>1. /\ StartStream /\ pc = "post" /\ pc' = "starting" /\ UNCHANGED <<cur, captureOn_, polls>>
        /\ job = "none" /\ power = "on" /\ Unposted = {}
    BY <1>1
  <2>2. /\ clock' = TRUE /\ QueueEnable /\ job' = "commit" /\ ~streaming
        /\ UNCHANGED <<lastFid, frozen, inFlight, handler, submitted, power, camera, plug>>
    BY <2>1 DEF StartStream
  <2>3. /\ irqqueue = <<>> /\ inFlight = 0 /\ ~handler.busy /\ handler.buf = None
    BY <2>2 DEF IInv, ProcessInv, TypeOK, VideoTypeOK, Idle
  <2>4. QueueTypeOK /\ Lists
    BY InvLists
  <2>5. /\ posted \in Seq(Buffer) /\ done \in Seq(Buffer) /\ irqqueue \in Seq(Buffer)
        /\ held \in [Buffer -> Content] /\ vb \in [Buffer -> VbState]
        /\ ToSet(posted) \subseteq Buffer
    BY <2>4, SetOfSeq DEF QueueTypeOK, VbState
  <2>6. /\ streaming' = TRUE /\ posted' = <<>> /\ disconnected' = disconnected
        /\ disconnected => /\ irqqueue' = <<>> /\ done' = done \o posted
        /\ ~disconnected => /\ irqqueue' = posted /\ done' = done /\ held' = held
    BY <2>2, <2>3, <2>5, ConcatEmptySeq DEF QueueEnable
  <2>7. \A b \in Buffer :
          /\ vb'[b] = IF b \notin ToSet(posted) THEN vb[b]
                      ELSE IF disconnected THEN "done" ELSE "active"
          /\ vb'[b] \in VbState
    BY <2>2, <2>5 DEF QueueEnable, VbState
  <2>8. \A b \in Buffer :
          /\ held'[b] \in Content
          /\ held'[b] = held[b] \/ held'[b].state = "error"
    <3>1. CASE disconnected
      <4> SUFFICES ASSUME NEW b \in Buffer
                   PROVE  /\ held'[b] \in Content
                          /\ held'[b] = held[b] \/ held'[b].state = "error"
        OBVIOUS
      <4> DEFINE c == held[b]
                 d == [c EXCEPT !.state = "error"]
      <4>1. held'[b] = IF b \in ToSet(posted) THEN d ELSE c
        BY <3>1, <2>2 DEF QueueEnable
      <4>2. c \in Content
        BY <2>5
      <4> HIDE DEF c
      <4>3. d \in Content /\ d.state = "error"
        BY <4>2 DEF Content
      <4> QED BY <4>1, <4>2, <4>3 DEF c
    <3>2. CASE ~disconnected
      BY <3>2, <2>5, <2>6
    <3> QED BY <3>1, <3>2
  <2>9. /\ done \o posted \in Seq(Buffer)
        /\ ToSet(done \o posted) = ToSet(done) \cup ToSet(posted)
        /\ IsInjective(done \o posted)
    <3>1. ToSet(done) \cap ToSet(posted) = {}
      BY <2>4, <2>5 DEF Lists
    <3> QED BY <3>1, <2>4, <2>5, SetOfConcat, ConcatProperties DEF Lists
  <2>10. QueueTypeOK'
    <3>1. held' \in [Buffer -> Content]
      <4>1. held' = held \/ held' = [b \in Buffer |-> held'[b]]
        BY <2>2 DEF QueueEnable
      <4> QED BY <4>1, <2>5, <2>8
    <3>2. vb' \in [Buffer -> {"dequeued", "queued", "active", "done"}]
      <4>1. vb' = [b \in Buffer |-> vb'[b]]
        BY <2>2 DEF QueueEnable
      <4> QED BY <4>1, <2>7 DEF VbState
    <3>3. irqqueue' \in Seq(Buffer) /\ done' \in Seq(Buffer) /\ posted' \in Seq(Buffer)
      BY <2>5, <2>6, <2>9, EmptySeq
    <3> QED BY <3>1, <3>2, <3>3, <2>4, <2>6 DEF QueueTypeOK
  <2>11. TypeOK'
    <3>1. VideoTypeOK'
      BY <2>2, <2>10 DEF IInv, TypeOK, VideoTypeOK, Job
    <3> QED BY <3>1, <2>1 DEF IInv, TypeOK, Place
  <2>12. ProcessInv'
    BY <2>1, <2>2, <2>3, <2>6 DEF IInv, ProcessInv
  <2>13. OneOwner'
    <3>1. \A x \in Buffer :
            /\ vb'[x] = "active" <=> x \in ToSet(irqqueue')
            /\ vb'[x] = "done" <=> x \in ToSet(done')
            /\ vb'[x] = "queued" <=> x \in ToSet(posted') \/ (pc' = "queue" /\ x = cur')
      BY <2>1, <2>3, <2>4, <2>6, <2>7, <2>9, SetOfEmpty DEF Lists
    <3>2. IsInjective(irqqueue') /\ IsInjective(done') /\ IsInjective(posted')
      BY <2>4, <2>6, <2>9, SetOfEmpty DEF Lists
    <3>3. Lists'
      BY <2>1, <2>2, <2>3, <3>1, <3>2 DEF Lists
    <3>4. (QueueTypeOK => (OneOwner <=> Lists))'
      BY OwnerLists, PTL
    <3> QED BY <2>10, <3>3, <3>4
  <2>14. FillInv'
    <3>1. \A b \in Buffer : held'[b].state = "done" /\ ~held'[b].cut
                              => ~held'[b].torn /\ held'[b].used = FrameLen
      BY <2>8 DEF IInv, FillInv
    <3>2. \A b \in ToSet(irqqueue') : held'[b] = Empty("queued")
      BY <2>6, SetOfEmpty DEF IInv, FillInv, Fresh
    <3>3. /\ \A i \in 2 .. Len(irqqueue') : irqqueue'[i] \in ToSet(irqqueue')
          /\ irqqueue' # <<>> => irqqueue'[1] \in ToSet(irqqueue')
      <4>1. irqqueue' \in Seq(Buffer)
        BY <2>10 DEF QueueTypeOK
      <4>2. irqqueue' # <<>> => irqqueue'[1] \in ToSet(irqqueue')
        BY <4>1, SetOfTail
      <4>3. \A i \in 2 .. Len(irqqueue') : i \in DOMAIN irqqueue'
        BY <4>1, LenProperties
      <4> QED BY <4>2, <4>3 DEF ToSet
    <3>4. /\ \A i \in 2 .. Len(irqqueue') : held'[irqqueue'[i]] = Empty("queued")
          /\ irqqueue' # <<>> => held'[irqqueue'[1]] = Empty("queued")
      BY <3>2, <3>3
    <3> QED BY <3>1, <3>4, <2>1, <2>3, <2>6, SetOfEmpty DEF FillInv, Fresh, Empty
  <2>15. WaitInv'
    BY <2>1, <2>6, <2>7 DEF IInv, WaitInv, Unposted
  <2> QED BY <2>11, <2>12, <2>13, <2>14, <2>15 DEF IInv
<1>2. CASE ~Registered
  <2> USE <1>2 DEF IInv, videoVars, queueVars, streamVars, processVars
  <2>1. TypeOK'
    <3>1. QueueTypeOK'
      BY DEF TypeOK, VideoTypeOK, QueueTypeOK
    <3>2. VideoTypeOK'
      BY <3>1 DEF TypeOK, VideoTypeOK
    <3> QED BY <3>2 DEF TypeOK, Place
  <2>2. ProcessInv'
    BY DEF ProcessInv
  <2>3. OneOwner'
    BY DEF OneOwner
  <2>4. FillInv'
    BY DEF FillInv, Fresh, Growing
  <2>5. WaitInv'
    BY DEF WaitInv, DequeueReady
  <2> QED BY <2>1, <2>2, <2>3, <2>4, <2>5
<1> QED BY <1>1, <1>2

LEMMA InvStep == IInv /\ [Next]_vars => IInv'
<1> SUFFICES ASSUME IInv, [Next]_vars PROVE IInv'
  OBVIOUS
<1>1. CASE Program
  BY <1>1, OpenKeeps, PostBufferKeeps, StreamOnKeeps, StreamIsOnKeeps, LoopKeeps,
     CallDequeueKeeps, DequeueKeeps, RequeueKeeps, RequeueEndsKeeps, CaptureOffKeeps, CloseKeeps
     DEF Program
<1>2. CASE DriverStep
  <2>1. CASE Interrupt /\ UNCHANGED appVars
    <3>1. CASE UrbFails
      BY <2>1, <3>1, UrbEndsKeeps DEF UrbFails
    <3>2. CASE UrbShutDown
      BY <2>1, <3>2, UrbEndsKeeps DEF UrbShutDown
    <3> QED BY <2>1, <3>1, <3>2, UrbCompletesKeeps, DecodePayloadKeeps, ResubmitKeeps DEF Interrupt
  <2>2. CASE KillUrb /\ UNCHANGED appVars
    BY <2>2, UrbEndsKeeps DEF KillUrb
  <2>3. CASE Driver /\ ~Interrupt /\ ~KillUrb /\ UNCHANGED appVars
    BY <2>3, CameraUnheardKeeps, CommitStreamKeeps, CommitFailsKeeps, SubmitUrbKeeps,
       SubmitFailsKeeps, SuspendedKeeps, ResumeKeeps, ResumeFailedKeeps, UnplugKeeps,
       UnregisterKeeps DEF Driver
  <2> QED BY <1>2, <2>1, <2>2, <2>3, StreamStoppedKeeps, StreamReleasedKeeps DEF DriverStep, Driver
<1>3. CASE UNCHANGED vars
  <2> USE <1>3 DEF IInv, vars, videoVars, queueVars, streamVars, processVars, appVars
  <2>1. TypeOK'
    <3>1. QueueTypeOK'
      BY DEF TypeOK, VideoTypeOK, QueueTypeOK
    <3>2. VideoTypeOK'
      BY <3>1 DEF TypeOK, VideoTypeOK
    <3> QED BY <3>2 DEF TypeOK
  <2>2. ProcessInv'
    BY DEF ProcessInv
  <2>3. OneOwner'
    BY DEF OneOwner
  <2>4. FillInv'
    BY DEF FillInv, Fresh, Growing
  <2>5. WaitInv'
    BY DEF WaitInv, DequeueReady
  <2> QED BY <2>1, <2>2, <2>3, <2>4, <2>5
<1> QED BY <1>1, <1>2, <1>3, QuitKeeps, SuspendComputerKeeps, ReplugKeeps DEF Next

-----------------------------------------------------------------------------
\* Whatever the order of the program's calls, the handler's payloads, the URBs
\* and the power: who does what, who owns and fills which buffer, and who waits.
THEOREM Camera == Spec => []IInv
<1>1. Init /\ [][Next]_vars => []IInv
  BY InvInit, InvStep, PTL
<1> QED BY <1>1, PTL DEF Spec

\* The variables of the queue, the stream and the program keep their types.
THEOREM TypeCorrect == Spec => []TypeOK
<1>1. IInv => TypeOK
  BY DEF IInv
<1> QED BY <1>1, Camera, PTL

\* A buffer is in the list its state says, once and in no other, and the handler
\* never fills the one the program converts (the lists of uvc_queue.c).
THEOREM BuffersHaveOneOwner == Spec => []OneOwner
<1>1. IInv => OneOwner
  BY DEF IInv
<1> QED BY <1>1, Camera, PTL

\* What the driver hands over as a good frame is a whole one
\* (uvc_video_decode_start, uvc_video_decode_isoc, uvc_queue_next_buffer).
THEOREM FramesAreWhole == Spec => []WholeFrames
<1>1. IInv => WholeFrames
  BY DEF IInv, FillInv, WaitInv, WholeFrames
<1> QED BY <1>1, Camera, PTL

\* The loop that polls finds a buffer in DQBUF, and so does the program whose
\* camera is gone (uvc_queue_cancel, uvc_buffer_queue).
THEOREM NobodyWaits == Spec => []NobodyWaitsInVain
<1>1. IInv => NobodyWaitsInVain
  <2> SUFFICES ASSUME IInv PROVE NobodyWaitsInVain
    OBVIOUS
  <2>1. polls /\ pc = "dequeue" => DequeueReady
    BY DEF IInv, WaitInv
  <2>2. ASSUME disconnected, pc = "dequeue" PROVE irqqueue = <<>> /\ DequeueReady
    <3>1. irqqueue = <<>>
      BY <2>2 DEF IInv, WaitInv
    <3>2. ASSUME streaming PROVE done # <<>>
      <4>1. QueueTypeOK /\ Lists
        BY InvLists
      <4>2. posted = <<>> /\ \A b \in Buffer : vb[b] # "dequeued"
        BY <2>2, <3>2 DEF IInv, ProcessInv, WaitInv
      <4>3. PICK b \in Buffer : TRUE
        OBVIOUS
      <4>4. vb[b] = "done"
        BY <2>2, <3>1, <4>1, <4>2, SetOfEmpty DEF QueueTypeOK, Lists
      <4> QED BY <4>1, <4>4, SetOfEmpty DEF Lists
    <3> QED BY <3>1, <3>2 DEF DequeueReady
  <2> QED BY <2>1, <2>2 DEF NobodyWaitsInVain
<1> QED BY <1>1, Camera, PTL

\* No handler runs without the clock samples it writes to
\* (uvc_video_enable: uvc_video_clock_cleanup after uvc_uninit_video).
THEOREM ClockOutlives == Spec => []ClockOutlivesUrbs
<1>1. IInv => ClockOutlivesUrbs
  BY DEF IInv, ProcessInv, ClockOutlivesUrbs
<1> QED BY <1>1, Camera, PTL
=============================================================================
