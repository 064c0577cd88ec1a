------------------------------ MODULE LineProofs ------------------------------
(***************************************************************************)
(* For every set of strings, size of queue and size of buffer, the         *)
(* non-blocking serial line implements a ByteStream in each direction.     *)
(* The line from end to end is such a SerialNonBlocking at one end and a   *)
(* board with some terminal at the other: what is proved of either holds   *)
(* of both together, for every turn and cube.                              *)
(*                                                                         *)
(* And what is sent on it, TranslateMoves: for texts of any length, the    *)
(* commands turn the cube as the text says.  A move that waits is always a *)
(* turn of one axis, so that combining it with the next one is what the    *)
(* reference, Reduced, does with the two; the last of the turns that are   *)
(* done stays on the axis of the move that waits.                          *)
(***************************************************************************)
EXTENDS Line, FirmwareProofs, TranslateMoves, FiniteSetTheorems,
        SequenceTheorems, WellFoundedInduction, TLAPS

\* What write() and read() take from a sequence and what they leave are
\* together the sequence.
LEMMA FirstAfter ==
  ASSUME NEW S, NEW s \in Seq(S), NEW n \in 0 .. Len(s)
  PROVE  /\ First(s, n) \in Seq(S) /\ After(s, n) \in Seq(S)
         /\ Len(First(s, n)) = n
         /\ First(s, n) \o After(s, n) = s
<1>1. First(s, n) \in Seq(S) /\ Len(First(s, n)) = n
  <2>1. \A i \in 1 .. n : s[i] \in S
    BY ElementOfSeq
  <2> QED BY <2>1, SubSeqProperties DEF First
<1>2. After(s, n) \in Seq(S)
  <2>1. \A i \in n + 1 .. Len(s) : s[i] \in S
    BY ElementOfSeq
  <2> QED BY <2>1, SubSeqProperties DEF After
<1>3. First(s, n) \o After(s, n) = s
  <2>0. /\ Len(s) \in Nat /\ 1 \in 1 .. Len(s) + 1
        /\ n \in 1 - 1 .. Len(s) /\ Len(s) \in n .. Len(s)
    BY LenProperties
  <2>1. SubSeq(s, 1, n) \o SubSeq(s, n + 1, Len(s)) = SubSeq(s, 1, Len(s))
    BY <2>0, ConcatAdjacentSubSeq, Zenon
  <2> QED BY <2>1, SubSeqFull DEF First, After
<1> QED BY <1>1, <1>2, <1>3

\* Concatenation under a name, so that a proof can keep it closed.
Cat(x, y) == x \o y

\* Concatenation is associative.
LEMMA Associative ==
  \A S : \A x, y, z \in Seq(S) :
    Cat(x, y) \in Seq(S) /\ Cat(Cat(x, y), z) = Cat(x, Cat(y, z))
BY ConcatAssociative, ConcatProperties DEF Cat

\* Moving the front of the last of three sequences to the end of the middle one.
LEMMA MoveFront ==
  ASSUME NEW S, NEW a \in Seq(S), NEW b \in Seq(S), NEW c \in Seq(S),
         NEW n \in 0 .. Len(c)
  PROVE  Cat(Cat(a, Cat(b, First(c, n))), After(c, n)) = Cat(Cat(a, b), c)
<1> DEFINE f == First(c, n)
           r == After(c, n)
<1>1. f \in Seq(S) /\ r \in Seq(S) /\ Cat(f, r) = c
  BY FirstAfter DEF Cat
<1> HIDE DEF f, r
<1>2. Cat(a, Cat(b, f)) = Cat(Cat(a, b), f) /\ Cat(a, b) \in Seq(S)
  BY <1>1, Associative
<1>3. Cat(Cat(Cat(a, b), f), r) = Cat(Cat(a, b), Cat(f, r))
  BY <1>1, <1>2, Associative
<1> QED BY <1>1, <1>2, <1>3 DEF f, r

\* What is put behind a sequence leaves it as it is.
LEMMA PutBehind ==
  ASSUME NEW S, NEW s \in Seq(S), NEW t \in Seq(S)
  PROVE  /\ s \o t \in Seq(S) /\ Len(s \o t) >= Len(s)
         /\ SubSeq(s \o t, 1, Len(s)) = s
<1>1. s \o t \in Seq(S) /\ Len(s \o t) = Len(s) + Len(t)
  BY ConcatProperties
<1>2. Len(s) \in Nat /\ Len(t) \in Nat
  BY LenProperties
<1>3. CASE Len(s) = 0
  BY <1>1, <1>2, <1>3, EmptySeq, SubSeqEmpty
<1>4. CASE Len(s) # 0
  <2>1. SubSeq(s \o t, 1, Len(s)) = SubSeq(s, 1, Len(s))
    BY <1>2, <1>4, SubSeqOfConcat1
  <2> QED BY <1>1, <1>2, <2>1, SubSeqFull
<1> QED BY <1>3, <1>4

-----------------------------------------------------------------------------
\* The types hold when the line is opened.
LEMMA TypeInit == Init => TypeOK
<1>1. <<>> \in Seq(Bytes) /\ Len(<<>>) <= TtyRoom
  BY SizeAssumption, EmptySeq
<1> QED BY <1>1 DEF Init, TypeOK

\* The result of ::write() is a number of bytes that fits.
LEMMA WrittenFits ==
  ASSUME TypeOK, NEW s \in Seq(Bytes), NEW n \in Written(s)
  PROVE  /\ n \in 0 .. Len(s)
         /\ ttyOut \o First(s, n) \in Seq(Bytes)
         /\ Len(ttyOut \o First(s, n)) <= TtyRoom
<1>1. n \in 0 .. Len(s) /\ n <= TtyRoom - Len(ttyOut)
  BY DEF Written, Room
<1>2. First(s, n) \in Seq(Bytes) /\ Len(First(s, n)) = n
  BY <1>1, FirstAfter
<1>3. ttyOut \o First(s, n) \in Seq(Bytes)
      /\ Len(ttyOut \o First(s, n)) = Len(ttyOut) + n
  BY <1>2, ConcatProperties DEF TypeOK
<1>4. Len(ttyOut) \in Nat /\ Len(s) \in Nat
  BY LenProperties DEF TypeOK
<1> QED BY <1>1, <1>3, <1>4, SizeAssumption

\* Every step keeps the types, the bound of the tty's queue, and the result of
\* read() empty outside read().
LEMMA TypeStep == TypeOK /\ [Next]_vars => TypeOK'
<1> SUFFICES ASSUME TypeOK, [Next]_vars
             PROVE  TypeOK'
  OBVIOUS
<1> USE DEF TypeOK, outVars, inVars
<1>1. CASE Poll
  BY <1>1 DEF Poll
<1>2. CASE OnReadyToWrite
  <2>1. CASE pollout /\ writeBuffer # <<>>
    <3>1. PICK n \in Written(writeBuffer) :
            ttyOut' = ttyOut \o First(writeBuffer, n)
            /\ writeBuffer' = After(writeBuffer, n)
      BY <1>2, <2>1 DEF OnReadyToWrite
    <3>2. ttyOut' \in Seq(Bytes) /\ Len(ttyOut') <= TtyRoom
          /\ writeBuffer' \in Seq(Bytes)
      BY <3>1, WrittenFits, FirstAfter
    <3> QED BY <1>2, <3>2 DEF OnReadyToWrite
  <2>2. CASE ~(pollout /\ writeBuffer # <<>>)
    BY <1>2, <2>2 DEF OnReadyToWrite
  <2> QED BY <2>1, <2>2
<1>3. CASE SkipRead
  BY <1>3 DEF SkipRead
<1>4. CASE BeginRead
  BY <1>4 DEF BeginRead
<1>5. CASE ReadSome
  <2>1. PICK n \in 0 .. Len(ttyIn) :
          ret' = ret \o First(ttyIn, n) /\ ttyIn' = After(ttyIn, n)
    <3>1. Len(ttyIn) \in Nat
      BY LenProperties
    <3> DEFINE n == IF Len(ttyIn) < ReadBuffer THEN Len(ttyIn) ELSE ReadBuffer
    <3>2. n \in 0 .. Len(ttyIn)
      BY <3>1, SizeAssumption
    <3>3. ret' = ret \o First(ttyIn, n) /\ ttyIn' = After(ttyIn, n)
      BY <1>5 DEF ReadSome
    <3> QED BY <3>2, <3>3
  <2>2. ret' \in Seq(Bytes) /\ ttyIn' \in Seq(Bytes)
    BY <2>1, FirstAfter, ConcatProperties
  <2> QED BY <1>5, <2>2 DEF ReadSome
<1>6. CASE EndRead
  <2>1. serRcv' \in Seq(Bytes)
    BY <1>6, ConcatProperties DEF EndRead
  <2> QED BY <1>6, <2>1, EmptySeq DEF EndRead
<1>7. CASE EndApp
  BY <1>7 DEF EndApp
<1>8. CASE \E s \in Strings : Write(s)
  <2>1. PICK s \in Strings : Write(s)
    BY <1>8
  <2>2. s \in Seq(Bytes) /\ Len(s) \in Nat /\ Len(ttyOut) \in Nat
    BY StringsAssumption, LenProperties
  <2>3. PICK n \in IF writeBuffer = <<>> THEN Written(s) ELSE {0} :
          ttyOut' = ttyOut \o First(s, n)
          /\ writeBuffer' = writeBuffer \o After(s, n)
    BY <2>1 DEF Write
  <2>4. n \in 0 .. Len(s) /\ ttyOut' \in Seq(Bytes) /\ Len(ttyOut') <= TtyRoom
    <3>1. CASE writeBuffer = <<>>
      BY <2>2, <2>3, <3>1, WrittenFits
    <3>2. CASE writeBuffer # <<>>
      <4>1. n = 0 /\ First(s, n) = <<>>
        BY <2>2, <2>3, <3>2, SubSeqEmpty DEF First
      <4>2. ttyOut' = ttyOut
        BY <2>3, <4>1, ConcatEmptySeq
      <4> QED BY <2>2, <4>1, <4>2
    <3> QED BY <3>1, <3>2
  <2>5. writeBuffer' \in Seq(Bytes)
    BY <2>2, <2>3, <2>4, FirstAfter, ConcatProperties
  <2> QED BY <2>1, <2>4, <2>5 DEF Write
<1>9. CASE Throw
  BY <1>9 DEF Throw
<1>10. CASE Transmit
  <2>1. Head(ttyOut) \in Bytes /\ Tail(ttyOut) \in Seq(Bytes)
        /\ Len(Tail(ttyOut)) = Len(ttyOut) - 1 /\ Len(ttyOut) \in Nat
    BY <1>10, HeadTailProperties, LenProperties DEF Transmit
  <2>2. transmitted' \in Seq(Bytes) /\ ttyOut' \in Seq(Bytes)
    BY <1>10, <2>1, AppendProperties DEF Transmit
  <2>3. Len(ttyOut') <= TtyRoom
    BY <1>10, <2>1, SizeAssumption DEF Transmit
  <2> QED BY <1>10, <2>2, <2>3 DEF Transmit
<1>11. CASE Incoming
  <2>1. ttyIn' \in Seq(Bytes)
    BY <1>11, AppendProperties DEF Incoming
  <2> QED BY <1>11, <2>1 DEF Incoming
<1>12. CASE UNCHANGED vars
  BY <1>12 DEF vars
<1> QED
  BY <1>1, <1>2, <1>3, <1>4, <1>5, <1>6, <1>7, <1>8, <1>9, <1>10, <1>11, <1>12
  DEF Next, Loop

\* The types of the serial line, the bound of the tty, and an empty result
\* outside read().
THEOREM TypeCorrect == Spec => []TypeOK
BY TypeInit, TypeStep, PTL DEF Spec

-----------------------------------------------------------------------------
\* The two streams, as sequences.
OutSent == transmitted \o ttyOut \o writeBuffer
InSent == serRcv \o ret \o ttyIn

LEMMA StreamTypes == TypeOK => OutSent \in Seq(Bytes) /\ InSent \in Seq(Bytes)
BY ConcatProperties DEF TypeOK, OutSent, InSent

\* Bytes put behind the others are a Put of the stream.
LEMMA OutPut ==
  ASSUME OutSent \in Seq(Bytes), NEW t \in Seq(Bytes), OutSent' = OutSent \o t,
         transmitted' = transmitted
  PROVE  Out!Put
<1>1. /\ OutSent' \in Seq(Bytes) /\ Len(OutSent') >= Len(OutSent)
      /\ SubSeq(OutSent', 1, Len(OutSent)) = OutSent
  BY PutBehind
<1> QED BY <1>1 DEF Out!Put, OutSent

LEMMA InPut ==
  ASSUME InSent \in Seq(Bytes), NEW t \in Seq(Bytes), InSent' = InSent \o t,
         serRcv' = serRcv
  PROVE  In!Put
<1>1. /\ InSent' \in Seq(Bytes) /\ Len(InSent') >= Len(InSent)
      /\ SubSeq(InSent', 1, Len(InSent)) = InSent
  BY PutBehind
<1> QED BY <1>1 DEF In!Put, InSent

\* More than the bytes got, and a front of all.
Taken(more, got, all) ==
  Len(more) \in Len(got) .. Len(all) /\ more = SubSeq(all, 1, Len(more))

\* The first bytes of a sequence that continues: a Take of the stream.
LEMMA TakeFirst ==
  \A S : \A s, t, u \in Seq(S) : Taken(Cat(s, t), s, Cat(Cat(s, t), u))
<1> SUFFICES ASSUME NEW S, NEW s \in Seq(S), NEW t \in Seq(S), NEW u \in Seq(S)
             PROVE  Taken(Cat(s, t), s, Cat(Cat(s, t), u))
  OBVIOUS
<1> DEFINE st == Cat(s, t)
<1>1. st \in Seq(S) /\ Len(st) = Len(s) + Len(t)
  BY ConcatProperties DEF Cat
<1>2. Len(s) \in Nat /\ Len(t) \in Nat
  BY LenProperties
<1> HIDE DEF st
<1>3. Len(st \o u) >= Len(st) /\ SubSeq(st \o u, 1, Len(st)) = st /\ st \o u \in Seq(S)
  BY <1>1, PutBehind
<1>4. Len(st \o u) \in Nat
  BY <1>3, LenProperties
<1>5. Cat(st, u) = st \o u
  BY DEF Cat
<1> QED BY <1>1, <1>2, <1>3, <1>4, <1>5 DEF st, Taken

-----------------------------------------------------------------------------
\* Every step is a step of the outgoing stream or leaves it alone.
LEMMA OutStep ==
  TypeOK /\ [Next]_vars => [Out!Next]_<<OutSent, transmitted>>
<1> SUFFICES ASSUME TypeOK, [Next]_vars
             PROVE  Out!Put \/ Out!Take \/ (OutSent' = OutSent /\ transmitted' = transmitted)
  BY DEF Out!Next
<1>0. /\ OutSent \in Seq(Bytes)
      /\ transmitted \in Seq(Bytes) /\ ttyOut \in Seq(Bytes) /\ writeBuffer \in Seq(Bytes)
  BY StreamTypes DEF TypeOK
<1>1. CASE UNCHANGED outVars
  BY <1>1 DEF outVars, OutSent
<1>2. CASE OnReadyToWrite
  <2>1. CASE pollout /\ writeBuffer # <<>>
    <3>1. PICK n \in Written(writeBuffer) :
            ttyOut' = ttyOut \o First(writeBuffer, n)
            /\ writeBuffer' = After(writeBuffer, n)
      BY <1>2, <2>1 DEF OnReadyToWrite
    <3>2. n \in 0 .. Len(writeBuffer) /\ transmitted' = transmitted
      BY <1>2, <3>1, <1>0, WrittenFits DEF OnReadyToWrite
    <3>3. OutSent' = Cat(Cat(transmitted, Cat(ttyOut, First(writeBuffer, n))), After(writeBuffer, n))
      BY <3>1, <3>2 DEF OutSent, Cat
    <3>4. OutSent = Cat(Cat(transmitted, ttyOut), writeBuffer)
      BY DEF OutSent, Cat
    <3>5. OutSent' = OutSent
      BY <1>0, <3>2, <3>3, <3>4, MoveFront
    <3> QED BY <3>2, <3>5
  <2>2. CASE ~(pollout /\ writeBuffer # <<>>)
    BY <1>1, <1>2, <2>2 DEF OnReadyToWrite, outVars
  <2> QED BY <2>1, <2>2
<1>3. ASSUME NEW text \in Strings, Write(text)
      PROVE  Out!Put
  <2>1. text \in Seq(Bytes) /\ transmitted' = transmitted
    BY <1>3, StringsAssumption DEF Write
  <2>2. PICK n \in IF writeBuffer = <<>> THEN Written(text) ELSE {0} :
          ttyOut' = ttyOut \o First(text, n)
          /\ writeBuffer' = writeBuffer \o After(text, n)
    BY <1>3 DEF Write
  <2>3. CASE writeBuffer = <<>>
    <3>1. n \in 0 .. Len(text) /\ writeBuffer' = After(text, n)
      <4>1. n \in 0 .. Len(text)
        BY <2>1, <2>2, <2>3, WrittenFits
      <4>2. After(text, n) \in Seq(Bytes)
        BY <2>1, <4>1, FirstAfter
      <4> QED BY <2>2, <2>3, <4>1, <4>2, ConcatEmptySeq
    <3>2. OutSent' = Cat(Cat(transmitted, Cat(ttyOut, First(text, n))), After(text, n))
      BY <2>1, <2>2, <3>1 DEF OutSent, Cat
    <3>3. OutSent' = Cat(Cat(transmitted, ttyOut), text)
      BY <1>0, <2>1, <3>1, <3>2, MoveFront
    <3>4. OutSent = Cat(transmitted, ttyOut)
      BY <1>0, <2>3, ConcatProperties, ConcatEmptySeq DEF OutSent, Cat
    <3>5. OutSent' = OutSent \o text
      BY <3>3, <3>4 DEF Cat
    <3> QED BY <1>0, <2>1, <3>5, OutPut
  <2>4. CASE writeBuffer # <<>>
    <3>1. n = 0 /\ First(text, n) = <<>> /\ After(text, n) = text
      BY <2>1, <2>2, <2>4, SubSeqEmpty, SubSeqFull DEF First, After
    <3>2. ttyOut' = ttyOut /\ writeBuffer' = writeBuffer \o text
      BY <1>0, <2>2, <3>1, ConcatEmptySeq
    <3> DEFINE line == Cat(transmitted, ttyOut)
    <3>3. line \in Seq(Bytes)
      BY <1>0, Associative
    <3>4. OutSent = Cat(line, writeBuffer) /\ OutSent' = Cat(line, Cat(writeBuffer, text))
      BY <2>1, <3>2 DEF OutSent, Cat
    <3> HIDE DEF line
    <3>5. OutSent' = Cat(OutSent, text)
      BY <1>0, <2>1, <3>3, <3>4, Associative
    <3>6. OutSent' = OutSent \o text
      BY <3>5 DEF Cat
    <3> QED BY <1>0, <2>1, <3>6, OutPut
  <2> QED BY <2>3, <2>4
<1>4. CASE Transmit
  <2>1. ttyOut # <<>> /\ transmitted' = Append(transmitted, Head(ttyOut))
        /\ ttyOut' = Tail(ttyOut) /\ writeBuffer' = writeBuffer
    BY <1>4 DEF Transmit
  <2> DEFINE h == Head(ttyOut)
             r == Tail(ttyOut)
  <2>2. h \in Bytes /\ r \in Seq(Bytes) /\ <<h>> \in Seq(Bytes)
    BY <1>0, <2>1, HeadTailProperties
  <2>3. ttyOut = <<h>> \o r
    BY <1>0, <2>1
  <2>4. transmitted' = transmitted \o <<h>>
    BY <1>0, <2>1, <2>2, AppendIsConcat
  <2> DEFINE b == <<h>>
  <2> HIDE DEF h, r, b
  <2>5. /\ b \in Seq(Bytes) /\ r \in Seq(Bytes)
        /\ ttyOut = Cat(b, r) /\ ttyOut' = r /\ transmitted' = Cat(transmitted, b)
    BY <2>1, <2>2, <2>3, <2>4 DEF Cat, b, r
  <2> DEFINE t == Cat(transmitted, b)
  <2>6. t \in Seq(Bytes) /\ Cat(transmitted, Cat(b, r)) = Cat(t, r)
    BY <1>0, <2>5, Associative
  <2> HIDE DEF t
  <2>7. Cat(r, writeBuffer) \in Seq(Bytes)
        /\ Cat(Cat(t, r), writeBuffer) = Cat(t, Cat(r, writeBuffer))
    BY <1>0, <2>5, <2>6, Associative
  <2>8. OutSent = Cat(t, Cat(r, writeBuffer))
    BY <2>5, <2>6, <2>7 DEF OutSent, Cat
  <2>9. OutSent' = Cat(t, Cat(r, writeBuffer))
    BY <2>1, <2>5, <2>7 DEF OutSent, Cat, t
  <2>10. Taken(t, transmitted, OutSent)
    BY <1>0, <2>5, <2>7, <2>8, TakeFirst, Zenon DEF t
  <2>11. transmitted' = t
    BY <2>5 DEF t
  <2>12. \E n \in Len(transmitted) .. Len(OutSent) :
           transmitted' = SubSeq(OutSent, 1, n) /\ OutSent' = OutSent
    BY <2>8, <2>9, <2>10, <2>11 DEF Taken
  <2> QED BY <2>12, Zenon DEF Out!Take, OutSent
<1> QED
  BY <1>1, <1>2, <1>3, <1>4
  DEF Next, Loop, Poll, SkipRead, BeginRead, ReadSome, EndRead, EndApp, Throw,
      Incoming, vars, outVars

\* Every step is a step of the incoming stream or leaves it alone.
LEMMA InStep ==
  TypeOK /\ [Next]_vars => [In!Next]_<<InSent, serRcv>>
<1> SUFFICES ASSUME TypeOK, [Next]_vars
             PROVE  In!Put \/ In!Take \/ (InSent' = InSent /\ serRcv' = serRcv)
  BY DEF In!Next
<1>0. /\ InSent \in Seq(Bytes)
      /\ serRcv \in Seq(Bytes) /\ ret \in Seq(Bytes) /\ ttyIn \in Seq(Bytes)
  BY StreamTypes DEF TypeOK
<1>1. CASE UNCHANGED inVars
  BY <1>1 DEF inVars, InSent
<1>2. CASE BeginRead
  <2>1. ret = <<>> /\ ret' = <<>> /\ UNCHANGED <<ttyIn, serRcv>>
    BY <1>2 DEF BeginRead, TypeOK
  <2> QED BY <2>1 DEF InSent
<1>3. CASE ReadSome
  <2>1. PICK n \in 0 .. Len(ttyIn) :
          ret' = ret \o First(ttyIn, n) /\ ttyIn' = After(ttyIn, n)
    <3>1. Len(ttyIn) \in Nat
      BY <1>0, LenProperties
    <3> DEFINE n == IF Len(ttyIn) < ReadBuffer THEN Len(ttyIn) ELSE ReadBuffer
    <3>2. n \in 0 .. Len(ttyIn)
      BY <3>1, SizeAssumption
    <3>3. ret' = ret \o First(ttyIn, n) /\ ttyIn' = After(ttyIn, n)
      BY <1>3 DEF ReadSome
    <3> QED BY <3>2, <3>3
  <2>2. serRcv' = serRcv
    BY <1>3 DEF ReadSome
  <2>3. InSent' = Cat(Cat(serRcv, Cat(ret, First(ttyIn, n))), After(ttyIn, n))
    BY <2>1, <2>2 DEF InSent, Cat
  <2>4. InSent = Cat(Cat(serRcv, ret), ttyIn)
    BY DEF InSent, Cat
  <2>5. InSent' = InSent
    BY <1>0, <2>1, <2>3, <2>4, MoveFront
  <2> QED BY <2>2, <2>5
<1>4. CASE EndRead
  <2>1. ttyIn = <<>> /\ serRcv' = serRcv \o ret /\ ret' = <<>> /\ ttyIn' = ttyIn
    BY <1>4 DEF EndRead
  <2>2. serRcv \o ret \in Seq(Bytes)
    BY <1>0, ConcatProperties
  <2> DEFINE all == serRcv \o ret
  <2> HIDE DEF all
  <2>3. all \in Seq(Bytes) /\ serRcv' = all
    BY <2>1, <2>2 DEF all
  <2>4. InSent = all
    BY <2>1, <2>3, ConcatEmptySeq DEF InSent, all
  <2>5. InSent' = all
    BY <2>1, <2>3, ConcatEmptySeq DEF InSent
  <2>6. Len(all) \in Len(serRcv) .. Len(all) /\ all = SubSeq(all, 1, Len(all))
    <3>1. Len(all) = Len(serRcv) + Len(ret)
      BY <1>0, ConcatProperties DEF all
    <3>2. Len(serRcv) \in Nat /\ Len(ret) \in Nat
      BY <1>0, LenProperties
    <3> QED BY <2>3, <3>1, <3>2, SubSeqFull
  <2>7. \E n \in Len(serRcv) .. Len(InSent) :
          serRcv' = SubSeq(InSent, 1, n) /\ InSent' = InSent
    BY <2>3, <2>4, <2>5, <2>6
  <2> QED BY <2>7, Zenon DEF In!Take, InSent
<1>5. CASE Incoming
  <2>1. PICK b \in Bytes : ttyIn' = Append(ttyIn, b) /\ UNCHANGED <<ret, serRcv>>
    BY <1>5 DEF Incoming
  <2> DEFINE line == Cat(serRcv, ret)
             tail == <<b>>
  <2>2. tail \in Seq(Bytes) /\ ttyIn' = Cat(ttyIn, tail)
    BY <1>0, <2>1, AppendIsConcat DEF Cat
  <2>3. line \in Seq(Bytes)
    BY <1>0, Associative
  <2> HIDE DEF tail
  <2>4. InSent = Cat(line, ttyIn) /\ InSent' = Cat(line, Cat(ttyIn, tail))
    BY <2>1, <2>2 DEF InSent, Cat
  <2> HIDE DEF line
  <2>5. InSent' = Cat(InSent, tail)
    BY <1>0, <2>2, <2>3, <2>4, Associative
  <2>6. InSent' = InSent \o tail
    BY <2>5 DEF Cat
  <2> QED BY <1>0, <2>1, <2>2, <2>6, InPut
<1> QED
  BY <1>1, <1>2, <1>3, <1>4, <1>5
  DEF Next, Loop, Poll, OnReadyToWrite, SkipRead, EndApp, Write, Throw,
      Transmit, vars, inVars

-----------------------------------------------------------------------------
\* What write() was given leaves the host once and in order: write(),
\* onReadyToWrite() and the tty together implement a ByteStream.
THEOREM WritesAreInOrder == Spec => WritesInOrder
<1>1. Init => Out!Init
  <2> SUFFICES ASSUME Init PROVE Out!Init
    OBVIOUS
  <2>1. <<>> \o <<>> = <<>> /\ (<<>> \o <<>>) \o <<>> = <<>>
    BY ConcatEmptySeq, EmptySeq
  <2> QED BY <2>1 DEF Init, Out!Init
<1>2. TypeOK /\ [Next]_vars
        => [Out!Next]_<<transmitted \o ttyOut \o writeBuffer, transmitted>>
  BY OutStep DEF OutSent
<1> QED BY <1>1, <1>2, TypeCorrect, PTL DEF Spec, WritesInOrder, Out!Spec

\* What arrives is returned by read() once and in order: read() and the tty
\* together implement a ByteStream.
THEOREM ReadsAreInOrder == Spec => ReadsInOrder
<1>1. Init => In!Init
  <2> SUFFICES ASSUME Init PROVE In!Init
    OBVIOUS
  <2>1. <<>> \o <<>> = <<>> /\ (<<>> \o <<>>) \o <<>> = <<>>
    BY ConcatEmptySeq, EmptySeq
  <2> QED BY <2>1 DEF Init, In!Init
<1>2. TypeOK /\ [Next]_vars
        => [In!Next]_<<serRcv \o ret \o ttyIn, serRcv>>
  BY InStep DEF InSent
<1> QED BY <1>1, <1>2, TypeCorrect, PTL DEF Spec, ReadsInOrder, In!Spec

-----------------------------------------------------------------------------
\* What cubedriver has written and the tty has not sent are bytes the board
\* knows.
WrittenOK == writeBuffer \in Seq(Byte) /\ ttyOut \in Seq(Byte)

\* Every step of the line is one of cubedriver or of its tty, or leaves both
\* alone.
LEMMA StepOfSerial == [LineNext]_lineVars => [Next]_vars
<1> SUFFICES ASSUME LineNext \/ UNCHANGED lineVars
             PROVE  Next \/ UNCHANGED vars
  BY DEF lineVars
<1>1. CASE App
  BY <1>1 DEF App, Next
<1>2. CASE ToBoard
  BY <1>2 DEF ToBoard, Next
<1>3. CASE ToHost
  BY <1>3 DEF ToHost, Next
<1>4. CASE Board \/ Reset
  BY <1>4 DEF Board, Reset
<1>5. CASE UNCHANGED lineVars
  BY <1>5 DEF lineVars
<1> QED BY <1>1, <1>2, <1>3, <1>4, <1>5 DEF LineNext

\* The line implements the serial line whose other end sends anything.
THEOREM LineIsSerial == LineSpec => Spec
BY StepOfSerial, PTL DEF LineSpec, LineInit, Spec

\* What write() was given leaves cubedriver once and in order, and what the
\* board has said is returned by read() once and in order.
THEOREM StreamsAreInOrder == LineSpec => StreamsInOrder
BY LineIsSerial, WritesAreInOrder, ReadsAreInOrder DEF StreamsInOrder

-----------------------------------------------------------------------------
\* write(), onReadyToWrite() and the tty only move what the strings held.
LEMMA WrittenStep ==
  TypeOK /\ WrittenOK /\ [LineNext]_lineVars => WrittenOK'
<1> SUFFICES ASSUME TypeOK, WrittenOK, LineNext \/ UNCHANGED lineVars
             PROVE  WrittenOK'
  BY DEF lineVars
<1> USE DEF WrittenOK
<1>1. ASSUME NEW s \in Strings, Write(s)
      PROVE  WrittenOK'
  <2>1. PICK n \in IF writeBuffer = <<>> THEN Written(s) ELSE {0} :
          /\ ttyOut' = ttyOut \o First(s, n)
          /\ writeBuffer' = writeBuffer \o After(s, n)
    BY <1>1 DEF Write
  <2>2. s \in Seq(Byte)
    BY LineAssumption
  <2>3. n \in 0 .. Len(s)
    <3>1. Len(s) \in Nat
      BY <2>2, LenProperties
    <3> QED BY <2>1, <3>1 DEF Written
  <2>4. First(s, n) \in Seq(Byte) /\ After(s, n) \in Seq(Byte)
    BY <2>2, <2>3, FirstAfter
  <2> QED BY <2>1, <2>4, ConcatProperties
<1>2. CASE OnReadyToWrite
  <2>1. CASE pollout /\ writeBuffer # <<>>
    <3>1. PICK n \in Written(writeBuffer) :
            /\ ttyOut' = ttyOut \o First(writeBuffer, n)
            /\ writeBuffer' = After(writeBuffer, n)
      BY <1>2, <2>1 DEF OnReadyToWrite
    <3>2. n \in 0 .. Len(writeBuffer)
      BY <3>1 DEF Written
    <3>3. First(writeBuffer, n) \in Seq(Byte) /\ After(writeBuffer, n) \in Seq(Byte)
      BY <3>2, FirstAfter
    <3> QED BY <3>1, <3>3, ConcatProperties
  <2> QED BY <1>2, <2>1 DEF OnReadyToWrite
<1>3. CASE ToBoard
  BY <1>3, HeadTailProperties DEF ToBoard, Transmit
<1>4. CASE ToHost
  BY <1>4 DEF ToHost, Incoming, outVars
<1>5. CASE Board \/ Reset
  BY <1>5 DEF Board, Reset, vars, outVars
<1>6. CASE UNCHANGED lineVars
  BY <1>6 DEF lineVars, vars, outVars
<1>7. CASE Throw \/ Poll \/ SkipRead \/ BeginRead \/ ReadSome \/ EndRead \/ EndApp
  BY <1>7 DEF Throw, Poll, SkipRead, BeginRead, ReadSome, EndRead, EndApp, outVars
<1> QED
  BY <1>1, <1>2, <1>3, <1>4, <1>5, <1>6, <1>7 DEF LineNext, App, Loop

\* Every step of the line is one of the board or of a terminal, or leaves the
\* board alone.
LEMMA StepOfBoard ==
  WrittenOK /\ [LineNext]_lineVars => [TerminalNext]_boardVars
<1> SUFFICES ASSUME WrittenOK, LineNext \/ UNCHANGED lineVars
             PROVE  TerminalNext \/ UNCHANGED boardVars
  BY DEF lineVars
<1>1. CASE App
  BY <1>1 DEF App
<1>2. CASE ToBoard
  <2>1. ttyOut # <<>> /\ Head(ttyOut) \in Byte
    BY <1>2, HeadTailProperties DEF ToBoard, Transmit, WrittenOK
  <2> QED BY <1>2, <2>1 DEF ToBoard, Type, TerminalNext
<1>3. CASE ToHost
  BY <1>3 DEF ToHost, ReadAnswer, TerminalNext
<1>4. CASE Board \/ Reset
  BY <1>4 DEF Board, Reset, TerminalNext
<1>5. CASE UNCHANGED lineVars
  BY <1>5 DEF lineVars
<1> QED BY <1>1, <1>2, <1>3, <1>4, <1>5 DEF LineNext

\* The line implements a board with a terminal.
THEOREM LineIsTerminal == LineSpec => TerminalSpec
<1>1. LineInit => BoardInit /\ WrittenOK
  BY EmptySeq DEF LineInit, Init, WrittenOK
<1> QED
  BY <1>1, LineIsSerial, TypeCorrect, WrittenStep, StepOfBoard, PTL
  DEF LineSpec, TerminalSpec

\* Behind the line, too, the motors are off when the board says so.
THEOREM LineOffMeansOff == LineSpec => []OffMeansOff
BY LineIsTerminal, OffMeansOffCorrect

\* And every byte is echoed once, in order.
THEOREM LineEchoesInOrder == LineSpec => EchoesInOrder
BY LineIsTerminal, EchoesInOrderCorrect

-----------------------------------------------------------------------------
\* Induction.

\* Induction over the natural numbers, with a set for the predicate: a number
\* outside it would have a least one with it.
LEMMA NatInd ==
  ASSUME NEW S, 0 \in S, \A n \in Nat : n \in S => n + 1 \in S
  PROVE  Nat \subseteq S
<1> SUFFICES ASSUME Nat \ S # {} PROVE FALSE
  OBVIOUS
<1>1. PICK x \in Nat \ S : \A y \in Nat \ S : <<y, x>> \notin OpToRel(<, Nat)
  BY WFMin, NatLessThanWellFounded
<1>2. x # 0 /\ x - 1 \in Nat /\ x - 1 < x /\ (x - 1) + 1 = x
  OBVIOUS
<1>3. <<x - 1, x>> \in OpToRel(<, Nat)
  BY <1>2 DEF OpToRel
<1>4. x - 1 \in Nat \ S
  BY <1>2
<1> QED BY <1>1, <1>3, <1>4

\* What a function defined by recursion computes: it exists, its values are
\* those the steps give, and they stay in a set the steps stay in.
IsRecursion(f, base, n, step) ==
  f[0] = base /\ \A k \in 0 .. n - 1 : f[k + 1] = step[k][f[k]]

LEMMA BoundedRecursion ==
  ASSUME NEW T, NEW base \in T, NEW n \in Nat, NEW step \in [0 .. n - 1 -> [T -> T]]
  PROVE  \E f \in [0 .. n -> T] : IsRecursion(f, base, n, step)
<1> DEFINE Good(m) == {f \in [0 .. m -> T] :
                         f[0] = base /\ \A k \in 0 .. m - 1 : f[k + 1] = step[k][f[k]]}
           S == {m \in Nat : m <= n => Good(m) # {}}
<1>1. 0 \in S
  <2>1. [k \in 0 .. 0 |-> base] \in Good(0)
    OBVIOUS
  <2> QED BY <2>1
<1>2. \A m \in Nat : m \in S => m + 1 \in S
  <2> SUFFICES ASSUME NEW m \in Nat, m + 1 <= n, m \in S PROVE Good(m + 1) # {}
    <3> HIDE DEF Good
    <3> QED OBVIOUS
  <2>0. PICK g : g \in Good(m)
    <3> HIDE DEF Good
    <3> QED OBVIOUS
  <2> DEFINE h == [k \in 0 .. m + 1 |-> IF k = m + 1 THEN step[m][g[m]] ELSE g[k]]
  <2>1. h \in [0 .. m + 1 -> T]
    <3>1. g[m] \in T /\ step[m] \in [T -> T]
      BY <2>0
    <3> QED BY <2>0, <3>1
  <2>2. h[0] = base
    BY <2>0
  <2>3. ASSUME NEW k \in 0 .. m PROVE h[k + 1] = step[k][h[k]]
    <3>1. CASE k = m
      <4>1. h[m + 1] = step[m][g[m]] /\ h[m] = g[m]
        OBVIOUS
      <4> QED BY <3>1, <4>1
    <3>2. CASE k # m
      <4>1. k \in 0 .. m - 1 /\ k + 1 \in 0 .. m /\ k + 1 # m + 1 /\ k # m + 1
        BY <3>2
      <4>2. g[k + 1] = step[k][g[k]]
        BY <2>0, <4>1
      <4> QED BY <4>1, <4>2
    <3> QED BY <3>1, <3>2
  <2>4. (m + 1) - 1 = m
    OBVIOUS
  <2> HIDE DEF h
  <2>5. h \in Good(m + 1)
    BY <2>1, <2>2, <2>3, <2>4
  <2> QED BY <2>5
<1>3. Nat \subseteq S
  <2> HIDE DEF S
  <2> QED BY <1>1, <1>2, NatInd
<1>4. n \in Nat /\ n \in S
  BY <1>3
<1>5. Good(n) # {}
  <2> HIDE DEF Good
  <2> QED BY <1>4
<1> QED BY <1>5 DEF IsRecursion

-----------------------------------------------------------------------------
\* The reference of turns: a sequence of them is Canonical if nothing in it
\* could be added up or left out.

TurnSet == (0 .. 2) \X (0 .. 3) \X (0 .. 3)
IsZero(t) == t[2] = 0 /\ t[3] = 0
Canonical ==
  {s \in Seq(TurnSet) :
     /\ \A k \in 1 .. Len(s) : ~IsZero(s[k])
     /\ \A k \in 1 .. Len(s) - 1 : s[k][1] # s[k + 1][1]}
Plus(x, y) == <<x[1], (x[2] + y[2]) % 4, (x[3] + y[3]) % 4>>
\* Its last turn is about another axis.
Open(s, axis) == s # <<>> => s[Len(s)][1] # axis
\* Such a sequence, and after it one turn, if it is one.
Put(s, t) == IF IsZero(t) THEN s ELSE Append(s, t)

LEMMA PlusType ==
  ASSUME NEW x \in TurnSet, NEW y \in TurnSet
  PROVE  Plus(x, y) \in TurnSet
BY DEF TurnSet, Plus

LEMMA PlusAssociative ==
  ASSUME NEW x \in TurnSet, NEW y \in TurnSet, NEW z \in TurnSet
  PROVE  Plus(Plus(x, y), z) = Plus(x, Plus(y, z))
BY DEF TurnSet, Plus

LEMMA PutCanonical ==
  ASSUME NEW s \in Canonical, NEW t \in TurnSet, Open(s, t[1])
  PROVE  Put(s, t) \in Canonical
<1>1. CASE IsZero(t)
  BY <1>1 DEF Put
<1>2. CASE ~IsZero(t)
  <2> DEFINE r == Append(s, t)
  <2>1. s \in Seq(TurnSet) /\ r \in Seq(TurnSet) /\ Len(r) = Len(s) + 1 /\ r[Len(r)] = t
        /\ \A k \in 1 .. Len(s) : r[k] = s[k]
    BY DEF Canonical
  <2>2. \A k \in 1 .. Len(r) : ~IsZero(r[k])
    BY <2>1, <1>2 DEF Canonical
  <2>3. ASSUME NEW k \in 1 .. Len(r) - 1 PROVE r[k][1] # r[k + 1][1]
    <3>1. CASE k = Len(s)
      <4>1. s # <<>> /\ r[k] = s[Len(s)] /\ r[k + 1] = t
        BY <2>1, <3>1
      <4> QED BY <4>1 DEF Open
    <3>2. CASE k # Len(s)
      <4>1. k \in 1 .. Len(s) - 1 /\ r[k] = s[k] /\ r[k + 1] = s[k + 1]
        BY <2>1, <3>2
      <4> QED BY <4>1 DEF Canonical
    <3> QED BY <3>1, <3>2
  <2>4. r \in Canonical
    <3> HIDE DEF r
    <3> QED BY <2>1, <2>2, <2>3 DEF Canonical
  <2> QED BY <1>2, <2>4 DEF Put
<1> QED BY <1>1, <1>2

\* A turn after such a sequence is added to what it has of its axis.
LEMMA ReducePut ==
  ASSUME NEW s \in Canonical, NEW l \in TurnSet, NEW t \in TurnSet,
         l[1] = t[1], Open(s, t[1])
  PROVE  Reduce(Put(s, l), t) = Put(s, Plus(l, t))
<1>0. s \in Seq(TurnSet)
  BY DEF Canonical
<1>1. CASE IsZero(t)
  <2>1. Plus(l, t) = l
    BY <1>1 DEF IsZero, TurnSet, Plus
  <2> QED BY <1>1, <2>1 DEF Reduce, IsZero
<1>2. CASE ~IsZero(t) /\ IsZero(l)
  <2>1. Plus(l, t) = t
    BY <1>2 DEF IsZero, TurnSet, Plus
  <2>2. Put(s, l) = s /\ Put(s, t) = Append(s, t)
    BY <1>2 DEF Put
  <2>3. Reduce(s, t) = Append(s, t)
    BY <1>2 DEF Reduce, IsZero, Open, Last
  <2> QED BY <2>1, <2>2, <2>3
<1>3. CASE ~IsZero(t) /\ ~IsZero(l)
  <2> DEFINE r == Append(s, l)
             p == Plus(l, t)
  <2>1. r # <<>> /\ Last(r) = l /\ Front(r) = s
    <3>1. r \in Seq(TurnSet) /\ Len(r) = Len(s) + 1 /\ r[Len(s) + 1] = l /\ r # <<>>
      BY <1>0
    <3>2. SubSeq(r, 1, Len(s)) = s
      BY <1>0, AppendProperties
    <3> QED BY <3>1, <3>2, <1>0 DEF Last, Front
  <2>2. Put(s, l) = r
    BY <1>3 DEF Put
  <2>3. Reduce(r, t) = IF p[2] = 0 /\ p[3] = 0 THEN s ELSE Append(s, p)
    <3> HIDE DEF r
    <3> QED BY <2>1, <1>3 DEF Reduce, IsZero, Plus
  <2> QED BY <2>2, <2>3 DEF Put, IsZero
<1> QED BY <1>1, <1>2, <1>3

\* Every such sequence is one that can be put a turn after.
LEMMA Opened ==
  ASSUME NEW s \in Canonical, NEW axis \in 0 .. 2
  PROVE  \E r \in Canonical, l \in TurnSet : l[1] = axis /\ Open(r, axis) /\ s = Put(r, l)
<1>0. s \in Seq(TurnSet)
  BY DEF Canonical
<1>1. CASE Open(s, axis)
  <2>1. <<axis, 0, 0>> \in TurnSet /\ s = Put(s, <<axis, 0, 0>>)
    BY DEF TurnSet, Put, IsZero
  <2> QED BY <1>1, <2>1
<1>2. CASE ~Open(s, axis)
  <2> DEFINE r == SubSeq(s, 1, Len(s) - 1)
             l == s[Len(s)]
  <2>1. s # <<>> /\ l[1] = axis /\ Len(s) \in 1 .. Len(s)
    BY <1>2, <1>0 DEF Open
  <2>2. r \in Seq(TurnSet) /\ Len(r) = Len(s) - 1 /\ \A k \in 1 .. Len(r) : r[k] = s[k]
    <3>1. Len(s) - 1 \in Nat /\ \A k \in 1 .. Len(s) - 1 : s[k] \in TurnSet
      BY <1>0, <2>1
    <3> DEFINE n == Len(s) - 1
    <3> HIDE DEF n
    <3>2. n \in Nat /\ 1 \in Int /\ \A k \in 1 .. n : s[k] \in TurnSet
      BY <3>1 DEF n
    <3>3. LET t == SubSeq(s, 1, n)
          IN /\ t \in Seq(TurnSet) /\ Len(t) = IF 1 <= n THEN n - 1 + 1 ELSE 0
             /\ \A k \in 1 .. n - 1 + 1 : t[k] = s[1 + k - 1]
      BY <3>2, SubSeqProperties
    <3>4. Len(SubSeq(s, 1, n)) = n /\ \A k \in 1 .. n : SubSeq(s, 1, n)[k] = s[k]
      BY <3>2, <3>3
    <3> QED BY <3>3, <3>4 DEF n
  <2>3. l \in TurnSet /\ ~IsZero(l)
    BY <2>1, <1>0 DEF Canonical
  <2>4. s = Append(r, l)
    <3>1. 1 \in 1 .. Len(s)
      BY <2>1, <1>0
    <3>2. SubSeq(s, 1, Len(s)) = r \o <<l>>
      BY <1>0, <2>1, <3>1, SubSeqRecursiveSecond
    <3>3. Append(r, l) = r \o <<l>>
      BY <2>2, <2>1, <1>0, AppendIsConcat DEF Canonical
    <3> QED BY <3>2, <3>3, <1>0, SubSeqFull
  <2>5. r \in Canonical
    <3> HIDE DEF r
    <3> QED BY <2>2 DEF Canonical
  <2>6. Open(r, axis)
    <3> HIDE DEF r
    <3>1. SUFFICES ASSUME r # <<>> PROVE r[Len(r)][1] # axis
      BY DEF Open
    <3>2. Len(r) \in 1 .. Len(s) - 1 /\ r[Len(r)] = s[Len(r)] /\ Len(r) + 1 = Len(s)
      BY <2>2, <3>1, <1>0
    <3> QED BY <3>2, <2>1 DEF Canonical
  <2> QED
    <3> HIDE DEF r, l
    <3>1. s = Put(r, l)
      BY <2>3, <2>4 DEF Put
    <3> QED BY <2>1, <2>3, <2>5, <2>6, <3>1
<1> QED BY <1>1, <1>2

LEMMA ReduceCanonical ==
  ASSUME NEW s \in Canonical, NEW t \in TurnSet
  PROVE  Reduce(s, t) \in Canonical
<1>1. t[1] \in 0 .. 2
  BY DEF TurnSet
<1>2. PICK r \in Canonical, l \in TurnSet : l[1] = t[1] /\ Open(r, t[1]) /\ s = Put(r, l)
  BY <1>1, Opened
<1>3. Reduce(s, t) = Put(r, Plus(l, t))
  BY <1>2, ReducePut
<1>4. Plus(l, t) \in TurnSet /\ Plus(l, t)[1] = t[1]
  BY <1>2, PlusType DEF Plus
<1> QED BY <1>2, <1>3, <1>4, PutCanonical

\* Two turns about one axis are one.
LEMMA ReduceTwice ==
  ASSUME NEW s \in Canonical, NEW x \in TurnSet, NEW y \in TurnSet, x[1] = y[1]
  PROVE  Reduce(Reduce(s, x), y) = Reduce(s, Plus(x, y))
<1>1. x[1] \in 0 .. 2
  BY DEF TurnSet
<1>2. PICK r \in Canonical, l \in TurnSet : l[1] = x[1] /\ Open(r, x[1]) /\ s = Put(r, l)
  BY <1>1, Opened
<1>3. /\ Plus(l, x) \in TurnSet /\ Plus(l, x)[1] = x[1]
      /\ Plus(x, y) \in TurnSet /\ Plus(x, y)[1] = x[1]
  BY <1>2, PlusType DEF Plus
<1>4. Reduce(s, x) = Put(r, Plus(l, x)) /\ Reduce(s, Plus(x, y)) = Put(r, Plus(l, Plus(x, y)))
  BY <1>2, <1>3, ReducePut
<1>5. Reduce(Put(r, Plus(l, x)), y) = Put(r, Plus(Plus(l, x), y))
  BY <1>2, <1>3, ReducePut
<1> QED BY <1>4, <1>5, PlusAssociative

\* A turn that is none changes nothing, whatever its axis is said to be.
LEMMA ReduceZero ==
  ASSUME NEW s, NEW t, IsZero(t)
  PROVE  Reduce(s, t) = s
BY DEF Reduce, IsZero

\* What Reduced computes, step by step.
LEMMA ReducedSteps ==
  ASSUME NEW s \in Seq(TurnSet)
  PROVE  \E f \in [0 .. Len(s) -> Canonical] :
           /\ f[0] = <<>> /\ Reduced(s) = f[Len(s)]
           /\ \A k \in 0 .. Len(s) - 1 : f[k + 1] = Reduce(f[k], s[k + 1])
<1> DEFINE n == Len(s)
           first == CHOOSE f : f = [k \in 0 .. n |-> IF k = 0 THEN <<>> ELSE Reduce(f[k - 1], s[k])]
           step == [k \in 0 .. n - 1 |-> [r \in Canonical |-> Reduce(r, s[k + 1])]]
<1>0. n \in Nat
  OBVIOUS
<1>1. step \in [0 .. n - 1 -> [Canonical -> Canonical]]
  <2>1. ASSUME NEW k \in 0 .. n - 1, NEW r \in Canonical PROVE Reduce(r, s[k + 1]) \in Canonical
    <3>1. s[k + 1] \in TurnSet
      BY <1>0
    <3> QED BY <3>1, ReduceCanonical
  <2> QED BY <2>1
<1>2. <<>> \in Canonical
  BY DEF Canonical
<1>3. PICK f \in [0 .. n -> Canonical] :
        f[0] = <<>> /\ \A k \in 0 .. n - 1 : f[k + 1] = step[k][f[k]]
  <2> HIDE DEF step, n
  <2>1. \E f \in [0 .. n -> Canonical] : IsRecursion(f, <<>>, n, step)
    BY <1>0, <1>1, <1>2, BoundedRecursion
  <2> QED BY <2>1 DEF IsRecursion
<1>4. ASSUME NEW k \in 0 .. n - 1 PROVE f[k + 1] = Reduce(f[k], s[k + 1])
  <2>1. f[k] \in Canonical
    BY <1>0
  <2> QED BY <2>1, <1>3
<1>5. f = [k \in 0 .. n |-> IF k = 0 THEN <<>> ELSE Reduce(f[k - 1], s[k])]
  <2>1. ASSUME NEW k \in 0 .. n PROVE f[k] = IF k = 0 THEN <<>> ELSE Reduce(f[k - 1], s[k])
    <3>1. CASE k = 0
      BY <3>1, <1>3
    <3>2. CASE k # 0
      <4>1. k - 1 \in 0 .. n - 1 /\ (k - 1) + 1 = k
        BY <3>2, <1>0
      <4>2. f[(k - 1) + 1] = Reduce(f[k - 1], s[(k - 1) + 1])
        BY <4>1, <1>4
      <4> QED BY <3>2, <4>1, <4>2
    <3> QED BY <3>1, <3>2
  <2> HIDE DEF n
  <2> QED BY <2>1
<1>6. first = [k \in 0 .. n |-> IF k = 0 THEN <<>> ELSE Reduce(first[k - 1], s[k])]
  <2> HIDE DEF n
  <2> QED BY <1>5
<1>7. first \in [0 .. n -> Canonical] /\ \A k \in 0 .. n : first[k] = f[k]
  <2> DEFINE E == {k \in Nat : k <= n => first[k] = f[k]}
  <2> HIDE DEF first
  <2>1. 0 \in E
    BY <1>0, <1>3, <1>6
  <2>2. \A k \in Nat : k \in E => k + 1 \in E
    <3> SUFFICES ASSUME NEW k \in Nat, k + 1 <= n, first[k] = f[k] PROVE first[k + 1] = f[k + 1]
      OBVIOUS
    <3>1. k \in 0 .. n - 1 /\ k + 1 \in 0 .. n /\ k + 1 # 0 /\ (k + 1) - 1 = k
      BY <1>0
    <3>2. first[k + 1] = Reduce(first[k], s[k + 1])
      BY <3>1, <1>6
    <3> QED BY <3>1, <3>2, <1>4
  <2>3. Nat \subseteq E
    <3> HIDE DEF E
    <3> QED BY <2>1, <2>2, NatInd
  <2>4. \A k \in 0 .. n : first[k] = f[k]
    BY <2>3, <1>0
  <2> QED BY <2>4, <1>6
<1>8. Reduced(s) = first[n]
  BY DEF Reduced
<1>9. n \in 0 .. n
  BY <1>0
<1>10. Reduced(s) = f[n]
  <2> HIDE DEF first, n
  <2> QED BY <1>7, <1>8, <1>9
<1> QED BY <1>3, <1>4, <1>10

LEMMA ReducedCanonical ==
  ASSUME NEW s \in Seq(TurnSet)
  PROVE  Reduced(s) \in Canonical
<1>1. Len(s) \in 0 .. Len(s)
  OBVIOUS
<1> QED BY <1>1, ReducedSteps

LEMMA ReducedEmpty == Reduced(<<>>) = <<>>
<1>1. <<>> \in Seq(TurnSet) /\ Len(<<>>) = 0
  OBVIOUS
<1> QED BY <1>1, ReducedSteps

LEMMA ReducedAppend ==
  ASSUME NEW s \in Seq(TurnSet), NEW t \in TurnSet
  PROVE  Reduced(Append(s, t)) = Reduce(Reduced(s), t)
<1> DEFINE r == Append(s, t)
           n == Len(s)
<1>1. r \in Seq(TurnSet) /\ Len(r) = n + 1 /\ r[n + 1] = t /\ n \in Nat
      /\ \A k \in 1 .. n : r[k] = s[k]
  OBVIOUS
<1> HIDE DEF r
<1>2. PICK f \in [0 .. n -> Canonical] :
        /\ f[0] = <<>> /\ Reduced(s) = f[n]
        /\ \A k \in 0 .. n - 1 : f[k + 1] = Reduce(f[k], s[k + 1])
  BY ReducedSteps
<1> HIDE DEF n
<1>3. PICK g \in [0 .. n + 1 -> Canonical] :
        /\ g[0] = <<>> /\ Reduced(r) = g[n + 1]
        /\ \A k \in 0 .. (n + 1) - 1 : g[k + 1] = Reduce(g[k], r[k + 1])
  <2>1. \E g \in [0 .. Len(r) -> Canonical] :
          /\ g[0] = <<>> /\ Reduced(r) = g[Len(r)]
          /\ \A k \in 0 .. Len(r) - 1 : g[k + 1] = Reduce(g[k], r[k + 1])
    BY <1>1, ReducedSteps
  <2>2. Len(r) = n + 1
    BY <1>1
  <2> QED BY Zenon, <2>1, <2>2
<1> DEFINE E == {k \in Nat : k <= n => f[k] = g[k]}
<1>4. 0 \in E
  BY <1>2, <1>3
<1>5. \A k \in Nat : k \in E => k + 1 \in E
  <2> SUFFICES ASSUME NEW k \in Nat, k + 1 <= n, f[k] = g[k] PROVE f[k + 1] = g[k + 1]
    BY <1>1
  <2>1. k \in 0 .. n - 1 /\ k \in 0 .. (n + 1) - 1 /\ k + 1 \in 1 .. n
    BY <1>1
  <2> QED BY <2>1, <1>1, <1>2, <1>3
<1>6. Nat \subseteq E
  <2> HIDE DEF E
  <2> QED BY <1>4, <1>5, NatInd
<1>7. f[n] = g[n]
  BY <1>6, <1>1
<1>8. g[n + 1] = Reduce(g[n], t)
  BY <1>1, <1>3
<1> QED BY <1>2, <1>3, <1>7, <1>8 DEF r

-----------------------------------------------------------------------------
\* The table.

LEMMA QuartersOfTurns ==
  ASSUME NEW k \in 1 .. 15
  PROVE  /\ ((Turns[k][1] \div 90) * Turns[k][2]) % 4 = Times[k][1]
         /\ ((Turns[k][3] \div 90) * Turns[k][4]) % 4 = Times[k][2]
<1>1. k \in {1, 2, 3, 4, 5, 6, 7, 8, 9, 10, 11, 12, 13, 14, 15}
  OBVIOUS
<1> QED BY <1>1, SMTT(30) DEF Turns, Times, CW, CCW

LEMMA LettersDiffer ==
  ASSUME NEW p \in 1 .. 3, NEW k \in 1 .. 15, NEW q \in 1 .. 3, NEW j \in 1 .. 15,
         Letter[p][k] = Letter[q][j]
  PROVE  p = q /\ k = j
<1>1. \A n \in 1 .. 15 : n \in {1, 2, 3, 4, 5, 6, 7, 8, 9, 10, 11, 12, 13, 14, 15}
  OBVIOUS
<1>2. \A n \in 1 .. 3 : n \in {1, 2, 3}
  OBVIOUS
<1> QED BY <1>1, <1>2, SMTT(60) DEF Letter

LEMMA HalfTurnsOfTable ==
  ASSUME NEW p \in 1 .. 3, NEW k \in 1 .. 15
  PROVE  Letter[p][k] \in HalfTurnMoves <=> 2 \in {Times[k][1], Times[k][2]}
<1>1. k \in {1, 2, 3, 4, 5, 6, 7, 8, 9, 10, 11, 12, 13, 14, 15}
  OBVIOUS
<1>2. p \in {1, 2, 3}
  OBVIOUS
<1> QED BY <1>1, <1>2, SMTT(60) DEF Letter, HalfTurnMoves, Times

LEMMA TimesComplete ==
  ASSUME NEW a \in 0 .. 3, NEW b \in 0 .. 3, a # 0 \/ b # 0
  PROVE  \E k \in 1 .. 15 : Times[k][1] = a /\ Times[k][2] = b
<1>1. a \in {0, 1, 2, 3} /\ b \in {0, 1, 2, 3}
  OBVIOUS
<1> QED BY <1>1, SMTT(60) DEF Times

CmdTurn(c) == AxisTurn(Motors[CmdPart(c)][1] % 3, Turned(c)[1], Turned(c)[2])

LEMMA CmdOfLetter ==
  ASSUME NEW p \in 1 .. 3, NEW k \in 1 .. 15
  PROVE  /\ CmdPart(Letter[p][k]) = p /\ CmdIndex(Letter[p][k]) = k
         /\ CmdTurn(Letter[p][k]) = <<Part[p][1] % 3, Times[k][1], Times[k][2]>>
         /\ Part[p][1] % 3 \in 0 .. 2 /\ Part[p][1] % 3 = Part[p][2] % 3
         /\ Part[p][1] \in {U_, L_, F_} /\ Part[p][2] \in {R_, D_, B_}
         /\ Times[k][1] \in 0 .. 3 /\ Times[k][2] \in 0 .. 3
<1>1. CmdPart(Letter[p][k]) = p
  BY LettersDiffer DEF CmdPart
<1>2. CmdIndex(Letter[p][k]) = k
  BY LettersDiffer DEF CmdIndex
<1>3. Turned(Letter[p][k]) = <<Times[k][1], Times[k][2]>>
  BY <1>2, QuartersOfTurns DEF Turned
<1>4. p \in {1, 2, 3}
  OBVIOUS
<1>5. Motors[p][1] = Part[p][1]
  BY <1>4 DEF Motors, Part
<1>6. /\ Part[p][1] % 3 \in 0 .. 2 /\ Part[p][1] % 3 = Part[p][2] % 3
      /\ Part[p][1] \in {U_, L_, F_} /\ Part[p][2] \in {R_, D_, B_}
  BY <1>4 DEF Part, U_, R_, F_, D_, L_, B_
<1>7. Times[k][1] \in 0 .. 3 /\ Times[k][2] \in 0 .. 3
  <2>1. k \in {1, 2, 3, 4, 5, 6, 7, 8, 9, 10, 11, 12, 13, 14, 15}
    OBVIOUS
  <2> QED BY <2>1 DEF Times
<1> QED BY <1>1, <1>2, <1>3, <1>5, <1>6, <1>7 DEF CmdTurn, AxisTurn

LEMMA PartsComplete ==
  ASSUME NEW a \in 0 .. 2
  PROVE  /\ \A f \in {U_, L_, F_} : f % 3 = a => \E p \in 1 .. 3 : Part[p][1] = f
         /\ \A f \in {R_, D_, B_} : f % 3 = a => \E p \in 1 .. 3 : Part[p][2] = f
         /\ \E p \in 1 .. 3 : Part[p][1] % 3 = a
         /\ \A p \in 1 .. 3, q \in 1 .. 3 : Part[p][1] % 3 = Part[q][1] % 3 => p = q
<1>1. a \in {0, 1, 2} /\ \A p \in 1 .. 3 : p \in {1, 2, 3}
  OBVIOUS
<1> QED BY <1>1, SMTT(30) DEF Part, U_, R_, F_, D_, L_, B_

LEMMA PartOfAxis ==
  ASSUME NEW a \in 0 .. 2, NEW p \in 1 .. 3, Part[p][1] % 3 = a
  PROVE  /\ \A f \in {U_, L_, F_} : f % 3 = a => Part[p][1] = f
         /\ \A f \in {R_, D_, B_} : f % 3 = a => Part[p][2] = f
<1>1. p \in {1, 2, 3}
  OBVIOUS
<1>2. CASE p = 1
  BY <1>2 DEF Part, U_, R_, F_, D_, L_, B_
<1>3. CASE p = 2
  BY <1>3 DEF Part, U_, R_, F_, D_, L_, B_
<1>4. CASE p = 3
  BY <1>4 DEF Part, U_, R_, F_, D_, L_, B_
<1> QED BY <1>1, <1>2, <1>3, <1>4

\* A move that can be waiting, of the faces of one axis.
WellFormed(m) ==
  /\ m \in Move
  /\ m.times1 = 0 <=> m.face1 = None
  /\ m.times2 = 0 <=> m.face2 = None
OfAxis(m, axis) ==
  /\ m.times1 # 0 => m.face1 % 3 = axis
  /\ m.times2 # 0 => m.face2 % 3 = axis

\* The table has a command for it, and what is found turns these faces so.
LEMMA Found ==
  ASSUME NEW m, WellFormed(m), NEW axis \in 0 .. 2, OfAxis(m, axis), ~IsEmpty(m)
  PROVE  /\ Lookup(m) # {}
         /\ \A c \in Lookup(m) :
              /\ \E p \in 1 .. 3, k \in 1 .. 15 : c = Letter[p][k]
              /\ CmdTurn(c) = <<axis, m.times1, m.times2>>
<1>1. /\ m.times1 \in 0 .. 3 /\ m.times2 \in 0 .. 3
      /\ m.face1 \in {U_, L_, F_, None} /\ m.face2 \in {R_, D_, B_, None}
  BY DEF WellFormed, Move
<1>2. Lookup(m) # {}
  <2>1. PICK k \in 1 .. 15 : Times[k][1] = m.times1 /\ Times[k][2] = m.times2
    <3>1. m.times1 # 0 \/ m.times2 # 0
      BY DEF IsEmpty
    <3>2. m.times1 \in 0 .. 3 /\ m.times2 \in 0 .. 3
      BY <1>1
    <3>3. PICK a \in 0 .. 3, b \in 0 .. 3 : a = m.times1 /\ b = m.times2
      BY <3>2
    <3>4. a # 0 \/ b # 0
      BY <3>1, <3>3
    <3>5. \E k \in 1 .. 15 : Times[k][1] = a /\ Times[k][2] = b
      BY <3>4, TimesComplete
    <3> QED BY <3>3, <3>5
  <2>2. PICK p \in 1 .. 3 : Part[p][1] % 3 = axis
    BY PartsComplete
  <2>3. m.times1 # 0 => Part[p][1] = m.face1
    <3>1. SUFFICES ASSUME m.times1 # 0 PROVE Part[p][1] = m.face1
      OBVIOUS
    <3>2. m.face1 \in {U_, L_, F_} /\ m.face1 % 3 = axis
      BY <3>1, <1>1 DEF OfAxis, WellFormed
    <3> QED BY Zenon, <3>2, <2>2, PartOfAxis
  <2>4. m.times2 # 0 => Part[p][2] = m.face2
    <3>1. SUFFICES ASSUME m.times2 # 0 PROVE Part[p][2] = m.face2
      OBVIOUS
    <3>2. m.face2 \in {R_, D_, B_} /\ m.face2 % 3 = axis
      BY <3>1, <1>1 DEF OfAxis, WellFormed
    <3> QED BY Zenon, <3>2, <2>2, PartOfAxis
  <2>5. Same(Entry(p, k), m)
    BY <2>1, <2>3, <2>4 DEF Same, Entry
  <2>6. <<Entry(p, k), Letter[p][k]>> \in MoveAndCmd
    BY DEF MoveAndCmd
  <2> QED BY <2>5, <2>6 DEF Lookup
<1>3. ASSUME NEW c \in Lookup(m)
      PROVE  /\ \E p \in 1 .. 3, k \in 1 .. 15 : c = Letter[p][k]
             /\ CmdTurn(c) = <<axis, m.times1, m.times2>>
  <2>1. PICK p \in 1 .. 3, k \in 1 .. 15 : Same(Entry(p, k), m) /\ c = Letter[p][k]
    BY <1>3 DEF Lookup, MoveAndCmd
  <2>2. Times[k][1] = m.times1 /\ Times[k][2] = m.times2
    BY <2>1 DEF Same, Entry
  <2>3. Part[p][1] % 3 = axis
    <3>1. CASE m.times1 # 0
      <4>1. Part[p][1] = m.face1 /\ m.face1 % 3 = axis
        BY <3>1, <2>1, <2>2 DEF Same, Entry, OfAxis
      <4> QED BY <4>1
    <3>2. CASE m.times2 # 0
      <4>1. Part[p][2] = m.face2 /\ m.face2 % 3 = axis
        BY <3>2, <2>1, <2>2 DEF Same, Entry, OfAxis
      <4>2. Part[p][1] % 3 = Part[p][2] % 3
        BY Zenon, CmdOfLetter
      <4> QED BY <4>1, <4>2
    <3> QED BY <3>1, <3>2 DEF IsEmpty
  <2>4. CmdTurn(c) = <<Part[p][1] % 3, Times[k][1], Times[k][2]>>
    BY Zenon, <2>1, CmdOfLetter
  <2> QED BY <2>1, <2>2, <2>3, <2>4
<1> QED BY <1>2, <1>3

-----------------------------------------------------------------------------
\* Parsing.

\* What a text begins with after a turn: a letter that parseMove knows, or x.
Heads == {"U", "R", "F", "D", "L", "B", "u", "r", "f", "d", "l", "b", "x"}
Char == Heads \cup DOMAIN Suffix \cup {Space}
Blanks(n) == [j \in 1 .. n |-> Space]

LEMMA CharsDiffer ==
  /\ Space \notin Heads /\ Space \notin DOMAIN Suffix /\ Space # "2"
  /\ Space \in Char /\ Heads \subseteq Char /\ DOMAIN Suffix \subseteq Char
<1>1. DOMAIN Suffix = {"1", "+", "2", "'", "3", "-"}
  BY Zenon DEF Suffix
<1>2. Space \notin Heads
  BY Zenon DEF Heads, Space
<1>3. Space \notin {"1", "+", "2", "'", "3", "-"}
  BY Zenon DEF Space
<1> QED BY <1>1, <1>2, <1>3, Zenon DEF Char

\* How a turn is written, and what it stands for.
LEMMA TokenCases ==
  ASSUME NEW t \in Token
  PROVE  /\ t[1] \in 0 .. 5
         /\ \/ /\ t[2] \in DOMAIN Suffix /\ TokenTimes(t[2]) = Suffix[t[2]]
               /\ TokenText(t) = <<Upper[t[1] + 1], t[2]>>
            \/ TokenTimes(t[2]) = 1 /\ TokenText(t) = <<Upper[t[1] + 1]>>
            \/ TokenTimes(t[2]) = 3 /\ TokenText(t) = <<Lower[t[1] + 1]>>
            \/ TokenTimes(t[2]) = 0 /\ t[1] = U_ /\ TokenText(t) = <<Lower[t[1] + 1], "2">>
            \/ TokenTimes(t[2]) = 0 /\ t[1] = U_ /\ TokenText(t) = <<"x">>
<1>1. DOMAIN Suffix = {"1", "+", "2", "'", "3", "-"}
  BY Zenon DEF Suffix
<1>2. t[2] \in Notations /\ t[1] \in 0 .. 5
  BY BoundsAssumption DEF Token
<1>3. t[2] \in {"", "1", "+", "2", "'", "3", "-", "low", "low2", "x"}
  BY <1>2, BoundsAssumption, Zenon DEF Documented, Mistakes
<1>4. t[2] \in DOMAIN Suffix => Suffix[t[2]] = TokenTimes(t[2])
  BY <1>1, Zenon DEF Suffix, TokenTimes
<1>5. t[2] \in DOMAIN Suffix => TokenText(t) = <<Upper[t[1] + 1], t[2]>>
  BY <1>1, Zenon DEF TokenText
<1>6. t[2] \notin DOMAIN Suffix => t[2] = "" \/ t[2] = "low" \/ t[2] = "low2" \/ t[2] = "x"
  BY <1>1, <1>3, Zenon
<1>7. t[2] = "" => TokenTimes(t[2]) = 1 /\ TokenText(t) = <<Upper[t[1] + 1]>>
  BY Zenon DEF TokenTimes, TokenText
<1>8. t[2] = "low" => TokenTimes(t[2]) = 3 /\ TokenText(t) = <<Lower[t[1] + 1]>>
  BY Zenon DEF TokenTimes, TokenText
<1>9. t[2] = "low2" => TokenTimes(t[2]) = 0 /\ TokenText(t) = <<Lower[t[1] + 1], "2">>
  BY Zenon DEF TokenTimes, TokenText
<1>10. t[2] = "x" => TokenTimes(t[2]) = 0 /\ TokenText(t) = <<"x">>
  BY Zenon DEF TokenTimes, TokenText
<1>11. t[2] = "low2" \/ t[2] = "x" => t[1] = U_
  BY Zenon DEF Token
<1> QED BY <1>2, <1>4, <1>5, <1>6, <1>7, <1>8, <1>9, <1>10, <1>11, Zenon

LEMMA SuffixRange ==
  ASSUME NEW c \in DOMAIN Suffix
  PROVE  Suffix[c] \in 1 .. 3
<1>1. Suffix[c] = 1 \/ Suffix[c] = 2 \/ Suffix[c] = 3
  BY Zenon DEF Suffix
<1> QED BY <1>1

LEMMA SkipNothing ==
  ASSUME NEW s \in Seq(Char), s # <<>> => s[1] # Space
  PROVE  SkipSpaces(s) = s
<1> DEFINE rest == {k \in DOMAIN s : s[k] # Space}
<1>1. CASE s = <<>>
  BY <1>1 DEF SkipSpaces
<1>2. CASE s # <<>>
  <2>1. 1 \in rest /\ \A k \in rest : 1 <= k
    BY <1>2
  <2>2. (CHOOSE k \in rest : \A j \in rest : k <= j) = 1
    <3>1. \A k \in rest : k \in Int
      OBVIOUS
    <3> HIDE DEF rest
    <3> QED BY <2>1, <3>1
  <2>3. SkipSpaces(s) = SubSeq(s, 1, Len(s))
    BY <2>1, <2>2 DEF SkipSpaces
  <2> QED BY <2>3, SubSeqFull
<1> QED BY <1>1, <1>2

LEMMA ConcatElements ==
  ASSUME NEW a \in Seq(Char), NEW s \in Seq(Char)
  PROVE  /\ a \o s \in Seq(Char) /\ Len(a \o s) = Len(a) + Len(s)
         /\ \A k \in 1 .. Len(a) : (a \o s)[k] = a[k]
         /\ \A k \in Len(a) + 1 .. Len(a) + Len(s) : (a \o s)[k] = s[k - Len(a)]
OBVIOUS

\* The text after the first characters.
LEMMA SubSeqAfter ==
  ASSUME NEW a \in Seq(Char), NEW s \in Seq(Char)
  PROVE  SubSeq(a \o s, Len(a) + 1, Len(a \o s)) = s
<1> DEFINE n == Len(a)
           t == a \o s
           r == SubSeq(t, n + 1, Len(t))
<1>1. /\ t \in Seq(Char) /\ Len(t) = n + Len(s) /\ Len(s) \in Nat /\ n \in Nat
      /\ \A k \in n + 1 .. n + Len(s) : t[k] = s[k - n]
  OBVIOUS
<1> HIDE DEF t, n
<1>2. \A k \in n + 1 .. Len(t) : t[k] \in Char
  BY <1>1
<1>3. /\ r \in Seq(Char) /\ Len(r) = IF n + 1 <= Len(t) THEN Len(t) - (n + 1) + 1 ELSE 0
      /\ \A k \in 1 .. Len(t) - (n + 1) + 1 : r[k] = t[n + 1 + k - 1]
  BY <1>1, <1>2, SubSeqProperties, SMTT(30)
<1> HIDE DEF r
<1>4. Len(r) = Len(s)
  BY <1>3, <1>1
<1>5. ASSUME NEW k \in 1 .. Len(s) PROVE r[k] = s[k]
  <2>1. r[k] = t[n + k] /\ n + k \in n + 1 .. n + Len(s) /\ (n + k) - n = k
    BY <1>3, <1>1
  <2> QED BY <2>1, <1>1
<1>6. r = s
  BY <1>3, <1>4, <1>5
<1> QED BY <1>6 DEF r, t, n

LEMMA BlanksType ==
  ASSUME NEW n \in Nat
  PROVE  /\ Blanks(n) \in Seq(Char) /\ Len(Blanks(n)) = n
         /\ \A k \in 1 .. n : Blanks(n)[k] = Space
BY CharsDiffer DEF Blanks

LEMMA SkipBlanks ==
  ASSUME NEW n \in Nat, NEW s \in Seq(Char), s # <<>> => s[1] # Space
  PROVE  SkipSpaces(Blanks(n) \o s) = s
<1> DEFINE t == Blanks(n) \o s
           rest == {k \in DOMAIN t : t[k] # Space}
<1>1. /\ t \in Seq(Char) /\ Len(t) = n + Len(s) /\ Len(s) \in Nat
      /\ \A k \in 1 .. n : t[k] = Space
      /\ \A k \in n + 1 .. n + Len(s) : t[k] = s[k - n]
  <2>1. Blanks(n) \in Seq(Char) /\ Len(Blanks(n)) = n
        /\ \A k \in 1 .. n : Blanks(n)[k] = Space
    BY BlanksType
  <2>2. /\ t \in Seq(Char) /\ Len(t) = Len(Blanks(n)) + Len(s)
        /\ \A k \in 1 .. Len(Blanks(n)) : t[k] = Blanks(n)[k]
        /\ \A k \in Len(Blanks(n)) + 1 .. Len(Blanks(n)) + Len(s) : t[k] = s[k - Len(Blanks(n))]
    BY <2>1, ConcatElements
  <2> HIDE DEF t
  <2> QED BY <2>1, <2>2
<1> HIDE DEF t
<1>2. CASE s = <<>>
  <2>1. rest = {}
    BY <1>1, <1>2
  <2>2. SkipSpaces(t) = <<>>
    BY <2>1 DEF SkipSpaces
  <2> QED BY <1>2, <2>2 DEF t
<1>3. CASE s # <<>>
  <2>1. Len(s) >= 1 /\ t[n + 1] = s[1]
    BY <1>1, <1>3
  <2>2. n + 1 \in rest /\ \A k \in rest : n + 1 <= k
    BY <1>1, <2>1, <1>3
  <2>3. (CHOOSE k \in rest : \A j \in rest : k <= j) = n + 1
    <3>1. \A k \in rest : k \in Int
      BY <1>1
    <3> HIDE DEF rest
    <3> QED BY <2>2, <3>1
  <2>4. SkipSpaces(t) = SubSeq(t, n + 1, Len(t))
    BY <2>2, <2>3 DEF SkipSpaces
  <2>5. SubSeq(t, n + 1, Len(t)) = s
    <3>1. Blanks(n) \in Seq(Char) /\ Len(Blanks(n)) = n
      BY BlanksType
    <3> QED BY <3>1, SubSeqAfter DEF t
  <2> QED BY <2>4, <2>5 DEF t
<1> QED BY <1>2, <1>3


LEMMA LettersOfFaces ==
  /\ \A f \in 1 .. 6 : Upper[f] \in Heads /\ Lower[f] \in Heads
  /\ \A f \in 1 .. 6, g \in 1 .. 6 : Upper[f] # Lower[g]
  /\ \A f \in 1 .. 6, g \in 1 .. 6 : Upper[f] = Upper[g] \/ Lower[f] = Lower[g] => f = g
  /\ \A f \in 1 .. 6 : Upper[f] \notin {"2", "x"} /\ Lower[f] \notin {"2", "x"}
<1>1. \A f \in 1 .. 6 : f \in {1, 2, 3, 4, 5, 6}
  OBVIOUS
<1> QED BY <1>1, SMTT(30) DEF Upper, Lower, Heads

LEMMA HeadsAreNoSuffixes ==
  ASSUME NEW c \in Heads \cup {Space}
  PROVE  c \notin DOMAIN Suffix
<1>1. DOMAIN Suffix = {"1", "+", "2", "'", "3", "-"}
  BY Zenon DEF Suffix
<1>2. c \in {"U", "R", "F", "D", "L", "B", "u", "r", "f", "d", "l", "b", "x", " "}
  BY Zenon DEF Heads, Space
<1> QED BY <1>1, <1>2, Zenon

LEMMA TwoIsSuffix == "2" \in DOMAIN Suffix
BY Zenon DEF Suffix

\* What parseMove returns, by the first character.
LEMMA ParseUpper ==
  ASSUME NEW f \in 1 .. 6, NEW s \in Seq(Char), s # <<>>, s[1] = Upper[f]
  PROVE  ParseMove(s) =
           {IF Len(s) > 1 /\ s[2] \in DOMAIN Suffix
            THEN <<f - 1, Suffix[s[2]], SkipSpaces(SubSeq(s, 3, Len(s)))>>
            ELSE <<f - 1, 1, SkipSpaces(SubSeq(s, 2, Len(s)))>>}
<1>1. SkipSpaces(s) = s
  BY SkipNothing, LettersOfFaces, CharsDiffer
<1>2. {g \in 1 .. 6 : s # <<>> /\ s[1] = Lower[g]} = {}
  BY LettersOfFaces
<1>3. {g \in 1 .. 6 : s # <<>> /\ s[1] = Upper[g]} = {f}
  BY LettersOfFaces
<1> QED BY <1>1, <1>2, <1>3 DEF ParseMove

LEMMA ParseLower ==
  ASSUME NEW f \in 1 .. 6, NEW s \in Seq(Char), s # <<>>, s[1] = Lower[f]
  PROVE  ParseMove(s) = {<<f - 1, 3, SkipSpaces(SubSeq(s, 2, Len(s)))>>}
<1>1. SkipSpaces(s) = s
  BY SkipNothing, LettersOfFaces, CharsDiffer
<1>2. {g \in 1 .. 6 : s # <<>> /\ s[1] = Lower[g]} = {f}
  BY LettersOfFaces
<1>3. {g \in 1 .. 6 : s # <<>> /\ s[1] = Upper[g]} = {}
  BY LettersOfFaces
<1> QED BY <1>1, <1>2, <1>3 DEF ParseMove

LEMMA ParseOther ==
  ASSUME NEW s \in Seq(Char), s # <<>>, s[1] \in {"2", "x"}
  PROVE  ParseMove(s) = {}
<1>0. s[1] # Space
  BY Zenon DEF Space
<1>1. SkipSpaces(s) = s
  BY <1>0, SkipNothing
<1>2. {g \in 1 .. 6 : s # <<>> /\ s[1] = Lower[g]} = {}
  BY LettersOfFaces
<1>3. {g \in 1 .. 6 : s # <<>> /\ s[1] = Upper[g]} = {}
  BY LettersOfFaces
<1> QED BY <1>1, <1>2, <1>3 DEF ParseMove

LEMMA TokenTextType ==
  ASSUME NEW t \in Token
  PROVE  /\ TokenText(t) \in Seq(Char) /\ Len(TokenText(t)) \in 1 .. 2
         /\ TokenText(t)[1] \in Heads
<1>1. t[1] + 1 \in 1 .. 6
  BY TokenCases
<1>2. Upper[t[1] + 1] \in Heads /\ Lower[t[1] + 1] \in Heads
  BY <1>1, LettersOfFaces
<1>3. "x" \in Heads
  BY DEF Heads
<1>4. "2" \in DOMAIN Suffix
  BY Zenon DEF Suffix
<1>5. \/ \E a \in Heads : TokenText(t) = <<a>>
      \/ \E a \in Heads, c \in DOMAIN Suffix : TokenText(t) = <<a, c>>
  BY <1>2, <1>3, <1>4, TokenCases
<1>6. ASSUME NEW a \in Heads
      PROVE  <<a>> \in Seq(Char) /\ Len(<<a>>) \in 1 .. 2 /\ <<a>>[1] \in Heads
  BY CharsDiffer
<1>7. ASSUME NEW a \in Heads, NEW c \in DOMAIN Suffix
      PROVE  <<a, c>> \in Seq(Char) /\ Len(<<a, c>>) \in 1 .. 2 /\ <<a, c>>[1] \in Heads
  BY CharsDiffer
<1> QED BY <1>5, <1>6, <1>7

\* Texts: what the loop may find before it.
Texts == {s \in Seq(Char) : s # <<>> => s[1] \in Heads}

LEMMA AfterToken ==
  ASSUME NEW t \in Token, NEW n \in Nat, NEW r \in Texts
  PROVE  LET s == TokenText(t) \o Blanks(n) \o r
         IN /\ s \in Texts /\ s # <<>> /\ s = TokenText(t) \o (Blanks(n) \o r)
            /\ ParseMove(s) =
                 IF ~IsMistake(t) THEN {<<t[1], TokenTimes(t[2]), r>>}
                 ELSE IF Len(TokenText(t)) = 2 THEN {<<t[1], 3, <<"2">> \o (Blanks(n) \o r)>>}
                 ELSE {}
<1> DEFINE u == TokenText(t)
           b == Blanks(n) \o r
           s == u \o Blanks(n) \o r
<1>1. u \in Seq(Char) /\ Len(u) \in 1 .. 2 /\ u[1] \in Heads
  BY TokenTextType
<1>2. Blanks(n) \in Seq(Char) /\ r \in Seq(Char) /\ Len(Blanks(n)) = n
  BY BlanksType DEF Texts
<1>3. b \in Seq(Char) /\ Len(b) = n + Len(r)
  BY <1>2, ConcatElements
<1>4. s = u \o b
  BY <1>1, <1>2, ConcatAssociative
<1>5. SkipSpaces(b) = r
  BY <1>2, SkipBlanks, CharsDiffer DEF Texts
<1>6. b # <<>> => b[1] \in Heads \cup {Space}
  <2>1. CASE n > 0
    <3>1. b[1] = Blanks(n)[1]
      BY <2>1, <1>2, ConcatElements
    <3> QED BY <3>1, <2>1, BlanksType
  <2>2. CASE n = 0
    <3>1. b = r
      <4>1. Blanks(n) = <<>>
        BY <1>2, <2>2
      <4> QED BY <4>1, <1>2
    <3> QED BY <3>1 DEF Texts
  <2> QED BY <2>1, <2>2
<1> HIDE DEF b
<1>7. /\ s \in Seq(Char) /\ Len(s) = Len(u) + Len(b) /\ s[1] = u[1] /\ s # <<>>
      /\ Len(u) = 2 => s[2] = u[2]
      /\ Len(u) = 1 /\ Len(s) > 1 => s[2] = b[1] /\ b # <<>>
  <2>1. /\ u \o b \in Seq(Char) /\ Len(u \o b) = Len(u) + Len(b)
        /\ \A k \in 1 .. Len(u) : (u \o b)[k] = u[k]
        /\ \A k \in Len(u) + 1 .. Len(u) + Len(b) : (u \o b)[k] = b[k - Len(u)]
    BY <1>1, <1>3, ConcatElements
  <2> HIDE DEF u, s
  <2> QED BY <1>1, <1>3, <1>4, <2>1
<1>8. SubSeq(s, Len(u) + 1, Len(s)) = b
  BY <1>1, <1>3, <1>4, SubSeqAfter
<1>9. s \in Texts
  BY <1>1, <1>7 DEF Texts
<1>10. t[1] + 1 \in 1 .. 6 /\ (t[1] + 1) - 1 = t[1]
  BY TokenCases
<1>11. CASE t[2] \in DOMAIN Suffix /\ TokenTimes(t[2]) = Suffix[t[2]] /\ u = <<Upper[t[1] + 1], t[2]>>
  <2>1. s[1] = Upper[t[1] + 1] /\ s[2] = t[2] /\ Len(s) > 1 /\ Len(u) = 2
    BY <1>11, <1>7, <1>3
  <2>2. ~IsMistake(t)
    BY <1>11, SuffixRange DEF IsMistake
  <2> HIDE DEF s, u
  <2>3. SkipSpaces(SubSeq(s, 3, Len(s))) = r
    <3>1. Len(u) + 1 = 3
      BY <2>1
    <3> QED BY <3>1, <1>8, <1>5
  <2>4. ParseMove(s) = {<<t[1], Suffix[t[2]], r>>}
    <3>1. Upper[t[1] + 1] = s[1] /\ Len(s) > 1 /\ s[2] \in DOMAIN Suffix /\ Suffix[s[2]] = Suffix[t[2]]
      BY <2>1, <1>11
    <3> QED BY <3>1, <2>3, <1>7, <1>10, ParseUpper
  <2> QED BY <2>2, <2>4, <1>4, <1>7, <1>9, <1>11 DEF s, u, b
<1>12. CASE TokenTimes(t[2]) = 1 /\ u = <<Upper[t[1] + 1]>>
  <2>1. s[1] = Upper[t[1] + 1] /\ Len(u) = 1
    BY <1>12, <1>7
  <2>2. ~IsMistake(t)
    BY <1>12 DEF IsMistake
  <2>3. ~(Len(s) > 1 /\ s[2] \in DOMAIN Suffix)
    BY <2>1, <1>6, <1>7, HeadsAreNoSuffixes
  <2> HIDE DEF s, u
  <2>4. ParseMove(s) = {<<t[1], 1, r>>}
    <3>1. SkipSpaces(SubSeq(s, 2, Len(s))) = r
      <4>1. Len(u) + 1 = 2
        BY <2>1
      <4> QED BY <4>1, <1>8, <1>5
    <3> QED BY <3>1, <2>1, <2>3, <1>7, <1>10, ParseUpper
  <2> QED BY <2>2, <2>4, <1>4, <1>7, <1>9, <1>12 DEF s, u, b
<1>13. CASE TokenTimes(t[2]) = 3 /\ u = <<Lower[t[1] + 1]>>
  <2>1. s[1] = Lower[t[1] + 1] /\ Len(u) = 1
    BY <1>13, <1>7
  <2>2. ~IsMistake(t)
    BY <1>13 DEF IsMistake
  <2> HIDE DEF s, u
  <2>4. ParseMove(s) = {<<t[1], 3, r>>}
    <3>1. SkipSpaces(SubSeq(s, 2, Len(s))) = r
      <4>1. Len(u) + 1 = 2
        BY <2>1
      <4> QED BY <4>1, <1>8, <1>5
    <3>2. s \in Seq(Char) /\ s # <<>>
      BY <1>7
    <3>3. PICK f \in 1 .. 6 : f = t[1] + 1 /\ f - 1 = t[1]
      BY <1>10
    <3>4. s[1] = Lower[f]
      BY <3>3, <2>1
    <3>5. ParseMove(s) = {<<f - 1, 3, SkipSpaces(SubSeq(s, 2, Len(s)))>>}
      BY <3>2, <3>4, ParseLower
    <3> QED BY <3>1, <3>3, <3>5
  <2> QED BY <2>2, <2>4, <1>4, <1>7, <1>9, <1>13 DEF s, u, b
<1>14. CASE TokenTimes(t[2]) = 0 /\ u = <<Lower[t[1] + 1], "2">>
  <2>1. s[1] = Lower[t[1] + 1] /\ Len(u) = 2
    BY <1>14, <1>7
  <2>2. IsMistake(t)
    BY <1>14 DEF IsMistake
  <2>3. SubSeq(s, 2, Len(s)) = <<"2">> \o b
    <3>1. <<Lower[t[1] + 1]>> \in Seq(Char) /\ <<"2">> \in Seq(Char) /\ Len(<<Lower[t[1] + 1]>>) = 1
      BY <1>1, <1>10, LettersOfFaces, CharsDiffer, TwoIsSuffix
    <3>2. u = <<Lower[t[1] + 1]>> \o <<"2">>
      BY <1>14
    <3>3. s = <<Lower[t[1] + 1]>> \o (<<"2">> \o b)
      BY <1>3, <1>4, <3>1, <3>2, ConcatAssociative
    <3>4. <<"2">> \o b \in Seq(Char)
      BY <1>3, <3>1
    <3> HIDE DEF s, u
    <3> QED BY <3>1, <3>3, <3>4, SubSeqAfter
  <2>4. SkipSpaces(<<"2">> \o b) = <<"2">> \o b
    <3>1. <<"2">> \o b \in Seq(Char) /\ (<<"2">> \o b)[1] = "2"
      <4>1. <<"2">> \in Seq(Char) /\ Len(<<"2">>) = 1 /\ <<"2">>[1] = "2"
        BY CharsDiffer, TwoIsSuffix
      <4> QED BY <4>1, <1>3, ConcatElements
    <3> QED BY <3>1, SkipNothing, CharsDiffer
  <2> HIDE DEF s, u
  <2>5. ParseMove(s) = {<<t[1], 3, <<"2">> \o b>>}
    BY <2>1, <2>3, <2>4, <1>7, <1>10, ParseLower
  <2> QED BY <2>1, <2>2, <2>5, <1>4, <1>7, <1>9 DEF s, u, b
<1>15. CASE TokenTimes(t[2]) = 0 /\ u = <<"x">>
  <2>1. s[1] = "x" /\ Len(u) = 1
    BY <1>15, <1>7
  <2>2. IsMistake(t)
    BY <1>15 DEF IsMistake
  <2> HIDE DEF s, u
  <2>5. ParseMove(s) = {}
    BY <2>1, <1>7, ParseOther
  <2> QED BY <2>1, <2>2, <2>5, <1>4, <1>7, <1>9 DEF s, u, b
<1> QED BY <1>11, <1>12, <1>13, <1>14, <1>15, TokenCases

\* What Text computes, one turn after the other from the last.
LEMMA TextSteps ==
  ASSUME NEW s \in Seq(Token), NEW n \in Nat
  PROVE  /\ Text(s, n)[0] = <<>>
         /\ \A k \in 0 .. Len(s) : Text(s, n)[k] \in Texts
         /\ \A k \in 0 .. Len(s) - 1 :
              Text(s, n)[k + 1] = TokenText(s[Len(s) - k]) \o Blanks(n) \o Text(s, n)[k]
<1> DEFINE m == Len(s)
           one(k) == TokenText(s[m + 1 - k]) \o Blanks(n)
           last == CHOOSE f : f = [k \in 0 .. m |-> IF k = 0 THEN <<>> ELSE one(k) \o f[k - 1]]
           step == [k \in 0 .. m - 1 |-> [r \in Texts |-> one(k + 1) \o r]]
<1>0. m \in Nat
  OBVIOUS
<1>1. step \in [0 .. m - 1 -> [Texts -> Texts]]
  <2>1. ASSUME NEW k \in 0 .. m - 1, NEW r \in Texts PROVE one(k + 1) \o r \in Texts
    <3>1. s[m + 1 - (k + 1)] \in Token
      BY <1>0
    <3> QED BY <3>1, AfterToken
  <2> HIDE DEF one, m
  <2> QED BY <2>1
<1>2. <<>> \in Texts
  BY DEF Texts
<1>3. PICK f \in [0 .. m -> Texts] : IsRecursion(f, <<>>, m, step)
  <2> HIDE DEF step, m
  <2> QED BY <1>0, <1>1, <1>2, BoundedRecursion
<1>4. f[0] = <<>> /\ \A k \in 0 .. m - 1 : f[k + 1] = one(k + 1) \o f[k]
  <2>1. f[0] = <<>> /\ \A k \in 0 .. m - 1 : f[k + 1] = step[k][f[k]]
    BY <1>3 DEF IsRecursion
  <2>2. ASSUME NEW k \in 0 .. m - 1 PROVE step[k][f[k]] = one(k + 1) \o f[k]
    <3> HIDE DEF one, m
    <3>1. f[k] \in Texts
      BY <1>0
    <3> QED BY <3>1
  <2> QED BY <2>1, <2>2
<1>5. f = [k \in 0 .. m |-> IF k = 0 THEN <<>> ELSE one(k) \o f[k - 1]]
  <2> HIDE DEF one, m
  <2>1. ASSUME NEW k \in 0 .. m PROVE f[k] = IF k = 0 THEN <<>> ELSE one(k) \o f[k - 1]
    <3>1. CASE k = 0
      BY <3>1, <1>4
    <3>2. CASE k # 0
      <4>1. k - 1 \in 0 .. m - 1 /\ (k - 1) + 1 = k
        BY <3>2, <1>0
      <4>2. f[(k - 1) + 1] = one((k - 1) + 1) \o f[k - 1]
        BY <4>1, <1>4
      <4> QED BY <3>2, <4>1, <4>2
    <3> QED BY <3>1, <3>2
  <2> QED BY <2>1
<1>6. last = [k \in 0 .. m |-> IF k = 0 THEN <<>> ELSE one(k) \o last[k - 1]]
  <2> HIDE DEF one, m
  <2> QED BY <1>5
<1>7. \A k \in 0 .. m - 1 : last[k + 1] = one(k + 1) \o last[k]
  <2> HIDE DEF one, m, last
  <2> SUFFICES ASSUME NEW k \in 0 .. m - 1 PROVE last[k + 1] = one(k + 1) \o last[k]
    OBVIOUS
  <2>1. k + 1 \in 0 .. m /\ k + 1 # 0 /\ (k + 1) - 1 = k
    BY <1>0
  <2> QED BY <1>6, <2>1
<1>8. last[0] = <<>>
  <2> HIDE DEF one, m, last
  <2> QED BY <1>6, <1>0
<1>9. \A k \in 0 .. m : last[k] \in Texts
  <2> DEFINE E == {k \in Nat : k <= m => last[k] \in Texts}
  <2> HIDE DEF last
  <2>1. 0 \in E
    BY <1>2, <1>8
  <2>2. \A k \in Nat : k \in E => k + 1 \in E
    <3> SUFFICES ASSUME NEW k \in Nat, k + 1 <= m, last[k] \in Texts PROVE last[k + 1] \in Texts
      BY <1>0
    <3>1. k \in 0 .. m - 1
      BY <1>0
    <3>2. s[m + 1 - (k + 1)] \in Token
      BY <1>0, <3>1
    <3>3. one(k + 1) \o last[k] \in Texts
      BY <3>2, AfterToken
    <3> QED BY <3>1, <3>3, <1>7
  <2>3. Nat \subseteq E
    <3> HIDE DEF E
    <3> QED BY <2>1, <2>2, NatInd
  <2> QED BY <2>3, <1>0
<1>10. Text(s, n) = last
  BY DEF Text, Blanks
<1>11. \A k \in 0 .. m - 1 : m + 1 - (k + 1) = m - k
  BY <1>0
<1> HIDE DEF last
<1> QED BY <1>7, <1>8, <1>9, <1>10, <1>11

-----------------------------------------------------------------------------
\* Moves.

LEMMA SingleTurns ==
  ASSUME NEW f \in 0 .. 5, NEW times \in 1 .. 3
  PROVE  LET m == Single(f, times)
         IN /\ WellFormed(m) /\ OfAxis(m, f % 3) /\ ~IsEmpty(m) /\ f % 3 \in 0 .. 2
            /\ FaceTurn(f, times) = <<f % 3, m.times1, m.times2>>
<1>1. f \in {0, 1, 2, 3, 4, 5}
  OBVIOUS
<1>2. f \in {U_, L_, F_} \/ f \in {R_, D_, B_}
  BY <1>1 DEF U_, R_, F_, D_, L_, B_
<1>3. {U_, L_, F_} \cap {R_, D_, B_} = {} /\ None \notin 0 .. 5
  BY DEF U_, R_, F_, D_, L_, B_, None
<1>4. CASE f \in {U_, L_, F_}
  <2>1. Single(f, times) = [face1 |-> f, times1 |-> times, face2 |-> None, times2 |-> 0]
    BY <1>4 DEF Single, EmptyMove
  <2>2. f % 3 \in 0 .. 2
    OBVIOUS
  <2> QED BY <1>3, <1>4, <2>1, <2>2 DEF WellFormed, Move, OfAxis, IsEmpty, FaceTurn, AxisTurn
<1>5. CASE f \in {R_, D_, B_}
  <2>1. Single(f, times) = [face1 |-> None, times1 |-> 0, face2 |-> f, times2 |-> times]
    BY <1>3, <1>5 DEF Single, EmptyMove
  <2>2. f % 3 \in 0 .. 2
    OBVIOUS
  <2>3. FaceTurn(f, times) = <<f % 3, 0, times>>
    BY <1>3, <1>5 DEF FaceTurn, AxisTurn
  <2>4. WellFormed([face1 |-> None, times1 |-> 0, face2 |-> f, times2 |-> times])
    BY <1>3, <1>5 DEF WellFormed, Move
  <2> QED BY <2>1, <2>2, <2>3, <2>4 DEF OfAxis, IsEmpty
<1> QED BY <1>2, <1>4, <1>5

\* Moves are combined if they are about one axis.
LEMMA CombinedAxis ==
  ASSUME NEW l, NEW r, WellFormed(l), WellFormed(r), ~IsEmpty(r),
         NEW axis \in 0 .. 2, OfAxis(r, axis)
  PROVE  CanCombine(l, r) <=> OfAxis(l, axis)
<1>1. /\ l.times1 \in 0 .. 3 /\ l.times2 \in 0 .. 3 /\ r.times1 \in 0 .. 3 /\ r.times2 \in 0 .. 3
      /\ l.times1 # 0 => l.face1 \in {U_, L_, F_}
      /\ l.times2 # 0 => l.face2 \in {R_, D_, B_}
      /\ r.times1 # 0 => r.face1 \in {U_, L_, F_}
      /\ r.times2 # 0 => r.face2 \in {R_, D_, B_}
  BY DEF WellFormed, Move
<1>2. /\ \A f \in {U_, L_, F_}, g \in {U_, L_, F_} : f % 3 = g % 3 => f = g
      /\ \A f \in {R_, D_, B_}, g \in {R_, D_, B_} : f % 3 = g % 3 => f = g
  BY DEF U_, R_, F_, D_, L_, B_
<1> QED BY <1>1, <1>2 DEF CanCombine, OfAxis, IsEmpty

LEMMA CombineAdds ==
  ASSUME NEW l, NEW r, WellFormed(l), WellFormed(r), NEW axis \in 0 .. 2,
         OfAxis(l, axis), OfAxis(r, axis)
  PROVE  LET m == Combine(l, r)
         IN /\ WellFormed(m) /\ OfAxis(m, axis)
            /\ m.times1 = (l.times1 + r.times1) % 4 /\ m.times2 = (l.times2 + r.times2) % 4
<1> DEFINE Faced(F, f, times) == f \in F \cup {None} /\ times \in 0 .. 3
             /\ (times = 0 <=> f = None) /\ (times # 0 => f % 3 = axis)
<1>1. ASSUME NEW F, NEW f, NEW times, NEW g, NEW more, Faced(F, f, times), Faced(F, g, more)
      PROVE  LET a == Added(f, times, g, more)
             IN Faced(F, a[1], a[2]) /\ a[2] = (times + more) % 4
  <2>1. CASE times = 0
    <3>1. Added(f, times, g, more) = <<g, more>>
      BY <2>1, <1>1 DEF Added
    <3>2. more % 4 = more
      BY <1>1
    <3> QED BY <2>1, <3>1, <3>2, <1>1
  <2>2. CASE times # 0 /\ more = 0
    <3>1. Added(f, times, g, more) = <<f, times>>
      BY <2>2, <1>1 DEF Added
    <3>2. times % 4 = times
      BY <1>1
    <3> QED BY <2>2, <3>1, <3>2, <1>1
  <2>3. CASE times # 0 /\ more # 0
    <3> DEFINE sum == (times + more) % 4
    <3>1. Added(f, times, g, more) = <<IF sum = 0 THEN None ELSE f, sum>>
      BY <2>3, <1>1 DEF Added
    <3>2. sum \in 0 .. 3
      BY <1>1
    <3> HIDE DEF sum
    <3>3. Faced(F, IF sum = 0 THEN None ELSE f, sum)
      BY <2>3, <3>2, <1>1
    <3> QED BY <3>1, <3>3 DEF sum
  <2> QED BY <2>1, <2>2, <2>3
<1>2. /\ Faced({U_, L_, F_}, l.face1, l.times1) /\ Faced({U_, L_, F_}, r.face1, r.times1)
      /\ Faced({R_, D_, B_}, l.face2, l.times2) /\ Faced({R_, D_, B_}, r.face2, r.times2)
  BY DEF WellFormed, Move, OfAxis
<1> DEFINE one == Added(l.face1, l.times1, r.face1, r.times1)
           two == Added(l.face2, l.times2, r.face2, r.times2)
<1> HIDE DEF Faced
<1>3. /\ Faced({U_, L_, F_}, one[1], one[2]) /\ one[2] = (l.times1 + r.times1) % 4
      /\ Faced({R_, D_, B_}, two[1], two[2]) /\ two[2] = (l.times2 + r.times2) % 4
  BY <1>1, <1>2
<1>4. Combine(l, r) = [face1 |-> one[1], times1 |-> one[2], face2 |-> two[1], times2 |-> two[2]]
  BY DEF Combine
<1> HIDE DEF one, two
<1> QED BY <1>3, <1>4 DEF Faced, WellFormed, Move, OfAxis

\* What is waiting is one turn of its axis.
LEMMA WaitingAsOne ==
  ASSUME NEW m, WellFormed(m), NEW axis \in 0 .. 2, OfAxis(m, axis), NEW s \in Canonical
  PROVE  LET x == FaceTurn(m.face1, m.times1)
             y == FaceTurn(m.face2, m.times2)
             z == <<axis, m.times1, m.times2>>
         IN /\ x \in TurnSet /\ y \in TurnSet /\ z \in TurnSet
            /\ Reduce(Reduce(s, x), y) = Reduce(s, z)
<1> DEFINE x == FaceTurn(m.face1, m.times1)
           y == FaceTurn(m.face2, m.times2)
           z == <<axis, m.times1, m.times2>>
           x2 == <<axis, m.times1, 0>>
           y2 == <<axis, 0, m.times2>>
<1>1. /\ m.times1 \in 0 .. 3 /\ m.times2 \in 0 .. 3
      /\ m.face1 \in {U_, L_, F_, None} /\ m.face2 \in {R_, D_, B_, None}
      /\ m.times1 = 0 <=> m.face1 = None
      /\ m.times2 = 0 <=> m.face2 = None
  BY DEF WellFormed, Move
<1>2. {U_, L_, F_} \cap {R_, D_, B_} = {} /\ None \notin {U_, L_, F_} /\ None % 3 \in 0 .. 2
  <2>1. \A k \in Int : k % 3 \in 0 .. 2
    OBVIOUS
  <2>2. None \in Int
    BY DEF None
  <2> HIDE DEF None
  <2>3. None % 3 \in 0 .. 2
    BY <2>1, <2>2
  <2> QED BY <2>3 DEF U_, R_, F_, D_, L_, B_, None
<1>3. x2 \in TurnSet /\ y2 \in TurnSet /\ z \in TurnSet
  BY <1>1 DEF TurnSet
<1>4. (x = x2 \/ (IsZero(x) /\ IsZero(x2))) /\ x \in TurnSet
  <2>1. CASE m.times1 = 0
    <3>1. x = <<None % 3, 0, 0>>
      BY <2>1, <1>1, <1>2 DEF FaceTurn, AxisTurn
    <3> QED BY <2>1, <3>1, <1>2 DEF IsZero, TurnSet
  <2>2. CASE m.times1 # 0
    <3>1. x = x2
      BY <2>2, <1>1 DEF FaceTurn, AxisTurn, OfAxis
    <3> QED BY <3>1, <1>3
  <2> QED BY <2>1, <2>2
<1>5. (y = y2 \/ (IsZero(y) /\ IsZero(y2))) /\ y \in TurnSet
  <2>1. CASE m.times2 = 0
    <3>1. y = <<None % 3, 0, 0>>
      BY <2>1, <1>1, <1>2 DEF FaceTurn, AxisTurn
    <3> QED BY <2>1, <3>1, <1>2 DEF IsZero, TurnSet
  <2>2. CASE m.times2 # 0
    <3>1. y = y2
      BY <2>2, <1>1, <1>2 DEF FaceTurn, AxisTurn, OfAxis
    <3> QED BY <3>1, <1>3
  <2> QED BY <2>1, <2>2
<1> HIDE DEF x, y
<1>6. Reduce(s, x) = Reduce(s, x2)
  BY <1>4, ReduceZero
<1>7. \A r \in Canonical : Reduce(r, y) = Reduce(r, y2)
  BY <1>5, ReduceZero
<1>8. Reduce(s, x2) \in Canonical
  BY <1>3, ReduceCanonical
<1>9. x2[1] = y2[1] /\ Plus(x2, y2) = z
  BY <1>1 DEF Plus
<1> HIDE DEF x2, y2, z
<1>10. Reduce(Reduce(s, x2), y2) = Reduce(s, z)
  BY <1>3, <1>9, ReduceTwice
<1>11. Reduce(Reduce(s, x), y) = Reduce(s, z)
  BY <1>6, <1>7, <1>8, <1>10
<1> QED BY <1>3, <1>4, <1>5, <1>11 DEF x, y, z

-----------------------------------------------------------------------------
\* The invariant.

Commands == {Letter[p][k] : p \in 1 .. 3, k \in 1 .. 15}

\* What is left of the text is that of the turns that are left.
Left(n) ==
  /\ str = Text(tokens, n)[Len(tokens) - fed]
  /\ \A k \in 1 .. fed : ~IsMistake(tokens[k])

\* A small letter was followed by a 2, which is no turn.
Misread ==
  /\ fed > 0 /\ IsMistake(tokens[fed])
  /\ str \in Seq(Char) /\ str # <<>> /\ str[1] = "2"

Reading == (\E n \in Nat : Left(n)) \/ Misread

\* The move that is waiting is of the axis of the last turn.
AxisOfLast ==
  /\ fed = 0 => IsEmpty(accum)
  /\ fed > 0 => OfAxis(accum, tokens[fed][1] % 3)

SameSoFar ==
  (\A k \in 1 .. fed : ~IsMistake(tokens[k])) =>
    Reduced(Made \o Waiting) = Reduced(Asked)

Verdict ==
  /\ status = "returned" => \A k \in DOMAIN tokens : ~IsMistake(tokens[k])
  /\ status = "thrown" => \E k \in DOMAIN tokens : IsMistake(tokens[k])

\* The run of the last turn has a command to come, even if its turns have come
\* to nothing.
ChargedSoFar ==
  status # "thrown" =>
    Len(out) + (IF status = "running" /\ fed > 0 THEN 1 ELSE 0) <= Cardinality(Runs)

IInv ==
  /\ TranslateTypeOK /\ out \in Seq(Commands) /\ Reading /\ AxisOfLast
  /\ SameSoFar /\ Verdict /\ ChargedSoFar

LEMMA AxisOfToken ==
  ASSUME NEW t \in Token
  PROVE  t[1] % 3 \in 0 .. 2 /\ t[1] \in 0 .. 5
<1>1. t[1] \in 0 .. 5
  BY TokenCases
<1> QED BY <1>1

\* An axis the waiting move is of, and its state as one turn.
LEMMA AccumAxis ==
  ASSUME TranslateTypeOK, AxisOfLast
  PROVE  /\ WellFormed(accum)
         /\ \E axis \in 0 .. 2 : OfAxis(accum, axis)
         /\ fed > 0 => tokens[fed] \in Token /\ OfAxis(accum, tokens[fed][1] % 3)
                          /\ tokens[fed][1] % 3 \in 0 .. 2
<1>1. WellFormed(accum)
  BY DEF TranslateTypeOK, WellFormed
<1>2. CASE fed = 0
  <2>1. IsEmpty(accum)
    BY <1>2 DEF AxisOfLast
  <2>2. OfAxis(accum, 0)
    BY <2>1 DEF IsEmpty, OfAxis
  <2> QED BY <1>1, <1>2, <2>2
<1>3. CASE fed # 0
  <2>1. fed \in 1 .. Len(tokens) /\ tokens \in Seq(Token) /\ fed > 0
    BY <1>3 DEF TranslateTypeOK
  <2>2. tokens[fed] \in Token
    BY <2>1
  <2>3. tokens[fed][1] % 3 \in 0 .. 2
    BY <2>2, AxisOfToken
  <2> QED BY <1>1, <2>1, <2>2, <2>3 DEF AxisOfLast
<1> QED BY <1>2, <1>3

\* What parseMove makes of the text that is left.
LEMMA WhatIsParsed ==
  ASSUME TranslateTypeOK, Reading, str # <<>>
  PROVE  LET t == tokens[fed + 1]
         IN \/ ParseMove(str) = {} /\ \E k \in DOMAIN tokens : IsMistake(tokens[k])
            \/ /\ fed + 1 \in 1 .. Len(tokens) /\ t \in Token
               /\ \A k \in 1 .. fed : ~IsMistake(tokens[k])
               /\ ParseMove(str) # {} /\ Parsed[1] = t[1] /\ Parsed[2] \in 1 .. 3
               /\ \/ /\ ~IsMistake(t) /\ Parsed[2] = TokenTimes(t[2])
                     /\ \E n \in Nat : Parsed[3] = Text(tokens, n)[Len(tokens) - (fed + 1)]
                  \/ /\ IsMistake(t) /\ Parsed[3] \in Seq(Char)
                     /\ Parsed[3] # <<>> /\ Parsed[3][1] = "2"
<1> DEFINE t == tokens[fed + 1]
<1>0. tokens \in Seq(Token) /\ fed \in 0 .. Len(tokens) /\ Len(tokens) \in Nat
      /\ DOMAIN tokens = 1 .. Len(tokens)
  BY DEF TranslateTypeOK
<1>1. CASE Misread
  <2>1. ParseMove(str) = {}
    BY <1>1, ParseOther DEF Misread
  <2>2. fed \in DOMAIN tokens /\ IsMistake(tokens[fed])
    BY <1>0, <1>1 DEF Misread
  <2> QED BY <2>1, <2>2
<1>2. ASSUME NEW n \in Nat, Left(n)
      PROVE  \/ ParseMove(str) = {} /\ \E k \in DOMAIN tokens : IsMistake(tokens[k])
             \/ /\ fed + 1 \in 1 .. Len(tokens) /\ t \in Token
                /\ \A k \in 1 .. fed : ~IsMistake(tokens[k])
                /\ ParseMove(str) # {} /\ Parsed[1] = t[1] /\ Parsed[2] \in 1 .. 3
                /\ \/ /\ ~IsMistake(t) /\ Parsed[2] = TokenTimes(t[2])
                      /\ \E m \in Nat : Parsed[3] = Text(tokens, m)[Len(tokens) - (fed + 1)]
                   \/ /\ IsMistake(t) /\ Parsed[3] \in Seq(Char)
                      /\ Parsed[3] # <<>> /\ Parsed[3][1] = "2"
  <2> DEFINE k == Len(tokens) - (fed + 1)
             r == Text(tokens, n)[k]
  <2>1. fed # Len(tokens)
    <3>1. fed = Len(tokens) => Len(tokens) - fed = 0
      BY <1>0
    <3> QED BY <3>1, <1>0, <1>2, TextSteps DEF Left
  <2>2. /\ k \in 0 .. Len(tokens) - 1 /\ k \in 0 .. Len(tokens) /\ k + 1 = Len(tokens) - fed
        /\ Len(tokens) - k = fed + 1 /\ fed + 1 \in 1 .. Len(tokens)
    <3> DEFINE m == Len(tokens)
    <3> HIDE DEF m
    <3>1. m \in Nat /\ fed \in 0 .. m /\ fed # m
      BY <1>0, <2>1 DEF m
    <3>2. /\ m - (fed + 1) \in 0 .. m - 1 /\ m - (fed + 1) \in 0 .. m
          /\ (m - (fed + 1)) + 1 = m - fed
          /\ m - (m - (fed + 1)) = fed + 1 /\ fed + 1 \in 1 .. m
      BY <3>1
    <3> QED BY <3>2 DEF m
  <2>3. t \in Token
    BY <1>0, <2>2
  <2> HIDE DEF k
  <2>4. r \in Texts /\ Text(tokens, n)[k + 1] = TokenText(tokens[Len(tokens) - k]) \o Blanks(n) \o r
    BY <1>0, <2>2, TextSteps
  <2>5. str = TokenText(t) \o Blanks(n) \o r
    BY <2>2, <2>4, <1>2 DEF Left
  <2> HIDE DEF t, r
  <2>6. ParseMove(str) =
          IF ~IsMistake(t) THEN {<<t[1], TokenTimes(t[2]), r>>}
          ELSE IF Len(TokenText(t)) = 2 THEN {<<t[1], 3, <<"2">> \o (Blanks(n) \o r)>>}
          ELSE {}
    BY <2>3, <2>4, <2>5, AfterToken
  <2>7. CASE ~IsMistake(t)
    <3>1. ParseMove(str) = {<<t[1], TokenTimes(t[2]), r>>}
      BY <2>6, <2>7
    <3>2. Parsed = <<t[1], TokenTimes(t[2]), r>>
      BY <3>1 DEF Parsed
    <3>3. TokenTimes(t[2]) \in 1 .. 3
      BY <2>3, <2>7, TokenCases, SuffixRange DEF IsMistake
    <3> QED BY <2>2, <2>3, <2>7, <3>1, <3>2, <3>3, <1>2 DEF Left, r, k
  <2>8. CASE IsMistake(t) /\ Len(TokenText(t)) = 2
    <3> DEFINE q == <<"2">> \o (Blanks(n) \o r)
    <3>1. ParseMove(str) = {<<t[1], 3, q>>}
      BY <2>6, <2>8
    <3>2. Parsed = <<t[1], 3, q>>
      BY <3>1 DEF Parsed
    <3>3. q \in Seq(Char) /\ q # <<>> /\ q[1] = "2"
      <4>1. <<"2">> \in Seq(Char) /\ Len(<<"2">>) = 1 /\ <<"2">>[1] = "2"
        BY CharsDiffer, TwoIsSuffix
      <4>2. Blanks(n) \o r \in Seq(Char)
        BY <2>4, BlanksType, ConcatElements DEF Texts
      <4> QED BY <4>1, <4>2, ConcatElements
    <3> HIDE DEF q
    <3> QED BY <2>2, <2>3, <2>8, <3>1, <3>2, <3>3, <1>2 DEF Left
  <2>9. CASE IsMistake(t) /\ Len(TokenText(t)) # 2
    <3>1. ParseMove(str) = {}
      BY <2>6, <2>9
    <3> QED BY <3>1, <2>9, <2>2, <1>0 DEF t
  <2> QED BY <2>7, <2>8, <2>9
<1> HIDE DEF t
<1>3. CASE \E n \in Nat : Left(n)
  BY <1>2, <1>3 DEF t
<1> QED BY <1>1, <1>3 DEF Reading, t

\* What the move that is waiting and the commands amount to.
LEMMA WaitingAmounts ==
  ASSUME NEW made \in Seq(TurnSet), NEW m, WellFormed(m), NEW axis \in 0 .. 2, OfAxis(m, axis)
  PROVE  LET w == <<FaceTurn(m.face1, m.times1), FaceTurn(m.face2, m.times2)>>
         IN Reduced(made \o w) = Reduce(Reduced(made), <<axis, m.times1, m.times2>>)
<1> DEFINE x == FaceTurn(m.face1, m.times1)
           y == FaceTurn(m.face2, m.times2)
           z == <<axis, m.times1, m.times2>>
<1>1. Reduced(made) \in Canonical
  BY ReducedCanonical
<1>2. /\ x \in TurnSet /\ y \in TurnSet
      /\ Reduce(Reduce(Reduced(made), x), y) = Reduce(Reduced(made), z)
  BY <1>1, WaitingAsOne
<1> HIDE DEF x, y, z
<1>3. made \o <<x, y>> = Append(Append(made, x), y) /\ Append(made, x) \in Seq(TurnSet)
  BY <1>2
<1>4. Reduced(made \o <<x, y>>) = Reduce(Reduce(Reduced(made), x), y)
  BY <1>2, <1>3, ReducedAppend
<1> QED BY <1>2, <1>4 DEF x, y, z

LEMMA CmdTurnType ==
  ASSUME NEW c \in Commands
  PROVE  CmdTurn(c) \in TurnSet
<1>1. PICK p \in 1 .. 3, k \in 1 .. 15 : c = Letter[p][k]
  BY DEF Commands
<1>2. /\ CmdTurn(c) = <<Part[p][1] % 3, Times[k][1], Times[k][2]>>
      /\ Part[p][1] % 3 \in 0 .. 2 /\ Times[k][1] \in 0 .. 3 /\ Times[k][2] \in 0 .. 3
  BY <1>1, CmdOfLetter
<1> QED BY <1>2 DEF TurnSet

LEMMA MadeType ==
  ASSUME out \in Seq(Commands)
  PROVE  /\ Made \in Seq(TurnSet) /\ Len(Made) = Len(out)
         /\ \A k \in 1 .. Len(out) : Made[k] = CmdTurn(out[k])
<1>1. \A c \in Commands : CmdTurn(c) \in TurnSet
  BY CmdTurnType
<1>2. Made = [k \in 1 .. Len(out) |-> CmdTurn(out[k])]
  BY DEF Made, CmdTurn
<1>3. \A k \in 1 .. Len(out) : CmdTurn(out[k]) \in TurnSet
  BY <1>1
<1> QED BY <1>2, <1>3

LEMMA MadeStep ==
  ASSUME out \in Seq(Commands), NEW c \in Commands, out' = Append(out, c)
  PROVE  /\ out' \in Seq(Commands) /\ Made' = Append(Made, CmdTurn(c))
         /\ CmdTurn(c) \in TurnSet
<1>1. out' \in Seq(Commands) /\ Len(out') = Len(out) + 1 /\ out'[Len(out) + 1] = c
      /\ \A k \in 1 .. Len(out) : out'[k] = out[k]
  OBVIOUS
<1>2. /\ Made \in Seq(TurnSet) /\ Len(Made) = Len(out)
      /\ \A k \in 1 .. Len(out) : Made[k] = CmdTurn(out[k])
  BY MadeType
<1>3. /\ Made' \in Seq(TurnSet) /\ Len(Made') = Len(out')
      /\ \A k \in 1 .. Len(out') : Made'[k] = CmdTurn(out'[k])
  <2>1. \A d \in Commands : CmdTurn(d) \in TurnSet
    BY CmdTurnType
  <2>2. Made' = [k \in 1 .. Len(out') |-> CmdTurn(out'[k])]
    BY <1>1 DEF Made, CmdTurn
  <2>3. \A k \in 1 .. Len(out') : CmdTurn(out'[k]) \in TurnSet
    BY <1>1, <2>1
  <2> QED BY <1>1, <2>2, <2>3
<1>4. Len(out) \in Nat
  OBVIOUS
<1>5. CmdTurn(c) \in TurnSet
  BY <1>1, <1>3, <1>4
<1>6. Made' = Append(Made, CmdTurn(c))
  <2> DEFINE r == Append(Made, CmdTurn(c))
  <2>1. /\ r \in Seq(TurnSet) /\ Len(r) = Len(Made) + 1 /\ r[Len(Made) + 1] = CmdTurn(c)
        /\ \A k \in 1 .. Len(Made) : r[k] = Made[k]
    BY <1>2, <1>5, AppendProperties
  <2> HIDE DEF r
  <2>2. ASSUME NEW k \in 1 .. Len(out') PROVE Made'[k] = r[k]
    <3>1. CASE k = Len(out) + 1
      BY <3>1, <1>1, <1>2, <1>3, <2>1
    <3>2. CASE k # Len(out) + 1
      <4>1. k \in 1 .. Len(out)
        BY <3>2, <1>1, <1>4
      <4> QED BY <4>1, <1>1, <1>2, <1>3, <2>1
    <3> QED BY <3>1, <3>2
  <2>3. Made' = r
    BY <1>1, <1>2, <1>3, <2>1, <2>2, SeqEqual
  <2> QED BY <2>3 DEF r
<1> QED BY <1>1, <1>5, <1>6

\* What the text asks for, with one turn more.
LEMMA AskedStep ==
  ASSUME tokens \in Seq(Token), tokens' = tokens, fed \in Nat, fed' = fed + 1,
         fed + 1 \in 1 .. Len(tokens)
  PROVE  LET t == tokens[fed + 1]
             a == FaceTurn(t[1], TokenTimes(t[2]))
         IN /\ Asked \in Seq(TurnSet) /\ a \in TurnSet /\ Asked' = Append(Asked, a)
<1> DEFINE A(t) == FaceTurn(t[1], TokenTimes(t[2]))
<1>1. ASSUME NEW t \in Token PROVE A(t) \in TurnSet
  <2>1. t[1] % 3 \in 0 .. 2
    BY AxisOfToken
  <2>2. TokenTimes(t[2]) \in 0 .. 3
    BY TokenCases, SuffixRange
  <2> QED BY <2>1, <2>2 DEF FaceTurn, AxisTurn, TurnSet
<1>2. \A k \in 1 .. fed + 1 : tokens[k] \in Token
  OBVIOUS
<1>3. Asked = [k \in 1 .. fed |-> A(tokens[k])] /\ Asked' = [k \in 1 .. fed + 1 |-> A(tokens[k])]
  BY DEF Asked
<1>4. \A k \in 1 .. fed + 1 : A(tokens[k]) \in TurnSet
  BY <1>1, <1>2
<1> HIDE DEF A
<1>5. Asked \in Seq(TurnSet) /\ Len(Asked) = fed
  BY <1>3, <1>4
<1>6. Asked' = Append(Asked, A(tokens[fed + 1]))
  BY <1>3, <1>4, <1>5
<1> QED BY <1>4, <1>5, <1>6 DEF A

-----------------------------------------------------------------------------
\* The steps.

LEMMA InitIInv ==
  ASSUME TranslateInit
  PROVE  IInv
<1>1. PICK n \in 0 .. MaxTokens : tokens \in [1 .. n -> Token]
  BY DEF TranslateInit
<1>2. tokens \in Seq(Token) /\ Len(tokens) = n /\ n \in Nat
  BY <1>1
<1>3. PICK spaces \in 0 .. MaxSpaces : str = Text(tokens, spaces)[Len(tokens)]
  BY DEF TranslateInit
<1>4. fed = 0 /\ accum = EmptyMove /\ out = <<>> /\ status = "running"
  BY DEF TranslateInit
<1>5. TranslateTypeOK
  <2>1. /\ accum \in Move /\ accum.times1 = 0 /\ accum.face1 = None
        /\ accum.times2 = 0 /\ accum.face2 = None
    BY <1>4 DEF EmptyMove, Move
  <2> QED BY <1>2, <1>4, <2>1 DEF TranslateTypeOK
<1>6. out \in Seq(Commands) /\ Len(out) = 0
  BY <1>4
<1>7. Reading
  <2>1. spaces \in Nat /\ Len(tokens) - fed = Len(tokens)
    BY <1>2, <1>4, BoundsAssumption
  <2>2. Left(spaces)
    BY <1>3, <1>4, <2>1 DEF Left
  <2> QED BY <2>1, <2>2 DEF Reading
<1>8. IsEmpty(accum) /\ AxisOfLast
  BY <1>4 DEF IsEmpty, EmptyMove, AxisOfLast
<1>9. SameSoFar
  <2>1. Asked = <<>>
    BY <1>4 DEF Asked
  <2>2. Made \in Seq(TurnSet) /\ Made = <<>>
    BY <1>6, MadeType
  <2>3. WellFormed(accum) /\ OfAxis(accum, 0) /\ accum.times1 = 0 /\ accum.times2 = 0
    BY <1>5, <1>8 DEF TranslateTypeOK, WellFormed, IsEmpty, OfAxis
  <2>4. Waiting = <<FaceTurn(accum.face1, accum.times1), FaceTurn(accum.face2, accum.times2)>>
    BY <1>4 DEF Waiting
  <2>5. Reduced(Made \o Waiting) = Reduce(Reduced(Made), <<0, 0, 0>>)
    <3>1. 0 \in 0 .. 2
      OBVIOUS
    <3>2. Reduced(Made \o Waiting) = Reduce(Reduced(Made), <<0, accum.times1, accum.times2>>)
      BY <2>2, <2>3, <2>4, <3>1, WaitingAmounts
    <3> QED BY <2>3, <3>2
  <2>6. Reduce(Reduced(Made), <<0, 0, 0>>) = Reduced(Made)
    BY ReduceZero DEF IsZero
  <2> QED BY <2>1, <2>2, <2>5, <2>6 DEF SameSoFar
<1>10. Verdict
  BY <1>4 DEF Verdict
<1>11. ChargedSoFar
  <2>1. Runs = {}
    BY <1>4 DEF Runs
  <2> QED BY <2>1, <1>4, <1>6, FS_EmptySet DEF ChargedSoFar
<1> QED BY <1>5, <1>6, <1>7, <1>8, <1>9, <1>10, <1>11 DEF IInv

\* What both steps that take a turn do with the text.
LEMMA TakenStep ==
  ASSUME IInv, str # <<>>, ParseMove(str) # {}, str' = Parsed[3],
         fed' = fed + 1, tokens' = tokens
  PROVE  LET t == tokens[fed + 1]
         IN /\ fed + 1 \in 1 .. Len(tokens) /\ t \in Token /\ fed \in Nat
            /\ t[1] % 3 \in 0 .. 2
            /\ WellFormed(NextMove) /\ OfAxis(NextMove, t[1] % 3) /\ ~IsEmpty(NextMove)
            /\ \A k \in 1 .. fed : ~IsMistake(tokens[k])
            /\ ~IsMistake(t) => FaceTurn(t[1], TokenTimes(t[2]))
                                 = <<t[1] % 3, NextMove.times1, NextMove.times2>>
            /\ Reading'
<1> DEFINE t == tokens[fed + 1]
<1>0. tokens \in Seq(Token) /\ fed \in 0 .. Len(tokens) /\ Len(tokens) \in Nat
  BY DEF IInv, TranslateTypeOK
<1>1. /\ fed + 1 \in 1 .. Len(tokens) /\ t \in Token
      /\ \A k \in 1 .. fed : ~IsMistake(tokens[k])
      /\ Parsed[1] = t[1] /\ Parsed[2] \in 1 .. 3
      /\ \/ /\ ~IsMistake(t) /\ Parsed[2] = TokenTimes(t[2])
            /\ \E n \in Nat : Parsed[3] = Text(tokens, n)[Len(tokens) - (fed + 1)]
         \/ /\ IsMistake(t) /\ Parsed[3] \in Seq(Char)
            /\ Parsed[3] # <<>> /\ Parsed[3][1] = "2"
  BY WhatIsParsed DEF IInv
<1>2. t[1] \in 0 .. 5 /\ t[1] % 3 \in 0 .. 2
  BY <1>1, AxisOfToken
<1>3. /\ WellFormed(NextMove) /\ OfAxis(NextMove, t[1] % 3) /\ ~IsEmpty(NextMove)
      /\ FaceTurn(t[1], Parsed[2]) = <<t[1] % 3, NextMove.times1, NextMove.times2>>
  BY <1>1, <1>2, SingleTurns DEF NextMove
<1>4. Reading'
  <2>1. CASE IsMistake(t)
    BY <1>0, <1>1, <2>1 DEF Reading, Misread
  <2>2. CASE ~IsMistake(t)
    <3>1. PICK n \in Nat : Parsed[3] = Text(tokens, n)[Len(tokens) - (fed + 1)]
      BY <1>1, <2>2
    <3>2. \A k \in 1 .. fed + 1 : ~IsMistake(tokens[k])
      BY <1>0, <1>1, <2>2
    <3>3. Left(n)'
      BY <3>1, <3>2 DEF Left
    <3> QED BY <3>3 DEF Reading
  <2> QED BY <2>1, <2>2
<1> QED BY <1>0, <1>1, <1>2, <1>3, <1>4

LEMMA RunsFinite ==
  ASSUME fed \in Nat
  PROVE  IsFiniteSet(Runs) /\ Cardinality(Runs) \in Nat /\ fed + 1 \notin Runs
<1>1. IsFiniteSet(1 .. fed)
  BY FS_Interval
<1>2. Runs \subseteq 1 .. fed
  BY DEF Runs
<1>3. fed + 1 \notin 1 .. fed
  OBVIOUS
<1>4. IsFiniteSet(Runs)
  BY <1>1, <1>2, FS_Subset
<1> QED BY <1>2, <1>3, <1>4, FS_CardinalityType

LEMMA RunsStep ==
  ASSUME tokens' = tokens, fed \in Nat, fed' = fed + 1
  PROVE  /\ Cardinality(Runs) \in Nat
         /\ Cardinality(Runs') =
              Cardinality(Runs) +
                (IF fed = 0 \/ tokens[fed][1] % 3 # tokens[fed + 1][1] % 3 THEN 1 ELSE 0)
<1> DEFINE new == fed = 0 \/ tokens[fed][1] % 3 # tokens[fed + 1][1] % 3
<1>1. IsFiniteSet(Runs) /\ fed + 1 \notin Runs
  BY RunsFinite
<1>2. \A k \in 1 .. fed + 1 : k \in 1 .. fed \/ k = fed + 1
  OBVIOUS
<1>3. fed + 1 = 1 <=> fed = 0
  OBVIOUS
<1>4. (fed + 1) - 1 = fed /\ fed + 1 \in 1 .. fed + 1 /\ \A k \in 1 .. fed : k \in 1 .. fed + 1
  OBVIOUS
<1>5. Runs' = IF new THEN Runs \cup {fed + 1} ELSE Runs
  BY <1>2, <1>3, <1>4 DEF Runs
<1> HIDE DEF new
<1>6. Cardinality(Runs) \in Nat
  BY <1>1, FS_CardinalityType
<1>7. Cardinality(Runs \cup {fed + 1}) = Cardinality(Runs) + 1
  BY <1>1, FS_AddElement
<1> QED BY <1>5, <1>6, <1>7 DEF new

LEMMA CombineStep ==
  ASSUME IInv, CombineMove
  PROVE  IInv'
<1> DEFINE t == tokens[fed + 1]
           axis == t[1] % 3
           a == FaceTurn(t[1], TokenTimes(t[2]))
<1>0. /\ status = "running" /\ str # <<>> /\ ParseMove(str) # {} /\ CanCombine(accum, NextMove)
      /\ accum' = Combine(accum, NextMove) /\ str' = Parsed[3] /\ fed' = fed + 1
      /\ tokens' = tokens /\ out' = out /\ status' = status
  BY DEF CombineMove
<1>1. /\ fed + 1 \in 1 .. Len(tokens) /\ t \in Token /\ fed \in Nat /\ axis \in 0 .. 2
      /\ WellFormed(NextMove) /\ OfAxis(NextMove, axis) /\ ~IsEmpty(NextMove)
      /\ \A k \in 1 .. fed : ~IsMistake(tokens[k])
      /\ ~IsMistake(t) => a = <<axis, NextMove.times1, NextMove.times2>>
      /\ Reading'
  BY <1>0, TakenStep
<1>2. WellFormed(accum) /\ TranslateTypeOK /\ AxisOfLast
  BY AccumAxis DEF IInv
<1> HIDE DEF t, axis, a
<1>3. OfAxis(accum, axis)
  BY <1>0, <1>1, <1>2, CombinedAxis
<1>4. /\ WellFormed(accum') /\ OfAxis(accum', axis)
      /\ accum'.times1 = (accum.times1 + NextMove.times1) % 4
      /\ accum'.times2 = (accum.times2 + NextMove.times2) % 4
  BY <1>0, <1>1, <1>2, <1>3, CombineAdds
<1>5. TranslateTypeOK'
  <2>1. accum'.face1 # None /\ accum'.face2 # None => accum'.face1 % 3 = accum'.face2 % 3
    BY <1>4 DEF WellFormed, OfAxis
  <2> QED BY <1>0, <1>1, <1>2, <1>4, <2>1 DEF TranslateTypeOK, WellFormed
<1>6. AxisOfLast'
  BY <1>0, <1>1, <1>4 DEF AxisOfLast, axis, t
<1>7. SameSoFar'
  <2>1. SUFFICES ASSUME \A k \in 1 .. fed + 1 : ~IsMistake(tokens[k])
                 PROVE  Reduced(Made' \o Waiting') = Reduced(Asked')
    BY <1>0 DEF SameSoFar
  <2>2. ~IsMistake(t)
    BY <1>1, <2>1 DEF t
  <2>3. a = <<axis, NextMove.times1, NextMove.times2>>
    BY <1>1, <2>2
  <2>4. Reduced(Made \o Waiting) = Reduced(Asked)
    BY <1>1 DEF IInv, SameSoFar
  <2>5. Made \in Seq(TurnSet) /\ Made' = Made
    BY <1>0, MadeType DEF IInv, Made
  <2>6. /\ Waiting = <<FaceTurn(accum.face1, accum.times1), FaceTurn(accum.face2, accum.times2)>>
        /\ Waiting' = <<FaceTurn(accum'.face1, accum'.times1),
                        FaceTurn(accum'.face2, accum'.times2)>>
    BY <1>0 DEF Waiting
  <2> DEFINE l == <<axis, accum.times1, accum.times2>>
             m == <<axis, accum'.times1, accum'.times2>>
  <2>7. Reduced(Made \o Waiting) = Reduce(Reduced(Made), l)
    BY <1>1, <1>2, <1>3, <2>5, <2>6, WaitingAmounts
  <2>8. Reduced(Made \o Waiting') = Reduce(Reduced(Made), m)
    BY <1>1, <1>4, <2>5, <2>6, WaitingAmounts
  <2>9. Plus(l, a) = m /\ l[1] = a[1]
    BY <1>4, <2>3 DEF Plus
  <2>10. l \in TurnSet
    BY <1>1, <1>2 DEF TurnSet, WellFormed, Move
  <2>11. Asked \in Seq(TurnSet) /\ a \in TurnSet /\ Asked' = Append(Asked, a)
    BY <1>0, <1>1, <1>2, AskedStep DEF TranslateTypeOK, a, t
  <2> HIDE DEF l, m
  <2>12. Reduced(Asked') = Reduce(Reduce(Reduced(Made), l), a)
    BY <2>4, <2>7, <2>11, ReducedAppend
  <2>13. Reduce(Reduce(Reduced(Made), l), a) = Reduce(Reduced(Made), m)
    BY <2>5, <2>9, <2>10, <2>11, ReducedCanonical, ReduceTwice
  <2> QED BY <2>5, <2>8, <2>12, <2>13
<1>8. Verdict'
  BY <1>0 DEF Verdict, IInv
<1>9. ChargedSoFar'
  <2>1. Len(out) + (IF fed > 0 THEN 1 ELSE 0) <= Cardinality(Runs)
    BY <1>0 DEF IInv, ChargedSoFar
  <2>2. Cardinality(Runs) \in Nat /\ Len(out) \in Nat
    BY <1>0, <1>1, RunsStep DEF IInv
  <2>3. Cardinality(Runs') >= Cardinality(Runs)
        /\ (fed = 0 => Cardinality(Runs') = Cardinality(Runs) + 1)
    BY <1>0, <1>1, <2>2, RunsStep
  <2>4. Cardinality(Runs') \in Nat
    BY <1>0, <1>1, <2>2, RunsStep
  <2>5. Len(out) + 1 <= Cardinality(Runs')
    BY <1>1, <2>1, <2>2, <2>3, <2>4
  <2> QED BY <1>0, <1>1, <2>5 DEF ChargedSoFar
<1> QED BY <1>0, <1>1, <1>5, <1>6, <1>7, <1>8, <1>9 DEF IInv

\* A move that is not combined is of another axis than the one waiting, which
\* therefore is not empty.
LEMMA EmitStep ==
  ASSUME IInv, EmitMove
  PROVE  IInv'
<1> DEFINE t == tokens[fed + 1]
           axis == t[1] % 3
           a == FaceTurn(t[1], TokenTimes(t[2]))
           b == tokens[fed][1] % 3
<1>0. /\ status = "running" /\ str # <<>> /\ ParseMove(str) # {} /\ ~CanCombine(accum, NextMove)
      /\ accum' = NextMove /\ str' = Parsed[3] /\ fed' = fed + 1
      /\ tokens' = tokens /\ status' = status
  BY DEF EmitMove
<1>00. PICK c \in Lookup(accum) : out' = Append(out, c)
  BY DEF EmitMove
<1>1. /\ fed + 1 \in 1 .. Len(tokens) /\ t \in Token /\ fed \in Nat /\ axis \in 0 .. 2
      /\ WellFormed(NextMove) /\ OfAxis(NextMove, axis) /\ ~IsEmpty(NextMove)
      /\ \A k \in 1 .. fed : ~IsMistake(tokens[k])
      /\ ~IsMistake(t) => a = <<axis, NextMove.times1, NextMove.times2>>
      /\ Reading'
  BY <1>0, TakenStep
<1>2. WellFormed(accum) /\ TranslateTypeOK /\ AxisOfLast
      /\ (fed > 0 => OfAxis(accum, b) /\ b \in 0 .. 2)
  BY AccumAxis DEF IInv
<1> HIDE DEF t, axis, a, b
<1>3. ~OfAxis(accum, axis)
  BY <1>0, <1>1, <1>2, CombinedAxis
<1>4. ~IsEmpty(accum) /\ fed > 0 /\ b # axis /\ OfAxis(accum, b) /\ b \in 0 .. 2
  <2>1. ~IsEmpty(accum)
    BY <1>3 DEF OfAxis, IsEmpty
  <2> QED BY <2>1, <1>1, <1>2, <1>3 DEF AxisOfLast
<1>5. c \in Commands /\ CmdTurn(c) = <<b, accum.times1, accum.times2>>
  BY <1>00, <1>2, <1>4, Found DEF Commands
<1>6. /\ out' \in Seq(Commands) /\ Made' = Append(Made, CmdTurn(c)) /\ CmdTurn(c) \in TurnSet
      /\ Len(out') = Len(out) + 1
  <2>1. out \in Seq(Commands)
    BY DEF IInv
  <2>2. Len(out') = Len(out) + 1
    BY <1>00, <2>1
  <2> QED BY <1>00, <1>5, <2>1, <2>2, MadeStep
<1>7. TranslateTypeOK'
  <2>1. NextMove.face1 # None /\ NextMove.face2 # None => NextMove.face1 % 3 = NextMove.face2 % 3
    BY <1>1 DEF WellFormed, OfAxis
  <2> QED BY <1>0, <1>1, <1>2, <2>1 DEF TranslateTypeOK, WellFormed
<1>8. AxisOfLast'
  BY <1>0, <1>1 DEF AxisOfLast, axis, t
<1>9. SameSoFar'
  <2>1. SUFFICES ASSUME \A k \in 1 .. fed + 1 : ~IsMistake(tokens[k])
                 PROVE  Reduced(Made' \o Waiting') = Reduced(Asked')
    BY <1>0 DEF SameSoFar
  <2>2. ~IsMistake(t)
    BY <1>1, <2>1 DEF t
  <2>3. a = <<axis, NextMove.times1, NextMove.times2>>
    BY <1>1, <2>2
  <2>4. Reduced(Made \o Waiting) = Reduced(Asked)
    BY <1>1 DEF IInv, SameSoFar
  <2>5. Made \in Seq(TurnSet) /\ Made' \in Seq(TurnSet)
    BY <1>6, MadeType DEF IInv
  <2>6. /\ Waiting = <<FaceTurn(accum.face1, accum.times1), FaceTurn(accum.face2, accum.times2)>>
        /\ Waiting' = <<FaceTurn(NextMove.face1, NextMove.times1),
                        FaceTurn(NextMove.face2, NextMove.times2)>>
    BY <1>0 DEF Waiting
  <2>7. Reduced(Made \o Waiting) = Reduce(Reduced(Made), CmdTurn(c))
    BY <1>2, <1>4, <1>5, <2>5, <2>6, WaitingAmounts
  <2>8. Reduced(Made' \o Waiting') = Reduce(Reduced(Made'), a)
    BY <1>1, <2>3, <2>5, <2>6, WaitingAmounts
  <2>9. Reduced(Made') = Reduce(Reduced(Made), CmdTurn(c))
    BY <1>6, <2>5, ReducedAppend
  <2>10. Asked \in Seq(TurnSet) /\ a \in TurnSet /\ Asked' = Append(Asked, a)
    BY <1>0, <1>1, <1>2, AskedStep DEF TranslateTypeOK, a, t
  <2>11. Reduced(Asked') = Reduce(Reduced(Asked), a)
    BY <2>10, ReducedAppend
  <2> QED BY <2>4, <2>7, <2>8, <2>9, <2>11
<1>10. Verdict'
  BY <1>0 DEF Verdict, IInv
<1>11. ChargedSoFar'
  <2>1. Len(out) + 1 <= Cardinality(Runs)
    BY <1>0, <1>4 DEF IInv, ChargedSoFar
  <2>2. Cardinality(Runs) \in Nat /\ Len(out) \in Nat
    BY <1>0, <1>1, RunsStep DEF IInv
  <2>3. Cardinality(Runs') = Cardinality(Runs) + 1
    BY <1>0, <1>1, <1>4, RunsStep DEF b, axis, t
  <2>4. Len(out') + 1 <= Cardinality(Runs')
    BY <1>6, <2>1, <2>2, <2>3
  <2> QED BY <1>0, <1>1, <2>4 DEF ChargedSoFar
<1> QED BY <1>1, <1>6, <1>7, <1>8, <1>9, <1>10, <1>11 DEF IInv

LEMMA FinishStep ==
  ASSUME IInv, Finish
  PROVE  IInv'
<1>0. /\ status = "running" /\ str = <<>> /\ status' = "returned"
      /\ tokens' = tokens /\ fed' = fed /\ str' = str /\ accum' = accum
  BY DEF Finish
<1>1. /\ TranslateTypeOK /\ AxisOfLast /\ out \in Seq(Commands) /\ tokens \in Seq(Token)
      /\ fed \in 0 .. Len(tokens) /\ Len(tokens) \in Nat
  BY DEF IInv, TranslateTypeOK
<1>2. WellFormed(accum) /\ (\E axis \in 0 .. 2 : OfAxis(accum, axis))
      /\ (fed > 0 => OfAxis(accum, tokens[fed][1] % 3) /\ tokens[fed][1] % 3 \in 0 .. 2)
  BY <1>1, AccumAxis
<1>3. PICK axis \in 0 .. 2 : OfAxis(accum, axis)
  BY <1>2
<1>4. fed = Len(tokens) /\ \A k \in 1 .. fed : ~IsMistake(tokens[k])
  <2>1. PICK n \in Nat : Left(n)
    BY <1>0 DEF IInv, Reading, Misread
  <2>2. Text(tokens, n)[Len(tokens) - fed] = <<>>
    BY <1>0, <2>1 DEF Left
  <2>3. fed = Len(tokens)
    <3>1. SUFFICES ASSUME fed # Len(tokens) PROVE FALSE
      OBVIOUS
    <3> DEFINE k == Len(tokens) - (fed + 1)
    <3>2. k \in 0 .. Len(tokens) - 1 /\ k \in 0 .. Len(tokens) /\ k + 1 = Len(tokens) - fed
          /\ Len(tokens) - k \in 1 .. Len(tokens)
      BY <1>1, <3>1
    <3> HIDE DEF k
    <3>3. tokens[Len(tokens) - k] \in Token
      BY <1>1, <3>2
    <3>4. Text(tokens, n)[k] \in Texts
          /\ Text(tokens, n)[k + 1]
                = TokenText(tokens[Len(tokens) - k]) \o Blanks(n) \o Text(tokens, n)[k]
      BY <1>1, <3>2, TextSteps
    <3>5. Text(tokens, n)[k + 1] # <<>>
      BY <3>3, <3>4, AfterToken
    <3> QED BY <2>2, <3>2, <3>5
  <2> QED BY <2>1, <2>3 DEF Left
<1>5. Waiting' = <<>> /\ Asked' = Asked /\ Runs' = Runs
  BY <1>0 DEF Waiting, Asked, Runs
<1>6. Made \in Seq(TurnSet)
  BY <1>1, MadeType
<1>7. Reduced(Asked) = Reduce(Reduced(Made), <<axis, accum.times1, accum.times2>>)
  <2>1. Waiting = <<FaceTurn(accum.face1, accum.times1), FaceTurn(accum.face2, accum.times2)>>
    BY <1>0 DEF Waiting
  <2>2. Reduced(Made \o Waiting) = Reduced(Asked)
    BY <1>4 DEF IInv, SameSoFar
  <2> QED BY <1>2, <1>3, <1>6, <2>1, <2>2, WaitingAmounts
<1>8. /\ out' \in Seq(Commands) /\ Made' \in Seq(TurnSet) /\ Reduced(Made') = Reduced(Asked)
      /\ Len(out') <= Len(out) + 1 /\ (fed = 0 => Len(out') = Len(out))
      /\ Len(out') \in Nat
  <2>1. CASE IsEmpty(accum)
    <3>1. out' = out
      BY <2>1 DEF Finish
    <3>2. Made' = Made
      BY <3>1 DEF Made
    <3>3. IsZero(<<axis, accum.times1, accum.times2>>)
      BY <2>1 DEF IsEmpty, IsZero
    <3>4. Reduced(Made) = Reduced(Asked)
      BY <1>7, <3>3, ReduceZero
    <3> QED BY <1>1, <1>6, <3>1, <3>2, <3>4
  <2>2. CASE ~IsEmpty(accum)
    <3>1. PICK c \in Lookup(accum) : out' = Append(out, c)
      BY <2>2 DEF Finish
    <3>2. c \in Commands /\ CmdTurn(c) = <<axis, accum.times1, accum.times2>>
      BY <1>2, <1>3, <2>2, <3>1, Found DEF Commands
    <3>3. /\ out' \in Seq(Commands) /\ Made' = Append(Made, CmdTurn(c)) /\ CmdTurn(c) \in TurnSet
      BY <1>1, <3>1, <3>2, MadeStep
    <3>4. Reduced(Made') = Reduce(Reduced(Made), CmdTurn(c)) /\ Made' \in Seq(TurnSet)
      BY <1>6, <3>3, ReducedAppend
    <3>5. fed # 0
      BY <1>1, <2>2 DEF AxisOfLast
    <3>6. Len(out') = Len(out) + 1 /\ Len(out) \in Nat
      BY <1>1, <3>1
    <3> QED BY <1>7, <3>2, <3>3, <3>4, <3>5, <3>6
  <2> QED BY <2>1, <2>2
<1>9. TranslateTypeOK'
  BY <1>0, <1>1 DEF TranslateTypeOK
<1>10. Reading'
  BY <1>0 DEF IInv, Reading, Left, Misread
<1>11. AxisOfLast'
  BY <1>0, <1>1 DEF AxisOfLast
<1>12. SameSoFar'
  <2>1. Made' \o <<>> = Made'
    BY <1>8
  <2> QED BY <1>5, <1>8, <2>1 DEF SameSoFar
<1>13. Verdict'
  BY <1>0, <1>1, <1>4 DEF Verdict
<1>14. ChargedSoFar'
  <2>1. Len(out) + (IF fed > 0 THEN 1 ELSE 0) <= Cardinality(Runs)
    BY <1>0 DEF IInv, ChargedSoFar
  <2>2. Len(out) \in Nat /\ Cardinality(Runs) \in Nat
    BY <1>1, RunsFinite
  <2>3. Len(out') <= Cardinality(Runs)
    BY <1>1, <1>8, <2>1, <2>2
  <2>4. Len(out') + 0 = Len(out')
    BY <1>8
  <2> QED BY <1>0, <1>5, <2>3, <2>4 DEF ChargedSoFar
<1> QED BY <1>8, <1>9, <1>10, <1>11, <1>12, <1>13, <1>14 DEF IInv

\* An exception is that of parseMove: the table has what can be waiting.
LEMMA ThrowStep ==
  ASSUME IInv, ThrowMove
  PROVE  IInv'
<1>0. /\ status = "running" /\ status' = "thrown"
      /\ tokens' = tokens /\ fed' = fed /\ str' = str /\ accum' = accum /\ out' = out
  BY DEF ThrowMove
<1>1. WellFormed(accum) /\ \E axis \in 0 .. 2 : OfAxis(accum, axis)
  BY AccumAxis DEF IInv
<1>2. ~NotInTable
  BY <1>1, Found DEF NotInTable
<1>3. str # <<>> /\ ParseMove(str) = {}
  BY <1>2 DEF ThrowMove
<1>4. \E k \in DOMAIN tokens : IsMistake(tokens[k])
  BY <1>3, WhatIsParsed DEF IInv
<1>5. TranslateTypeOK' /\ Reading' /\ AxisOfLast' /\ out' \in Seq(Commands)
  BY <1>0 DEF IInv, TranslateTypeOK, Reading, Left, Misread, AxisOfLast
<1>6. SameSoFar'
  <2>1. Made' = Made /\ Waiting' = Waiting /\ Asked' = Asked
    BY <1>0 DEF Made, Waiting, Asked
  <2> QED BY <1>0, <2>1 DEF IInv, SameSoFar
<1>7. Verdict' /\ ChargedSoFar'
  BY <1>0, <1>4 DEF Verdict, ChargedSoFar
<1> QED BY <1>5, <1>6, <1>7 DEF IInv

LEMMA StutterStep ==
  ASSUME IInv, UNCHANGED translateVars
  PROVE  IInv'
BY DEF translateVars, IInv, TranslateTypeOK, Reading, Left, Misread, AxisOfLast, SameSoFar, Verdict,
       ChargedSoFar, Made, Waiting, Asked, Runs

LEMMA SpecIInv == TranslateSpec => []IInv
<1>1. TranslateInit => IInv
  BY InitIInv
<1>2. IInv /\ [TranslateNext]_translateVars => IInv'
  BY CombineStep, EmitStep, FinishStep, ThrowStep, StutterStep DEF TranslateNext
<1> QED BY <1>1, <1>2, PTL DEF TranslateSpec

\* A move that waits turns one face or two opposite ones, and never by nothing.
THEOREM TranslationTypeCorrect == TranslateSpec => []TranslateTypeOK
<1>1. IInv => TranslateTypeOK
  BY DEF IInv
<1> QED BY <1>1, SpecIInv, PTL

\* However long a text is, however its turns are written and spaced: the commands
\* that translateMoves makes of it turn the cube as it says, and it throws exactly
\* when a turn is not written as parseMove documents.
THEOREM SameEffectCorrect == TranslateSpec => []SameEffect
<1>1. IInv => SameEffect
  BY DEF IInv, SameSoFar, Verdict, SameEffect
<1> QED BY <1>1, SpecIInv, PTL

LEMMA HalfTurnsCharged ==
  ASSUME out \in Seq(Commands)
  PROVE  HalfTurns(out)
           = Cardinality({k \in DOMAIN out : 2 \in {Turned(out[k])[1], Turned(out[k])[2]}})
<1>1. ASSUME NEW c \in Commands
      PROVE  c \in HalfTurnMoves <=> 2 \in {Turned(c)[1], Turned(c)[2]}
  <2>1. PICK p \in 1 .. 3, k \in 1 .. 15 : c = Letter[p][k]
    BY DEF Commands
  <2>2. Turned(c) = <<Times[k][1], Times[k][2]>>
    BY <2>1, CmdOfLetter, QuartersOfTurns DEF Turned
  <2> QED BY <2>1, <2>2, HalfTurnsOfTable
<1>2. \A k \in DOMAIN out : out[k] \in Commands
  OBVIOUS
<1>3. {k \in DOMAIN out : out[k] \in HalfTurnMoves}
      = {k \in DOMAIN out : 2 \in {Turned(out[k])[1], Turned(out[k])[2]}}
  BY <1>1, <1>2
<1> QED BY <1>3 DEF HalfTurns

\* A run of turns of one axis becomes at most one command, and the estimate of the
\* time charges half turns for the commands in which the firmware makes one.
THEOREM CommandsChargedCorrect == TranslateSpec => []CommandsCharged
<1>1. ASSUME IInv PROVE CommandsCharged
  <2>1. status # "thrown" =>
          Len(out) + (IF Waiting = <<>> \/ IsEmpty(accum) THEN 0 ELSE 1) <= Cardinality(Runs)
    <3> SUFFICES ASSUME status # "thrown"
                 PROVE  Len(out) + (IF Waiting = <<>> \/ IsEmpty(accum) THEN 0 ELSE 1)
                          <= Cardinality(Runs)
      OBVIOUS
    <3>1. Len(out) + (IF status = "running" /\ fed > 0 THEN 1 ELSE 0) <= Cardinality(Runs)
      BY <1>1 DEF IInv, ChargedSoFar
    <3>2. Len(out) \in Nat /\ Cardinality(Runs) \in Nat
      BY <1>1, RunsFinite DEF IInv, TranslateTypeOK
    <3>3. CASE status = "returned"
      <4>1. Waiting = <<>>
        BY <3>3 DEF Waiting
      <4> QED BY <3>1, <3>2, <3>3, <4>1
    <3>4. CASE status = "running"
      <4>1. fed = 0 => IsEmpty(accum)
        BY <1>1 DEF IInv, AxisOfLast
      <4>2. fed \in Nat
        BY <1>1 DEF IInv, TranslateTypeOK
      <4> QED BY <3>1, <3>2, <3>4, <4>1, <4>2
    <3> QED BY <1>1, <3>3, <3>4 DEF IInv, TranslateTypeOK
  <2> QED BY <1>1, <2>1, HalfTurnsCharged DEF IInv, CommandsCharged
<1>2. IInv => CommandsCharged
  BY <1>1
<1> QED BY <1>2, SpecIInv, PTL
=============================================================================
