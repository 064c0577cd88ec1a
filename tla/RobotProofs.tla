------------------------------ MODULE RobotProofs ------------------------------
(***************************************************************************)
(* For every cube, solver, set of commands and calibration, whatever keys  *)
(* are pressed, whenever the board is reset, the camera looks and the ten  *)
(* seconds are over: a clean program has what it waits for on the line,    *)
(* turns with the motors held at the speed it chose, and leaves them off.  *)
(*                                                                         *)
(* IInv is in Robot.  The first part shows that what runProgram is given   *)
(* has the shape that IInv needs; then each conjunct of IInv is kept.      *)
(***************************************************************************)
EXTENDS Robot, FirmwareProofs, SequenceTheorems

-----------------------------------------------------------------------------
(***************************************************************************)
(* The shape of programs.                                                  *)
(***************************************************************************)

\* The fields of an instruction.
LEMMA InstFields ==
  \A o, s, n : Inst(o, s, n).op = o /\ Inst(o, s, n).str = s
BY DEF Inst

\* What may stand between powering on and powering off.
Inside(p) ==
  /\ Paired(p)
  /\ \A k \in 1 .. Len(p) : p[k].op = "Send" => p[k].str \in Seq(Turn)

\* Where the instructions of two parts are when one follows the other.
LEMMA Appended ==
  ASSUME NEW p \in Seq(Instruction), NEW q \in Seq(Instruction)
  PROVE  /\ p \o q \in Seq(Instruction) /\ Len(p \o q) = Len(p) + Len(q)
         /\ Len(p) \in Nat /\ Len(q) \in Nat
         /\ \A k \in 1 .. Len(p) : (p \o q)[k] = p[k]
         /\ \A k \in 1 .. Len(q) : (p \o q)[Len(p) + k] = q[k]
<1> DEFINE pq == p \o q
<1>1. Len(p) \in Nat /\ Len(q) \in Nat
  OBVIOUS
<1>2. /\ pq \in Seq(Instruction) /\ Len(pq) = Len(p) + Len(q)
      /\ \A i \in 1 .. Len(p) + Len(q) :
           pq[i] = IF i <= Len(p) THEN p[i] ELSE q[i - Len(p)]
  BY ConcatProperties
<1> HIDE DEF pq
<1>3. \A k \in 1 .. Len(q) : Len(p) + k \in 1 .. Len(p) + Len(q) /\ ~(Len(p) + k <= Len(p))
        /\ Len(p) + k - Len(p) = k
  BY <1>1
<1>4. \A k \in 1 .. Len(p) : k \in 1 .. Len(p) + Len(q) /\ k <= Len(p)
  BY <1>1
<1>5. \A k \in 1 .. Len(p) : pq[k] = p[k]
  BY <1>2, <1>4
<1>6. \A k \in 1 .. Len(q) : pq[Len(p) + k] = q[k]
  BY <1>2, <1>3
<1> QED BY <1>1, <1>2, <1>5, <1>6 DEF pq

\* The parts of a program one after the other are a program.
LEMMA PairedConcat ==
  ASSUME NEW p, NEW q, Paired(p), Paired(q)
  PROVE  Paired(p \o q)
<1> DEFINE pq == p \o q
<1>1. p \in Seq(Instruction) /\ q \in Seq(Instruction)
  BY DEF Paired
<1>2. /\ pq \in Seq(Instruction) /\ Len(pq) = Len(p) + Len(q)
      /\ Len(p) \in Nat /\ Len(q) \in Nat
      /\ \A k \in 1 .. Len(p) : pq[k] = p[k]
      /\ \A k \in 1 .. Len(q) : pq[Len(p) + k] = q[k]
  BY <1>1, Appended
<1> HIDE DEF pq
<1>3. ASSUME NEW k \in 1 .. Len(pq)
      PROVE  /\ pq[k].op = "Send" => k < Len(pq) /\ pq[k + 1].op = "Expect"
             /\ pq[k].op = "Expect" =>
                  k > 1 /\ pq[k - 1].op = "Send" /\ pq[k - 1].str = pq[k].str
  <2>1. CASE k <= Len(p)
    <3>1. k \in 1 .. Len(p) /\ pq[k] = p[k]
      BY <1>2, <2>1
    <3>2. p[k].op = "Send" => k < Len(p) /\ p[k + 1].op = "Expect"
      BY <3>1 DEF Paired
    <3>3. p[k].op = "Expect" => k > 1 /\ p[k - 1].op = "Send" /\ p[k - 1].str = p[k].str
      BY <3>1 DEF Paired
    <3>4. k < Len(p) => pq[k + 1] = p[k + 1]
      <4>1. k < Len(p) => k + 1 \in 1 .. Len(p)
        BY <1>2, <3>1
      <4> QED BY <1>2, <4>1
    <3>5. k > 1 => pq[k - 1] = p[k - 1]
      <4>1. k > 1 => k - 1 \in 1 .. Len(p)
        BY <1>2, <3>1
      <4> QED BY <1>2, <4>1
    <3> QED BY <1>2, <3>1, <3>2, <3>3, <3>4, <3>5
  <2>2. CASE k > Len(p)
    <3> DEFINE j == k - Len(p)
    <3>1. j \in 1 .. Len(q) /\ k = Len(p) + j /\ pq[k] = q[j]
      BY <1>2, <2>2
    <3>2. q[j].op = "Send" => j < Len(q) /\ q[j + 1].op = "Expect"
      BY <3>1 DEF Paired
    <3>3. q[j].op = "Expect" => j > 1 /\ q[j - 1].op = "Send" /\ q[j - 1].str = q[j].str
      BY <3>1 DEF Paired
    <3>4. j < Len(q) => j + 1 \in 1 .. Len(q) /\ k + 1 = Len(p) + (j + 1)
      BY <1>2, <3>1
    <3>5. j > 1 => j - 1 \in 1 .. Len(q) /\ k - 1 = Len(p) + (j - 1)
      BY <1>2, <3>1
    <3>6. /\ j < Len(q) => pq[k + 1] = q[j + 1]
          /\ j > 1 => pq[k - 1] = q[j - 1]
      BY <1>2, <3>4, <3>5
    <3> QED BY <1>2, <3>1, <3>2, <3>3, <3>6
  <2> QED BY <1>2, <2>1, <2>2
<1>4. Paired(pq)
  BY <1>2, <1>3 DEF Paired
<1> QED BY <1>4 DEF pq

\* So are the parts of what stands between powering on and off.
LEMMA InsideConcat ==
  ASSUME NEW p, NEW q, Inside(p), Inside(q)
  PROVE  Inside(p \o q)
<1>1. Paired(p \o q)
  BY PairedConcat DEF Inside
<1>2. p \in Seq(Instruction) /\ q \in Seq(Instruction)
  BY DEF Inside, Paired
<1>3. ASSUME NEW k \in 1 .. Len(p \o q), (p \o q)[k].op = "Send"
      PROVE  (p \o q)[k].str \in Seq(Turn)
  <2>1. CASE k <= Len(p)
    BY <1>2, <1>3, <2>1 DEF Inside
  <2>2. CASE k > Len(p)
    <3>1. k - Len(p) \in 1 .. Len(q) /\ (p \o q)[k] = q[k - Len(p)]
      BY <1>2, <2>2
    <3> QED BY <1>3, <3>1 DEF Inside
  <2> QED BY <1>2, <2>1, <2>2
<1> QED BY <1>1, <1>3 DEF Inside

\* Turns are bytes of programs; so are On and Off.
LEMMA PlainStrings ==
  /\ \A s \in Seq(Turn) : s \in Seq(Plain)
  /\ \A d \in Digit : On(d) \in Seq(Plain) /\ Len(On(d)) = 2
       /\ On(d)[1] = d /\ On(d)[2] = "["
  /\ Off \in Seq(Plain) /\ Len(Off) = 2 /\ Off[1] = "]" /\ Off[2] = "]"
  /\ \A s \in Seq(Plain) : s \in Seq(Byte) /\ s \in Seq(Said)
<1>1. Turn \subseteq Plain /\ Plain \subseteq Byte /\ Byte \subseteq Said
  BY DEF Plain, Byte, Switch, Said
<1>2. \A d \in Digit : On(d) \in Seq(Plain)
  BY DEF On, Plain
<1>3. Off \in Seq(Plain)
  BY DEF Off, Plain
<1>4. \A s \in Seq(Turn) : s \in Seq(Plain)
  BY <1>1, SeqMonotone
<1>5. \A s \in Seq(Plain) : s \in Seq(Byte)
  BY <1>1, SeqMonotone
<1>6. \A s \in Seq(Byte) : s \in Seq(Said)
  BY <1>1, SeqMonotone
<1> QED BY <1>2, <1>3, <1>4, <1>5, <1>6 DEF On, Off

\* A command string and its echo.
LEMMA SayShape ==
  ASSUME NEW s \in Seq(Plain)
  PROVE  /\ Paired(Say(s)) /\ Len(Say(s)) = 2
         /\ Say(s)[1] = Inst("Send", s, 0) /\ Say(s)[2] = Inst("Expect", s, 0)
<1>1. Inst("Send", s, 0) \in Instruction /\ Inst("Expect", s, 0) \in Instruction
  BY DEF Inst, Instruction, OpName
<1>2. /\ Say(s) \in Seq(Instruction) /\ Len(Say(s)) = 2
      /\ Say(s)[1] = Inst("Send", s, 0) /\ Say(s)[2] = Inst("Expect", s, 0)
  BY <1>1 DEF Say
<1> QED BY <1>2 DEF Paired, Inst

\* Turns said between powering on and off.
LEMMA SayInside ==
  ASSUME NEW s \in Seq(Turn)
  PROVE  Inside(Say(s))
<1>1. s \in Seq(Plain)
  BY PlainStrings
<1>2. /\ Len(Say(s)) = 2 /\ Paired(Say(s))
      /\ Say(s)[1] = Inst("Send", s, 0) /\ Say(s)[2] = Inst("Expect", s, 0)
  BY <1>1, SayShape
<1>3. Say(s)[1].str = s /\ Say(s)[2].str = s
  BY <1>2 DEF Inst
<1>4. \A k \in 1 .. 2 : k = 1 \/ k = 2
  OBVIOUS
<1> QED BY <1>2, <1>3, <1>4 DEF Inside

\* An instruction of its own.
LEMMA OneInside ==
  ASSUME NEW op \in OpName \ {"Send", "Expect"}, NEW n \in Nat
  PROVE  Inside(<<Inst(op, <<>>, n)>>)
<1>1. Inst(op, <<>>, n) \in Instruction
  BY DEF Inst, Instruction
<1> QED BY <1>1 DEF Inside, Paired, Inst

\* What four instructions in a row are.
LEMMA FourInARow ==
  ASSUME NEW a, NEW b, NEW c, NEW d, NEW r, r = (<<a>> \o <<b, c>>) \o <<d>>
  PROVE  r[1] = a /\ r[2] = b /\ r[3] = c /\ r[4] = d
<1> DEFINE T == {a, b, c, d}
<1>1. <<a>> \in Seq(T) /\ <<b, c>> \in Seq(T) /\ <<d>> \in Seq(T)
      /\ Len(<<a>>) = 1 /\ Len(<<b, c>>) = 2 /\ Len(<<d>>) = 1
  OBVIOUS
<1>2. /\ <<a>> \o <<b, c>> \in Seq(T) /\ Len(<<a>> \o <<b, c>>) = 3
      /\ (<<a>> \o <<b, c>>)[1] = a
      /\ (<<a>> \o <<b, c>>)[2] = b
      /\ (<<a>> \o <<b, c>>)[3] = c
  <2>1. /\ <<a>> \o <<b, c>> \in Seq(T) /\ Len(<<a>> \o <<b, c>>) = Len(<<a>>) + Len(<<b, c>>)
        /\ \A i \in 1 .. Len(<<a>>) + Len(<<b, c>>) :
             (<<a>> \o <<b, c>>)[i] = IF i <= Len(<<a>>) THEN <<a>>[i] ELSE <<b, c>>[i - Len(<<a>>)]
    BY <1>1, ConcatProperties
  <2> QED BY <1>1, <2>1
<1> DEFINE s == <<a>> \o <<b, c>>
<1> HIDE DEF s, T
<1>3. \A i \in 1 .. 4 : r[i] = IF i <= 3 THEN s[i] ELSE <<d>>[i - 3]
  <2>1. \A i \in 1 .. Len(s) + Len(<<d>>) :
          (s \o <<d>>)[i] = IF i <= Len(s) THEN s[i] ELSE <<d>>[i - Len(s)]
    BY <1>1, <1>2, ConcatProperties DEF s
  <2>2. r = s \o <<d>> /\ Len(s) = 3
    BY <1>2 DEF s
  <2> QED BY <1>1, <2>1, <2>2
<1> QED BY <1>2, <1>3 DEF s

\* The rounds of the calibration: four instructions for each command string.
LEMMA RoundsAre ==
  ASSUME NEW op \in {"SnapCal", "ValidateCal"}
  PROVE  /\ CalRounds(op) \in Seq(Instruction) /\ Len(CalRounds(op)) = 4 * Len(Rotation)
         /\ Len(Rotation) \in Nat
         /\ \A n \in 1 .. Len(Rotation) :
              /\ <<Rotation[n]>> \in Seq(Turn)
              /\ CalRounds(op)[4 * n - 3] = Inst(op, <<>>, n)
              /\ CalRounds(op)[4 * n - 2] = Inst("Send", <<Rotation[n]>>, 0)
              /\ CalRounds(op)[4 * n - 1] = Inst("Expect", <<Rotation[n]>>, 0)
              /\ CalRounds(op)[4 * n] = Inst("WaitMicros", <<>>, 0)
<1> DEFINE R == CalRounds(op)
           N(k) == ((k - 1) \div 4) + 1
           Q(k) == (k - 1) % 4
           S(k) == <<Rotation[N(k)]>>
           Round(k) == (<<Inst(op, <<>>, N(k))>> \o <<Inst("Send", S(k), 0), Inst("Expect", S(k), 0)>>)
                         \o <<Inst("WaitMicros", <<>>, 0)>>
<1>1. Len(Rotation) \in Nat /\ \A n \in 1 .. Len(Rotation) : Rotation[n] \in Turn
  BY CalAssumption
<1>2. ASSUME NEW k \in 1 .. 4 * Len(Rotation)
      PROVE  N(k) \in 1 .. Len(Rotation) /\ Q(k) \in 0 .. 3
  BY <1>1, Z3
<1>3. ASSUME NEW k \in 1 .. 4 * Len(Rotation)
      PROVE  R[k] = Round(k)[Q(k) + 1]
  BY DEF CalRounds, Say, Wait
<1>4. R = [k \in 1 .. 4 * Len(Rotation) |-> R[k]]
  BY DEF CalRounds
<1>10. ASSUME NEW n \in 1 .. Len(Rotation)
       PROVE  /\ {4 * n - 3, 4 * n - 2, 4 * n - 1, 4 * n} \subseteq 1 .. 4 * Len(Rotation)
              /\ N(4 * n - 3) = n /\ N(4 * n - 2) = n /\ N(4 * n - 1) = n /\ N(4 * n) = n
              /\ Q(4 * n - 3) = 0 /\ Q(4 * n - 2) = 1 /\ Q(4 * n - 1) = 2 /\ Q(4 * n) = 3
  BY <1>1, Z3
<1> HIDE DEF R, N, Q
<1>5. ASSUME NEW k \in 1 .. 4 * Len(Rotation)
      PROVE  S(k) \in Seq(Turn) /\ S(k) \in Seq(Plain)
  <2>1. S(k) \in Seq(Turn)
    BY <1>1, <1>2
  <2> QED BY <2>1, PlainStrings
<1> HIDE DEF S
<1>6. ASSUME NEW k \in 1 .. 4 * Len(Rotation)
      PROVE  /\ Q(k) = 0 => R[k] = Inst(op, <<>>, N(k))
             /\ Q(k) = 1 => R[k] = Inst("Send", S(k), 0)
             /\ Q(k) = 2 => R[k] = Inst("Expect", S(k), 0)
             /\ Q(k) = 3 => R[k] = Inst("WaitMicros", <<>>, 0)
  <2> DEFINE r == Round(k)
  <2>1. r = (<<Inst(op, <<>>, N(k))>> \o <<Inst("Send", S(k), 0), Inst("Expect", S(k), 0)>>)
               \o <<Inst("WaitMicros", <<>>, 0)>>
    OBVIOUS
  <2>2. R[k] = r[Q(k) + 1]
    BY <1>3
  <2> HIDE DEF r
  <2>3. r[1] = Inst(op, <<>>, N(k)) /\ r[2] = Inst("Send", S(k), 0)
        /\ r[3] = Inst("Expect", S(k), 0) /\ r[4] = Inst("WaitMicros", <<>>, 0)
    BY <2>1, FourInARow
  <2> QED BY <2>2, <2>3
<1>7. R \in Seq(Instruction) /\ Len(R) = 4 * Len(Rotation)
  <2>1. ASSUME NEW k \in 1 .. 4 * Len(Rotation)
        PROVE  R[k] \in Instruction
    <3>1. N(k) \in Nat /\ (Q(k) = 0 \/ Q(k) = 1 \/ Q(k) = 2 \/ Q(k) = 3)
      BY <1>1, <1>2
    <3>2. <<>> \in Seq(Plain) /\ S(k) \in Seq(Plain)
      BY <1>5
    <3>3. op \in OpName /\ {"Send", "Expect", "WaitMicros"} \subseteq OpName
      BY DEF OpName
    <3>4. /\ Inst(op, <<>>, N(k)) \in Instruction
          /\ Inst("Send", S(k), 0) \in Instruction
          /\ Inst("Expect", S(k), 0) \in Instruction
          /\ Inst("WaitMicros", <<>>, 0) \in Instruction
      BY <3>1, <3>2, <3>3 DEF Inst, Instruction
    <3> QED BY <3>1, <3>4, <1>6
  <2>2. 4 * Len(Rotation) \in Nat
    BY <1>1
  <2>3. R \in [1 .. 4 * Len(Rotation) -> Instruction]
    BY <1>4, <2>1
  <2> QED BY <2>2, <2>3
<1>8. ASSUME NEW n \in 1 .. Len(Rotation)
      PROVE  /\ <<Rotation[n]>> \in Seq(Turn)
             /\ R[4 * n - 3] = Inst(op, <<>>, n)
             /\ R[4 * n - 2] = Inst("Send", <<Rotation[n]>>, 0)
             /\ R[4 * n - 1] = Inst("Expect", <<Rotation[n]>>, 0)
             /\ R[4 * n] = Inst("WaitMicros", <<>>, 0)
  <2>1. S(4 * n - 2) = <<Rotation[n]>> /\ S(4 * n - 1) = <<Rotation[n]>>
    BY <1>10 DEF S
  <2>2. <<Rotation[n]>> \in Seq(Turn)
    BY <1>1
  <2> QED BY <1>6, <1>10, <2>1, <2>2
<1> QED BY <1>1, <1>7, <1>8 DEF R

\* They may stand inside.
LEMMA RoundsInside ==
  ASSUME NEW op \in {"SnapCal", "ValidateCal"}
  PROVE  Inside(CalRounds(op))
<1> DEFINE R == CalRounds(op)
<1>1. /\ R \in Seq(Instruction) /\ Len(R) = 4 * Len(Rotation) /\ Len(Rotation) \in Nat
      /\ \A n \in 1 .. Len(Rotation) :
           /\ <<Rotation[n]>> \in Seq(Turn)
           /\ R[4 * n - 3] = Inst(op, <<>>, n)
           /\ R[4 * n - 2] = Inst("Send", <<Rotation[n]>>, 0)
           /\ R[4 * n - 1] = Inst("Expect", <<Rotation[n]>>, 0)
           /\ R[4 * n] = Inst("WaitMicros", <<>>, 0)
  BY RoundsAre
<1> HIDE DEF R
<1>2. ASSUME NEW k \in 1 .. Len(R)
      PROVE  /\ R[k].op = "Send" =>
                  k < Len(R) /\ R[k + 1].op = "Expect" /\ R[k].str \in Seq(Turn)
             /\ R[k].op = "Expect" => k > 1 /\ R[k - 1].op = "Send" /\ R[k - 1].str = R[k].str
  <2>1. PICK n \in 1 .. Len(Rotation) :
          k = 4 * n - 3 \/ k = 4 * n - 2 \/ k = 4 * n - 1 \/ k = 4 * n
    <3>1. /\ (k + 3) \div 4 \in 1 .. Len(Rotation)
          /\ \/ k = 4 * ((k + 3) \div 4) - 3 \/ k = 4 * ((k + 3) \div 4) - 2
             \/ k = 4 * ((k + 3) \div 4) - 1 \/ k = 4 * ((k + 3) \div 4)
      BY <1>1, Z3
    <3> QED BY <3>1
  <2>2. /\ R[4 * n - 3].op = op /\ R[4 * n].op = "WaitMicros"
        /\ R[4 * n - 2].op = "Send" /\ R[4 * n - 2].str = <<Rotation[n]>>
        /\ R[4 * n - 1].op = "Expect" /\ R[4 * n - 1].str = <<Rotation[n]>>
        /\ <<Rotation[n]>> \in Seq(Turn) /\ op # "Send" /\ op # "Expect"
    <3> DEFINE t == <<Rotation[n]>>
    <3>1. /\ R[4 * n - 3] = Inst(op, <<>>, n) /\ R[4 * n] = Inst("WaitMicros", <<>>, 0)
          /\ R[4 * n - 2] = Inst("Send", t, 0) /\ R[4 * n - 1] = Inst("Expect", t, 0)
          /\ t \in Seq(Turn)
      BY <1>1
    <3> HIDE DEF t
    <3>2. /\ R[4 * n - 3].op = op /\ R[4 * n].op = "WaitMicros"
          /\ R[4 * n - 2].op = "Send" /\ R[4 * n - 2].str = t
          /\ R[4 * n - 1].op = "Expect" /\ R[4 * n - 1].str = t
      BY <3>1, InstFields
    <3> QED BY <3>1, <3>2 DEF t
  <2>3. k = 4 * n - 2 => k < Len(R) /\ k + 1 = 4 * n - 1
    BY <1>1
  <2>4. k = 4 * n - 1 => k > 1 /\ k - 1 = 4 * n - 2
    BY <1>1
  <2> QED BY <2>1, <2>2, <2>3, <2>4
<1>3. Inside(R)
  BY <1>1, <1>2 DEF Inside, Paired
<1> QED BY <1>3 DEF R

\* A program that powers on, does what may stand inside, and powers off.
LEMMA EnclosedProgram ==
  ASSUME NEW d \in Digit, NEW mid, Inside(mid)
  PROVE  Paired((Say(On(d)) \o mid) \o Say(Off)) /\ Enclosed((Say(On(d)) \o mid) \o Say(Off))
<1> DEFINE on == Say(On(d))
           off == Say(Off)
           p == (on \o mid) \o off
<1>1. /\ Paired(on) /\ Len(on) = 2 /\ on[1] = Inst("Send", On(d), 0)
      /\ Paired(off) /\ Len(off) = 2 /\ off[1] = Inst("Send", Off, 0)
  BY SayShape, PlainStrings
<1> HIDE DEF on, off
<1>2. Paired(mid)
  BY DEF Inside
<1>3. Paired(p)
  BY <1>1, <1>2, PairedConcat
<1>4. /\ on \in Seq(Instruction) /\ mid \in Seq(Instruction) /\ off \in Seq(Instruction)
      /\ Len(mid) \in Nat
  BY <1>1, <1>2 DEF Paired
<1>5. /\ on \o mid \in Seq(Instruction) /\ Len(on \o mid) = 2 + Len(mid)
      /\ \A i \in 1 .. 2 + Len(mid) : (on \o mid)[i] = IF i <= 2 THEN on[i] ELSE mid[i - 2]
  <2>1. /\ on \o mid \in Seq(Instruction) /\ Len(on \o mid) = Len(on) + Len(mid)
        /\ \A i \in 1 .. Len(on) + Len(mid) :
             (on \o mid)[i] = IF i <= Len(on) THEN on[i] ELSE mid[i - Len(on)]
    BY <1>4, ConcatProperties
  <2> QED BY <1>1, <2>1
<1>6. /\ Len(p) = Len(mid) + 4
      /\ \A i \in 1 .. Len(mid) + 4 :
           p[i] = IF i <= 2 + Len(mid) THEN (on \o mid)[i] ELSE off[i - (2 + Len(mid))]
  BY <1>1, <1>4, <1>5, ConcatProperties
<1> HIDE DEF p
<1>7. p[1] = Inst("Send", On(d), 0)
  BY <1>1, <1>4, <1>5, <1>6
<1>8. p[Len(p) - 1] = Inst("Send", Off, 0)
  <2>1. Len(p) - 1 = 3 + Len(mid) /\ 3 + Len(mid) - (2 + Len(mid)) = 1
        /\ 3 + Len(mid) \in 1 .. Len(mid) + 4 /\ ~(3 + Len(mid) <= 2 + Len(mid))
    BY <1>4, <1>6
  <2> QED BY <1>1, <1>6, <2>1
<1>9. ASSUME NEW k \in 3 .. Len(p) - 2, p[k].op = "Send"
      PROVE  p[k].str \in Seq(Turn)
  <2>1. k \in 1 .. Len(mid) + 4 /\ k \in 1 .. 2 + Len(mid) /\ ~(k <= 2) /\ k - 2 \in 1 .. Len(mid)
        /\ k <= 2 + Len(mid)
    BY <1>4, <1>6
  <2>2. p[k] = mid[k - 2]
    BY <1>5, <1>6, <2>1
  <2> QED BY <1>9, <2>1, <2>2 DEF Inside
<1>10. Len(p) >= 4 /\ p[1].op = "Send" /\ p[1].str = On(d)
       /\ p[Len(p) - 1].op = "Send" /\ p[Len(p) - 1].str = Off
  BY <1>4, <1>6, <1>7, <1>8 DEF Inst
<1>11. Enclosed(p)
  BY <1>9, <1>10 DEF Enclosed
<1> QED BY <1>3, <1>11 DEF p, on, off

\* A string of commands, a calibration or a solution between the two.
LEMMA ThreePartProgram ==
  ASSUME NEW d \in Digit, NEW a, NEW b, NEW c, Inside(a), Inside(b), Inside(c),
         NEW p, p = (((Say(On(d)) \o a) \o b) \o c) \o Say(Off)
  PROVE  Paired(p) /\ Enclosed(p)
<1> DEFINE on == Say(On(d))
           mid == (a \o b) \o c
<1>1. on \in Seq(Instruction) /\ a \in Seq(Instruction) /\ b \in Seq(Instruction)
      /\ c \in Seq(Instruction)
  BY SayShape, PlainStrings DEF Inside, Paired
<1> HIDE DEF on
<1>2. a \o b \in Seq(Instruction)
  BY <1>1, ConcatProperties
<1>3. (on \o a) \o b = on \o (a \o b)
  BY SMTT(30), <1>1, ConcatAssociative
<1>4. (on \o (a \o b)) \o c = on \o mid
  BY SMTT(30), <1>1, <1>2, ConcatAssociative
<1>5. p = (on \o mid) \o Say(Off)
  BY <1>3, <1>4 DEF on
<1>6. Inside(mid)
  BY InsideConcat
<1> QED BY <1>5, <1>6, EnclosedProgram DEF on

\* Everything that runProgram is given has the shape.
LEMMA ProgramsAreEnclosed ==
  /\ Paired(<<>>) /\ Enclosed(<<>>)
  /\ \A s \in Seq(Turn) :
       /\ Paired(MovesProgram(s)) /\ Enclosed(MovesProgram(s))
       /\ Paired(AutoSolveProgram(s)) /\ Enclosed(AutoSolveProgram(s))
  /\ \A op \in {"SnapCal", "ValidateCal"} :
       Paired(CalProgram(op)) /\ Enclosed(CalProgram(op))
<1>1. Inside(Wait) /\ Inside(<<Inst("Solved", <<>>, 0)>>) /\ Inside(<<Inst("SaveCal", <<>>, 0)>>)
  BY OneInside DEF Wait, OpName
<1>2. CalSpeed \in Digit /\ SolveSpeed \in Digit
  BY RobotAssumption
<1>3. Paired(<<>>) /\ Enclosed(<<>>)
  BY DEF Paired, Enclosed
<1>4. ASSUME NEW s \in Seq(Turn)
      PROVE  /\ Paired(MovesProgram(s)) /\ Enclosed(MovesProgram(s))
             /\ Paired(AutoSolveProgram(s)) /\ Enclosed(AutoSolveProgram(s))
  <2>1. Inside(Say(s))
    BY SayInside
  <2>2. Paired(MovesProgram(s)) /\ Enclosed(MovesProgram(s))
    BY <1>1, <1>2, <2>1, ThreePartProgram DEF MovesProgram
  <2>3. Paired(AutoSolveProgram(s)) /\ Enclosed(AutoSolveProgram(s))
    BY <1>1, <1>2, <2>1, ThreePartProgram DEF AutoSolveProgram
  <2> QED BY <2>2, <2>3
<1>5. ASSUME NEW op \in {"SnapCal", "ValidateCal"}
      PROVE  Paired(CalProgram(op)) /\ Enclosed(CalProgram(op))
  <2>1. Inside(CalRounds(op))
    BY RoundsInside
  <2> QED BY <1>1, <1>2, <2>1, ThreePartProgram DEF CalProgram
<1> QED BY <1>3, <1>4, <1>5

\* What programs are, instruction by instruction.
LEMMA PiecesAre ==
  /\ \A o \in OpName : <<Inst(o, <<>>, 0)>> \in Seq(Instruction)
  /\ Wait \in Seq(Instruction) /\ Len(Wait) = 1 /\ Wait[1].op = "WaitMicros"
  /\ \A s \in Seq(Plain) : /\ Say(s) \in Seq(Instruction) /\ Len(Say(s)) = 2
                           /\ Say(s)[1].op = "Send" /\ Say(s)[1].str = s
                           /\ Say(s)[2].op = "Expect" /\ Say(s)[2].str = s
  /\ On(CalSpeed) \in Seq(Plain) /\ On(SolveSpeed) \in Seq(Plain) /\ Off \in Seq(Plain)
  /\ Seq(Turn) \subseteq Seq(Plain)
<1>1. ASSUME NEW o \in OpName
      PROVE  <<Inst(o, <<>>, 0)>> \in Seq(Instruction)
  BY DEF Inst, Instruction
<1>2. Wait \in Seq(Instruction) /\ Len(Wait) = 1 /\ Wait[1].op = "WaitMicros"
  BY <1>1 DEF Wait, OpName, Inst
<1>3. ASSUME NEW s \in Seq(Plain)
      PROVE  /\ Say(s) \in Seq(Instruction) /\ Len(Say(s)) = 2
             /\ Say(s)[1].op = "Send" /\ Say(s)[1].str = s
             /\ Say(s)[2].op = "Expect" /\ Say(s)[2].str = s
  BY SayShape, InstFields DEF Paired
<1> QED BY <1>1, <1>2, <1>3, PlainStrings, RobotAssumption

\* One or two more instructions.
LEMMA OneMore ==
  ASSUME NEW p \in Seq(Instruction), NEW q \in Seq(Instruction), Len(q) = 1
  PROVE  /\ p \o q \in Seq(Instruction) /\ Len(p \o q) = Len(p) + 1
         /\ (p \o q)[Len(p) + 1] = q[1]
         /\ \A k \in 1 .. Len(p) : (p \o q)[k] = p[k]
<1> DEFINE r == p \o q
<1>1. /\ r \in Seq(Instruction) /\ Len(r) = Len(p) + Len(q)
      /\ Len(p) \in Nat /\ Len(q) \in Nat
      /\ \A k \in 1 .. Len(p) : r[k] = p[k]
      /\ \A k \in 1 .. Len(q) : r[Len(p) + k] = q[k]
  BY Appended
<1> HIDE DEF r
<1>2. 1 \in 1 .. Len(q)
  OBVIOUS
<1>3. r[Len(p) + 1] = q[1]
  BY <1>1, <1>2
<1> QED BY <1>1, <1>3 DEF r

LEMMA TwoMore ==
  ASSUME NEW p \in Seq(Instruction), NEW q \in Seq(Instruction), Len(q) = 2
  PROVE  /\ p \o q \in Seq(Instruction) /\ Len(p \o q) = Len(p) + 2
         /\ (p \o q)[Len(p) + 1] = q[1] /\ (p \o q)[Len(p) + 2] = q[2]
         /\ \A k \in 1 .. Len(p) : (p \o q)[k] = p[k]
<1> DEFINE r == p \o q
<1>1. /\ r \in Seq(Instruction) /\ Len(r) = Len(p) + Len(q)
      /\ Len(p) \in Nat /\ Len(q) \in Nat
      /\ \A k \in 1 .. Len(p) : r[k] = p[k]
      /\ \A k \in 1 .. Len(q) : r[Len(p) + k] = q[k]
  BY Appended
<1> HIDE DEF r
<1>2. 1 \in 1 .. Len(q) /\ 2 \in 1 .. Len(q)
  OBVIOUS
<1>3. r[Len(p) + 1] = q[1] /\ r[Len(p) + 2] = q[2]
  BY <1>1, <1>2
<1> QED BY <1>1, <1>3 DEF r

LEMMA MovesShape ==
  ASSUME NEW s \in Seq(Turn), NEW p, p = MovesProgram(s)
  PROVE  /\ Len(p) = 8
         /\ p[1].op = "Send" /\ p[2].op = "Expect" /\ p[3].op = "WaitMicros"
         /\ p[4].op = "Send" /\ p[5].op = "Expect" /\ p[6].op = "WaitMicros"
         /\ p[7].op = "Send" /\ p[8].op = "Expect"
<1> DEFINE a == Say(On(CalSpeed))
           b == a \o Wait
           c == b \o Say(s)
           d == c \o Wait
<1> HIDE DEF a, b, c, d
<1>1. a \in Seq(Instruction) /\ Len(a) = 2 /\ a[1].op = "Send" /\ a[2].op = "Expect"
  BY PiecesAre DEF a
<1>2. /\ b \in Seq(Instruction) /\ Len(b) = 2 + 1 /\ b[2 + 1] = Wait[1]
      /\ \A k \in 1 .. 2 : b[k] = a[k]
  <2>1. b = a \o Wait /\ Wait \in Seq(Instruction) /\ Len(Wait) = 1
    BY PiecesAre DEF b
  <2>2. /\ b \in Seq(Instruction) /\ Len(b) = Len(a) + 1
        /\ b[Len(a) + 1] = Wait[1]
        /\ \A k \in 1 .. Len(a) : b[k] = a[k]
    BY <1>1, <2>1, OneMore
  <2> QED BY <1>1, <2>1, <2>2
<1>3. /\ c \in Seq(Instruction) /\ Len(c) = 3 + 2 /\ c[3 + 1] = Say(s)[1] /\ c[3 + 2] = Say(s)[2]
      /\ \A k \in 1 .. 3 : c[k] = b[k]
  <2>1. c = b \o Say(s) /\ Say(s) \in Seq(Instruction) /\ Len(Say(s)) = 2 /\ Len(b) = 3
    BY <1>2, PiecesAre DEF c
  <2>2. /\ c \in Seq(Instruction) /\ Len(c) = Len(b) + 2
        /\ c[Len(b) + 1] = Say(s)[1] /\ c[Len(b) + 2] = Say(s)[2]
        /\ \A k \in 1 .. Len(b) : c[k] = b[k]
    BY <1>2, <2>1, TwoMore
  <2> QED BY <1>2, <2>1, <2>2
<1>4. /\ d \in Seq(Instruction) /\ Len(d) = 5 + 1 /\ d[5 + 1] = Wait[1]
      /\ \A k \in 1 .. 5 : d[k] = c[k]
  <2>1. d = c \o Wait /\ Wait \in Seq(Instruction) /\ Len(Wait) = 1 /\ Len(c) = 5
    BY <1>3, PiecesAre DEF d
  <2>2. /\ d \in Seq(Instruction) /\ Len(d) = Len(c) + 1
        /\ d[Len(c) + 1] = Wait[1]
        /\ \A k \in 1 .. Len(c) : d[k] = c[k]
    BY <1>3, <2>1, OneMore
  <2> QED BY <1>3, <2>1, <2>2
<1>5. p = d \o Say(Off) /\ Say(Off) \in Seq(Instruction) /\ Len(Say(Off)) = 2 /\ Len(d) = 6
  BY <1>4, PiecesAre DEF MovesProgram, a, b, c, d
<1>6. /\ Len(p) = Len(d) + 2 /\ p[Len(d) + 1] = Say(Off)[1] /\ p[Len(d) + 2] = Say(Off)[2]
      /\ \A k \in 1 .. Len(d) : p[k] = d[k]
  <2>1. d \in Seq(Instruction) /\ Say(Off) \in Seq(Instruction) /\ Len(Say(Off)) = 2
    BY <1>4, <1>5
  <2>2. p = d \o Say(Off)
    BY <1>5
  <2> QED BY <2>1, <2>2, TwoMore
<1>7. Len(p) = 8 /\ p[7] = Say(Off)[1] /\ p[8] = Say(Off)[2] /\ \A k \in 1 .. 6 : p[k] = d[k]
  BY <1>5, <1>6
<1>8. p[1] = a[1] /\ p[2] = a[2] /\ p[3] = Wait[1] /\ p[4] = Say(s)[1] /\ p[5] = Say(s)[2] /\ p[6] = Wait[1]
  BY <1>2, <1>3, <1>4, <1>7
<1> QED BY <1>1, <1>7, <1>8, PiecesAre

LEMMA AutoShape ==
  ASSUME NEW s \in Seq(Turn), NEW p, p = AutoSolveProgram(s)
  PROVE  /\ Len(p) = 8
         /\ p[1].op = "Send" /\ p[2].op = "Expect" /\ p[3].op = "Send"
         /\ p[4].op = "Expect" /\ p[4].str = s /\ p[5].op = "Solved"
         /\ p[6].op = "WaitMicros" /\ p[7].op = "Send" /\ p[8].op = "Expect"
<1> DEFINE solved == <<Inst("Solved", <<>>, 0)>>
           a == Say(On(SolveSpeed))
           b == a \o Say(s)
           c == b \o solved
           d == c \o Wait
<1>0. solved \in Seq(Instruction) /\ Len(solved) = 1 /\ solved[1].op = "Solved"
  BY PiecesAre, InstFields DEF OpName
<1> HIDE DEF a, b, c, d, solved
<1>1. a \in Seq(Instruction) /\ Len(a) = 2 /\ a[1].op = "Send" /\ a[2].op = "Expect"
  BY PiecesAre DEF a
<1>2. /\ b \in Seq(Instruction) /\ Len(b) = 2 + 2 /\ b[2 + 1] = Say(s)[1] /\ b[2 + 2] = Say(s)[2]
      /\ \A k \in 1 .. 2 : b[k] = a[k]
  <2>1. b = a \o Say(s) /\ Say(s) \in Seq(Instruction) /\ Len(Say(s)) = 2
    BY PiecesAre DEF b
  <2>2. /\ b \in Seq(Instruction) /\ Len(b) = Len(a) + 2
        /\ b[Len(a) + 1] = Say(s)[1] /\ b[Len(a) + 2] = Say(s)[2]
        /\ \A k \in 1 .. Len(a) : b[k] = a[k]
    BY <1>1, <2>1, TwoMore
  <2> QED BY <1>1, <2>1, <2>2
<1>3. /\ c \in Seq(Instruction) /\ Len(c) = 4 + 1 /\ c[4 + 1] = solved[1]
      /\ \A k \in 1 .. 4 : c[k] = b[k]
  <2>1. c = b \o solved /\ Len(b) = 4
    BY <1>2 DEF c
  <2>2. /\ c \in Seq(Instruction) /\ Len(c) = Len(b) + 1
        /\ c[Len(b) + 1] = solved[1]
        /\ \A k \in 1 .. Len(b) : c[k] = b[k]
    BY <1>0, <1>2, <2>1, OneMore
  <2> QED BY <1>0, <1>2, <2>1, <2>2
<1>4. /\ d \in Seq(Instruction) /\ Len(d) = 5 + 1 /\ d[5 + 1] = Wait[1]
      /\ \A k \in 1 .. 5 : d[k] = c[k]
  <2>1. d = c \o Wait /\ Wait \in Seq(Instruction) /\ Len(Wait) = 1 /\ Len(c) = 5
    BY <1>3, PiecesAre DEF d
  <2>2. /\ d \in Seq(Instruction) /\ Len(d) = Len(c) + 1
        /\ d[Len(c) + 1] = Wait[1]
        /\ \A k \in 1 .. Len(c) : d[k] = c[k]
    BY <1>3, <2>1, OneMore
  <2> QED BY <1>3, <2>1, <2>2
<1>5. p = d \o Say(Off) /\ Say(Off) \in Seq(Instruction) /\ Len(Say(Off)) = 2 /\ Len(d) = 6
  BY <1>4, PiecesAre DEF AutoSolveProgram, a, b, c, d, solved
<1>6. /\ Len(p) = Len(d) + 2 /\ p[Len(d) + 1] = Say(Off)[1] /\ p[Len(d) + 2] = Say(Off)[2]
      /\ \A k \in 1 .. Len(d) : p[k] = d[k]
  <2>1. d \in Seq(Instruction) /\ Say(Off) \in Seq(Instruction) /\ Len(Say(Off)) = 2
    BY <1>4, <1>5
  <2>2. p = d \o Say(Off)
    BY <1>5
  <2> QED BY <2>1, <2>2, TwoMore
<1>7. Len(p) = 8 /\ p[7] = Say(Off)[1] /\ p[8] = Say(Off)[2] /\ \A k \in 1 .. 6 : p[k] = d[k]
  BY <1>5, <1>6
<1>8. /\ p[1] = a[1] /\ p[2] = a[2] /\ p[3] = Say(s)[1] /\ p[4] = Say(s)[2]
      /\ p[5] = solved[1] /\ p[6] = Wait[1]
  BY <1>2, <1>3, <1>4, <1>7
<1> QED BY <1>0, <1>1, <1>7, <1>8, PiecesAre

Round(p, op, n) ==
  /\ p[4 * n].op = op /\ p[4 * n].n = n
  /\ p[4 * n + 1].op = "Send" /\ p[4 * n + 2].op = "Expect"
  /\ p[4 * n + 2].str = <<Rotation[n]>> /\ p[4 * n + 3].op = "WaitMicros"

Calibration(p, op) ==
  /\ Len(p) = 4 * Len(Rotation) + 6
  /\ p[1].op = "Send" /\ p[2].op = "Expect" /\ p[3].op = "WaitMicros"
  /\ \A n \in 1 .. Len(Rotation) : Round(p, op, n)
  /\ p[4 * Len(Rotation) + 4].op = "SaveCal"
  /\ p[4 * Len(Rotation) + 5].op = "Send" /\ p[4 * Len(Rotation) + 6].op = "Expect"

LEMMA CalShape ==
  ASSUME NEW op \in {"SnapCal", "ValidateCal"}
  PROVE  Len(Rotation) \in Nat /\ Calibration(CalProgram(op), op)
<1> DEFINE save == <<Inst("SaveCal", <<>>, 0)>>
           R == CalRounds(op)
           L == 4 * Len(Rotation)
           p == CalProgram(op)
           a == Say(On(CalSpeed))
           b == a \o Wait
           c == b \o R
           d == c \o save
<1>0. save \in Seq(Instruction) /\ Len(save) = 1 /\ save[1].op = "SaveCal"
  BY PiecesAre, InstFields DEF OpName
<1>1. /\ R \in Seq(Instruction) /\ Len(R) = L /\ Len(Rotation) \in Nat
      /\ \A n \in 1 .. Len(Rotation) :
           /\ R[4 * n - 3] = Inst(op, <<>>, n)
           /\ R[4 * n - 2] = Inst("Send", <<Rotation[n]>>, 0)
           /\ R[4 * n - 1] = Inst("Expect", <<Rotation[n]>>, 0)
           /\ R[4 * n] = Inst("WaitMicros", <<>>, 0)
  BY RoundsAre
<1>2. p = d \o Say(Off)
  BY DEF CalProgram
<1> HIDE DEF a, b, c, d, save, R, p
<1>3. a \in Seq(Instruction) /\ Len(a) = 2 /\ a[1].op = "Send" /\ a[2].op = "Expect"
  BY PiecesAre DEF a
<1>4. /\ b \in Seq(Instruction) /\ Len(b) = 2 + 1 /\ b[2 + 1] = Wait[1]
      /\ \A k \in 1 .. 2 : b[k] = a[k]
  <2>1. b = a \o Wait /\ Wait \in Seq(Instruction) /\ Len(Wait) = 1
    BY PiecesAre DEF b
  <2>2. /\ b \in Seq(Instruction) /\ Len(b) = Len(a) + 1
        /\ b[Len(a) + 1] = Wait[1]
        /\ \A k \in 1 .. Len(a) : b[k] = a[k]
    BY <1>3, <2>1, OneMore
  <2> QED BY <1>3, <2>1, <2>2
<1>5. /\ c \in Seq(Instruction) /\ Len(c) = 3 + L
      /\ \A k \in 1 .. 3 : c[k] = b[k]
      /\ \A k \in 1 .. L : c[3 + k] = R[k]
  <2>1. c = b \o R /\ Len(b) = 3
    BY <1>4 DEF c
  <2> HIDE DEF L
  <2>2. /\ c \in Seq(Instruction) /\ Len(c) = Len(b) + Len(R)
        /\ \A k \in 1 .. Len(b) : c[k] = b[k]
        /\ \A k \in 1 .. Len(R) : c[Len(b) + k] = R[k]
    BY <1>1, <1>4, <2>1, Appended
  <2> QED BY <1>1, <2>1, <2>2
<1>6. /\ d \in Seq(Instruction) /\ Len(d) = (3 + L) + 1 /\ d[(3 + L) + 1] = save[1]
      /\ \A k \in 1 .. 3 + L : d[k] = c[k]
  <2>1. d = c \o save /\ 3 + L \in Nat
    BY <1>1 DEF d
  <2> HIDE DEF L
  <2>2. /\ d \in Seq(Instruction) /\ Len(d) = Len(c) + 1
        /\ d[Len(c) + 1] = save[1]
        /\ \A k \in 1 .. Len(c) : d[k] = c[k]
    BY <1>0, <1>5, <2>1, OneMore
  <2> QED BY <1>0, <1>5, <2>1, <2>2
<1>7. /\ Len(p) = (4 + L) + 2 /\ p[(4 + L) + 1] = Say(Off)[1] /\ p[(4 + L) + 2] = Say(Off)[2]
      /\ \A k \in 1 .. 4 + L : p[k] = d[k]
  <2>1. /\ Say(Off) \in Seq(Instruction) /\ Len(Say(Off)) = 2
        /\ 4 + L \in Nat /\ Len(d) = 4 + L
    BY <1>1, <1>6, PiecesAre
  <2> HIDE DEF L
  <2>2. /\ Len(p) = Len(d) + 2 /\ p[Len(d) + 1] = Say(Off)[1] /\ p[Len(d) + 2] = Say(Off)[2]
        /\ \A k \in 1 .. Len(d) : p[k] = d[k]
    BY <1>2, <1>6, <2>1, TwoMore
  <2> QED BY <2>1, <2>2
<1>8. ASSUME NEW n \in 1 .. Len(Rotation)
      PROVE  Round(p, op, n)
  <2>1. ASSUME NEW k \in 1 .. L
        PROVE  p[3 + k] = R[k]
    <3>1. L \in Nat
      BY <1>1
    <3> HIDE DEF L
    <3>2. 3 + k \in 1 .. 4 + L /\ 3 + k \in 1 .. 3 + L
      BY <3>1
    <3>3. p[3 + k] = d[3 + k] /\ d[3 + k] = c[3 + k] /\ c[3 + k] = R[k]
      BY <1>5, <1>6, <1>7, <3>2
    <3> QED BY <3>3
  <2>2. /\ {4 * n - 3, 4 * n - 2, 4 * n - 1, 4 * n} \subseteq 1 .. L
        /\ 3 + (4 * n - 3) = 4 * n /\ 3 + (4 * n - 2) = 4 * n + 1
        /\ 3 + (4 * n - 1) = 4 * n + 2 /\ 3 + 4 * n = 4 * n + 3
    BY <1>1
  <2>3. /\ p[4 * n] = R[4 * n - 3] /\ p[4 * n + 1] = R[4 * n - 2]
        /\ p[4 * n + 2] = R[4 * n - 1] /\ p[4 * n + 3] = R[4 * n]
    BY <2>1, <2>2
  <2>4. /\ p[4 * n] = Inst(op, <<>>, n) /\ p[4 * n + 1] = Inst("Send", <<Rotation[n]>>, 0)
        /\ p[4 * n + 2] = Inst("Expect", <<Rotation[n]>>, 0)
        /\ p[4 * n + 3] = Inst("WaitMicros", <<>>, 0)
    BY <1>1, <2>3
  <2> QED BY <2>4 DEF Inst, Round
<1>9. /\ p[1] = a[1] /\ p[2] = a[2] /\ p[3] = Wait[1] /\ p[4 + L] = save[1]
      /\ Len(p) = L + 6 /\ p[L + 5] = Say(Off)[1] /\ p[L + 6] = Say(Off)[2]
      /\ 4 + L = L + 4 /\ L \in Nat
  <2>1. L \in Nat
    BY <1>1
  <2> HIDE DEF L
  <2>2. /\ {1, 2, 3} \subseteq 1 .. 4 + L /\ {1, 2, 3} \subseteq 1 .. 3 + L /\ 4 + L \in 1 .. 4 + L
        /\ (4 + L) + 1 = L + 5 /\ (4 + L) + 2 = L + 6 /\ (3 + L) + 1 = 4 + L /\ 4 + L = L + 4
    BY <2>1
  <2>3. /\ p[1] = d[1] /\ p[2] = d[2] /\ p[3] = d[3] /\ p[4 + L] = d[4 + L]
        /\ d[1] = c[1] /\ d[2] = c[2] /\ d[3] = c[3]
    BY <1>6, <1>7, <2>2
  <2>4. c[1] = b[1] /\ c[2] = b[2] /\ c[3] = b[3] /\ b[1] = a[1] /\ b[2] = a[2] /\ b[3] = Wait[1]
    BY <1>4, <1>5
  <2> QED BY <1>6, <1>7, <2>1, <2>2, <2>3, <2>4
<1>10. /\ a[1].op = "Send" /\ a[2].op = "Expect" /\ Wait[1].op = "WaitMicros"
       /\ save[1].op = "SaveCal" /\ Say(Off)[1].op = "Send" /\ Say(Off)[2].op = "Expect"
  BY <1>0, <1>3, PiecesAre
<1>11. Calibration(p, op)
  BY <1>8, <1>9, <1>10 DEF Calibration
<1> QED BY <1>1, <1>11 DEF p

\* Where one can be in a calibration.
LEMMA CalPlaces ==
  ASSUME NEW N \in Nat, NEW k \in 1 .. 4 * N + 6
  PROVE  \/ k \in {1, 2, 3} \/ k \in {4 * N + 4, 4 * N + 5, 4 * N + 6}
         \/ \E n \in 1 .. N : k \in {4 * n, 4 * n + 1, 4 * n + 2, 4 * n + 3}
<1>1. CASE k \in 4 .. 4 * N + 3
  <2>1. /\ k \div 4 \in 1 .. N
        /\ \/ k = 4 * (k \div 4) \/ k = 4 * (k \div 4) + 1
           \/ k = 4 * (k \div 4) + 2 \/ k = 4 * (k \div 4) + 3
    BY <1>1, Z3
  <2> QED BY <2>1
<1>2. CASE k \notin 4 .. 4 * N + 3
  BY <1>2
<1> QED BY <1>1, <1>2

\* In every program turns are waited for, and only the automatic solve takes the time.
LEMMA ProgramsWait ==
  /\ Waits(<<>>)
  /\ \A s \in Seq(Turn) : Waits(MovesProgram(s)) /\ Waits(AutoSolveProgram(s))
  /\ \A op \in {"SnapCal", "ValidateCal"} : Waits(CalProgram(op))
<1>1. Waits(<<>>)
  BY DEF Waits
<1>2. ASSUME NEW s \in Seq(Turn), NEW p, p = MovesProgram(s)
      PROVE  Waits(p)
  <2>1. /\ Len(p) = 8
        /\ p[1].op = "Send" /\ p[2].op = "Expect" /\ p[3].op = "WaitMicros"
        /\ p[4].op = "Send" /\ p[5].op = "Expect" /\ p[6].op = "WaitMicros"
        /\ p[7].op = "Send" /\ p[8].op = "Expect"
    BY <1>2, MovesShape
  <2> SUFFICES ASSUME NEW k \in 1 .. 8, (p[k].op = "Expect" /\ k \in 3 .. 7) \/ p[k].op = "Solved"
               PROVE  k < 8 /\ p[k + 1].op \in {"Solved", "WaitMicros"}
    BY <2>1 DEF Waits
  <2>2. k = 1 \/ k = 2 \/ k = 3 \/ k = 4 \/ k = 5 \/ k = 6 \/ k = 7 \/ k = 8
    OBVIOUS
  <2> QED BY <2>1, <2>2
<1>3. ASSUME NEW s \in Seq(Turn), NEW p, p = AutoSolveProgram(s)
      PROVE  Waits(p)
  <2>1. /\ Len(p) = 8
        /\ p[1].op = "Send" /\ p[2].op = "Expect" /\ p[3].op = "Send"
        /\ p[4].op = "Expect" /\ p[4].str = s /\ p[5].op = "Solved"
        /\ p[6].op = "WaitMicros" /\ p[7].op = "Send" /\ p[8].op = "Expect"
    BY <1>3, AutoShape
  <2> SUFFICES ASSUME NEW k \in 1 .. 8, (p[k].op = "Expect" /\ k \in 3 .. 7) \/ p[k].op = "Solved"
               PROVE  k < 8 /\ p[k + 1].op \in {"Solved", "WaitMicros"}
    BY <2>1 DEF Waits
  <2>2. k = 1 \/ k = 2 \/ k = 3 \/ k = 4 \/ k = 5 \/ k = 6 \/ k = 7 \/ k = 8
    OBVIOUS
  <2> QED BY <2>1, <2>2
<1>4. ASSUME NEW op \in {"SnapCal", "ValidateCal"}
      PROVE  Waits(CalProgram(op))
  <2> DEFINE N == Len(Rotation)
             p == CalProgram(op)
  <2>1. N \in Nat /\ Calibration(p, op)
    BY CalShape
  <2> HIDE DEF N, p
  <2>2. Len(p) = 4 * N + 6
    BY <2>1 DEF Calibration, N
  <2> SUFFICES Waits(p)
    BY DEF p
  <2> SUFFICES ASSUME NEW k \in 1 .. 4 * N + 6,
                      (p[k].op = "Expect" /\ k \in 3 .. 4 * N + 5) \/ p[k].op = "Solved"
               PROVE  k < 4 * N + 6 /\ p[k + 1].op \in {"Solved", "WaitMicros"}
    BY <2>1, <2>2 DEF Waits
  <2>3. CASE k \in {1, 2, 3}
    BY <2>1, <2>3 DEF Calibration
  <2>4. CASE k \in {4 * N + 4, 4 * N + 5, 4 * N + 6}
    BY <2>1, <2>4 DEF Calibration, N
  <2>5. ASSUME NEW n \in 1 .. N, k \in {4 * n, 4 * n + 1, 4 * n + 2, 4 * n + 3}
        PROVE  k < 4 * N + 6 /\ p[k + 1].op \in {"Solved", "WaitMicros"}
    <3>1. Round(p, op, n)
      BY <2>1 DEF Calibration, N
    <3>2. k = 4 * n + 2
      BY <2>5, <3>1 DEF Round
    <3>3. k < 4 * N + 6 /\ k + 1 = 4 * n + 3
      BY <2>1, <3>2
    <3> QED BY <3>1, <3>3 DEF Round
  <2> QED BY <2>1, <2>3, <2>4, <2>5, CalPlaces
<1> QED BY <1>1, <1>2, <1>3, <1>4

-----------------------------------------------------------------------------
(***************************************************************************)
(* The types.                                                              *)
(***************************************************************************)

\* What a step of the host does to the line: it reads all of it or adds a string.
LEMMA HostOnTheLine ==
  ASSUME RobotTypes, ProgramInv, Host
  PROVE  /\ UNCHANGED <<doing, enabled, motorsOnEh, speed, cube, frame>>
         /\ \/ UNCHANGED <<toBoard, toHost, serRcv>>
            \/ /\ serRcv' = serRcv \o toHost /\ toHost' = <<>> /\ UNCHANGED toBoard
            \/ /\ \E s \in Seq(Byte) : toBoard' = toBoard \o s
               /\ serRcv' \in {serRcv, <<>>} /\ UNCHANGED toHost
<1>1. CASE ReadSerial
  BY <1>1 DEF ReadSerial
<1>2. CASE Analyse \/ AutoSolve
  BY <1>2 DEF Analyse, AutoSolve, RunProgram, boardVars, runVars
<1>3. CASE Abort
  <2>1. Off \in Seq(Byte)
    BY PlainStrings
  <2> QED BY <1>3, <2>1 DEF Abort, runVars
<1>4. CASE Event
  <2>1. CASE NoEvent \/ PressMoves \/ PressF7 \/ PressF1 \/ PressF2 \/ PressF10
    BY <2>1 DEF NoEvent, PressMoves, PressF7, PressF1, PressF2, PressF10, RunProgram,
                boardVars, runVars
  <2>2. ASSUME NEW b \in {"[", "]"}, PressBracket(b)
        PROVE  toBoard' = toBoard \o <<b>> /\ <<b>> \in Seq(Byte)
    <3>1. b \in Byte /\ toBoard \in Seq(Byte) /\ toBoard' = Append(toBoard, b)
      BY <2>2 DEF PressBracket, Byte, Switch, RobotTypes, BoardTypeOK
    <3> QED BY <3>1, AppendIsConcat
  <2>3. ASSUME NEW b \in {"[", "]"}, PressBracket(b)
        PROVE  UNCHANGED <<doing, enabled, motorsOnEh, speed, cube, frame, toHost, serRcv>>
    BY <2>3 DEF PressBracket, runVars
  <2> QED BY <1>4, <2>1, <2>2, <2>3 DEF Event
<1>5. CASE ContinueProgram
  <2>1. CASE Send
    <3>1. Current.str \in Seq(Byte)
      <4>1. IsRunning /\ programCounter \in 1 .. Len(program)
        BY <2>1 DEF Send, At, ProgramInv, IsRunning, Paired
      <4>2. Current \in Instruction
        BY <4>1 DEF ProgramInv, Paired, Current
      <4> QED BY <4>2, PlainStrings DEF Instruction
    <3> QED BY <2>1, <3>1 DEF Send
  <2>2. CASE ProgramEnds
    BY <2>2 DEF ProgramEnds, boardVars, runVars
  <2>3. CASE ExpectBegins \/ ExpectsMore \/ ExpectFails \/ ExpectMatches
    BY <2>3 DEF ExpectBegins, ExpectsMore, ExpectFails, ExpectMatches, boardVars, runVars
  <2>4. CASE WaitBegins \/ WaitsMore \/ WaitEnds
    BY <2>4 DEF WaitBegins, WaitsMore, WaitEnds, boardVars, runVars
  <2>5. CASE SnapCal \/ ValidateCal
    BY <2>5 DEF SnapCal, ValidateCal, boardVars
  <2>6. CASE SaveCal \/ SolvedInst
    BY <2>6 DEF SaveCal, SolvedInst, boardVars
  <2> QED BY <1>5, <2>1, <2>2, <2>3, <2>4, <2>5, <2>6 DEF ContinueProgram
<1> QED BY <1>1, <1>2, <1>3, <1>4, <1>5 DEF Host

\* What a step of the host does to what was seen and to clean.
LEMMA HostSees ==
  ASSUME RobotTypes, Host
  PROVE  /\ \/ UNCHANGED <<faceletColors, faceletStates, lastSolution>>
            \/ Analyse
         /\ \/ clean' \in {clean, FALSE}
            \/ AutoSolve /\ clean' = (clean \/ Quiet)
            \/ Event /\ clean' = (clean \/ Quiet)
<1>1. CASE ReadSerial
  BY <1>1 DEF ReadSerial, seenVars, history
<1>2. CASE Analyse
  BY <1>2 DEF Analyse, history
<1>3. CASE AutoSolve
  BY <1>3 DEF AutoSolve, RunProgram, seenVars, history
<1>4. CASE Abort
  BY <1>4 DEF Abort, seenVars, history
<1>5. CASE Event
  <2>1. CASE NoEvent
    BY <2>1 DEF NoEvent, seenVars, history
  <2>2. CASE PressMoves \/ PressF7 \/ PressF1 \/ PressF2
    BY <1>5, <2>2 DEF PressMoves, PressF7, PressF1, PressF2, RunProgram, seenVars, history
  <2>3. CASE PressF10
    BY <2>3 DEF PressF10, seenVars, history
  <2>4. CASE \E b \in {"[", "]"} : PressBracket(b)
    BY <2>4 DEF PressBracket, seenVars
  <2> QED BY <1>5, <2>1, <2>2, <2>3, <2>4 DEF Event
<1>6. CASE ContinueProgram
  <2>1. CASE ProgramEnds \/ Send
    BY <2>1 DEF ProgramEnds, Send, seenVars, history
  <2>2. CASE ExpectBegins \/ ExpectsMore \/ ExpectMatches
    BY <2>2 DEF ExpectBegins, ExpectsMore, ExpectMatches, seenVars, history
  <2>3. CASE ExpectFails
    BY <2>3 DEF ExpectFails, seenVars
  <2>4. CASE WaitBegins \/ WaitsMore \/ WaitEnds
    BY <2>4 DEF WaitBegins, WaitsMore, WaitEnds, seenVars, history
  <2>5. CASE SnapCal \/ ValidateCal
    BY <2>5 DEF SnapCal, ValidateCal, seenVars, history
  <2>6. CASE SaveCal \/ SolvedInst
    BY <2>6 DEF SaveCal, SolvedInst, seenVars, history
  <2> QED BY <1>6, <2>1, <2>2, <2>3, <2>4, <2>5, <2>6 DEF ContinueProgram
<1> QED BY <1>1, <1>2, <1>3, <1>4, <1>5, <1>6 DEF Host

\* Every step keeps the types.
LEMMA RobotTypesStep ==
  ASSUME RobotTypes, ProgramInv, [Next]_vars
  PROVE  RobotTypes'
<1>1. CASE Host
  <2>1. BoardTypeOK' /\ serRcv' \in Seq(Said) /\ frame' = frame
    <3>1. UNCHANGED <<doing, enabled, motorsOnEh, speed, cube, frame>>
      BY <1>1, HostOnTheLine
    <3>2. CASE UNCHANGED <<toBoard, toHost, serRcv>>
      BY <3>1, <3>2 DEF RobotTypes, BoardTypeOK
    <3>3. CASE serRcv' = serRcv \o toHost /\ toHost' = <<>> /\ UNCHANGED toBoard
      BY <3>1, <3>3, ConcatProperties DEF RobotTypes, BoardTypeOK
    <3>4. CASE /\ \E s \in Seq(Byte) : toBoard' = toBoard \o s
               /\ serRcv' \in {serRcv, <<>>} /\ UNCHANGED toHost
      <4>1. toBoard' \in Seq(Byte)
        BY <3>4, ConcatProperties DEF RobotTypes, BoardTypeOK
      <4>2. serRcv' \in Seq(Said)
        <5>1. <<>> \in Seq(Said) /\ serRcv \in Seq(Said)
          BY DEF RobotTypes
        <5>2. serRcv' = serRcv \/ serRcv' = <<>>
          BY <3>4
        <5> QED BY <5>1, <5>2
      <4> QED BY <3>1, <3>4, <4>1, <4>2 DEF RobotTypes, BoardTypeOK
    <3>5. \/ UNCHANGED <<toBoard, toHost, serRcv>>
          \/ serRcv' = serRcv \o toHost /\ toHost' = <<>> /\ UNCHANGED toBoard
          \/ /\ \E s \in Seq(Byte) : toBoard' = toBoard \o s
             /\ serRcv' \in {serRcv, <<>>} /\ UNCHANGED toHost
      BY <1>1, HostOnTheLine
    <3> QED BY <3>1, <3>2, <3>3, <3>4, <3>5
  <2>2. faceletStates' \in Cube \cup {Unknown} /\ lastSolution' \in Seq(Turn)
    <3>1. CASE UNCHANGED <<faceletStates, lastSolution>>
      BY <3>1 DEF RobotTypes
    <3>2. CASE Analyse
      <4>1. faceletStates' \in Cube \cup {Unknown}
        BY <3>2 DEF Analyse, Recognised
      <4>2. Answers(faceletStates') \subseteq Seq(Turn)
        <5>1. \A s \in Cube \ {Solved} : Solution[s] \in Seq(Turn)
          BY SolutionAssumption
        <5>2. <<>> \in Seq(Turn)
          OBVIOUS
        <5> QED BY <4>1, <5>1, <5>2 DEF Answers
      <4> QED BY <3>2, <4>1, <4>2 DEF Analyse, RobotTypes
    <3> QED BY <1>1, <3>1, <3>2, HostSees
  <2>3. clean' \in BOOLEAN
    BY <1>1, HostSees DEF RobotTypes
  <2> QED BY <2>1, <2>2, <2>3 DEF RobotTypes
<1>2. CASE Board
  <2>1. BoardTypeOK'
    BY <1>2, BoardTypeStep DEF Board, TerminalNext, RobotTypes
  <2> QED BY <1>2, <2>1 DEF Board, RobotTypes, hostVars, seenVars, runVars, history
<1>3. CASE Reset
  <2>1. BoardTypeOK'
    BY <1>3, BoardTypeStep DEF Reset, TerminalNext, RobotTypes
  <2> QED BY <1>3, <2>1 DEF Reset, RobotTypes, seenVars, runVars
<1>4. CASE CameraShoots
  <2>1. frame' \in Cube \cup {Unknown}
    BY <1>4 DEF CameraShoots, RobotTypes, BoardTypeOK
  <2> QED BY <1>4, <2>1 DEF CameraShoots, RobotTypes, BoardTypeOK, boardVars, seenVars, history
<1>5. CASE WaitElapses \/ TenSecondsElapse
  BY <1>5 DEF WaitElapses, TenSecondsElapse, RobotTypes, BoardTypeOK, boardVars, seenVars,
              runVars, history
<1>6. CASE UNCHANGED vars
  BY <1>6 DEF vars, hostVars, RobotTypes, BoardTypeOK, boardVars, seenVars, runVars, history
<1> QED BY <1>1, <1>2, <1>3, <1>4, <1>5, <1>6 DEF Next

-----------------------------------------------------------------------------
(***************************************************************************)
(* The program that runs.                                                  *)
(***************************************************************************)

\* A step that leaves the program where it is, and expects what it expected.
LEMMA ProgramStays ==
  ASSUME ProgramInv, UNCHANGED <<program, programCounter, programRcvExpected>>,
         call' # "none" => phase' \in {"auto", "event", "program"},
         call = "running" => call' = "running"
  PROVE  ProgramInv'
BY DEF ProgramInv, IsRunning, Current

\* The next instruction.
LEMMA ProgramAdvances ==
  ASSUME ProgramInv, call # "none", IsRunning, Advance, program' = program
  PROVE  ProgramInv'
<1>1. Len(program) \in Nat
  BY DEF ProgramInv, Paired
<1>2. programCounter' \in 1 .. Len(program) + 1
  BY <1>1 DEF ProgramInv, IsRunning, Advance
<1> QED BY <1>2 DEF ProgramInv, Advance

\* The end of a call.
LEMMA ProgramReturns ==
  ASSUME ProgramInv, Return, program' = program,
         programCounter' \in {programCounter, Len(program) + 1},
         programCounter' = programCounter /\ IsRunning /\ Current.op = "Expect" =>
           programRcvExpected' = Current.str
  PROVE  ProgramInv'
<1>1. Len(program) \in Nat
  BY DEF ProgramInv, Paired
<1>2. call' # "none" => phase' = "program"
  BY DEF Return, Goto
<1>3. ~(Len(program) + 1 <= Len(program)) /\ Len(program) + 1 \in 1 .. Len(program) + 1
  BY <1>1
<1> QED BY <1>2, <1>3 DEF ProgramInv, IsRunning, Current

\* runProgram, from analyzeColors or for a key.
LEMMA ProgramBegins ==
  ASSUME ProgramInv, phase \in {"auto", "event"}, call = "none",
         NEW p, Paired(p), Enclosed(p), RunProgram(p)
  PROVE  ProgramInv'
<1>1. CASE IsRunning
  BY <1>1, ProgramStays DEF RunProgram, Goto, runVars
<1>2. CASE ~IsRunning
  <2>1. program' = p /\ programCounter' = 1 /\ call' = "running" /\ phase' = phase
    BY <1>2 DEF RunProgram
  <2>2. 1 \in 1 .. Len(p) + 1
    BY DEF Paired
  <2> QED BY <2>1, <2>2 DEF ProgramInv
<1> QED BY <1>1, <1>2

\* Every step keeps the shape of the program and what it expects.
LEMMA ProgramInvStep ==
  ASSUME RobotTypes, ProgramInv, [Next]_vars
  PROVE  ProgramInv'
<1>1. CASE ReadSerial \/ Analyse
  <2>1. call = "none"
    BY <1>1 DEF ReadSerial, Analyse, ProgramInv
  <2>2. call' = "none" /\ UNCHANGED <<program, programCounter, programRcvExpected>>
    BY <1>1 DEF ReadSerial, Analyse, Goto
  <2> QED BY <2>1, <2>2, ProgramStays
<1>2. CASE AutoSolve
  <2>1. CASE autoSolveArm # "off" /\ ~IsRunning /\ lastSolution # <<>>
    BY <1>2, <2>1, ProgramBegins, ProgramsAreEnclosed DEF AutoSolve, RobotTypes
  <2>2. CASE ~(autoSolveArm # "off" /\ ~IsRunning /\ lastSolution # <<>>)
    BY <1>2, <2>2, ProgramStays DEF AutoSolve, Goto, runVars
  <2> QED BY <2>1, <2>2
<1>3. CASE Abort
  <2>1. call = "none" /\ call' = "none"
    BY <1>3 DEF Abort, ProgramInv, Goto
  <2>2. CASE autoSolveArm = "overdue"
    <3>1. program' = <<>> /\ programCounter' = 1
      BY <1>3, <2>2 DEF Abort
    <3> QED BY <2>1, <3>1, ProgramsAreEnclosed DEF ProgramInv, IsRunning
  <2>3. CASE autoSolveArm # "overdue"
    BY <1>3, <2>1, <2>3, ProgramStays DEF Abort, runVars
  <2> QED BY <2>2, <2>3
<1>4. CASE Event
  <2>1. CASE NoEvent
    BY <2>1, ProgramStays DEF NoEvent, Goto, runVars
  <2>2. CASE PressMoves
    BY <2>2, ProgramBegins, ProgramsAreEnclosed, MovesAssumption DEF PressMoves, Pressed
  <2>3. CASE PressF7
    BY <2>3, ProgramBegins, ProgramsAreEnclosed DEF PressF7, Pressed, RobotTypes
  <2>4. CASE PressF1
    BY <2>4, ProgramBegins, ProgramsAreEnclosed DEF PressF1, Pressed
  <2>5. CASE PressF2
    BY <2>5, ProgramBegins, ProgramsAreEnclosed DEF PressF2, Pressed
  <2>6. CASE PressF10
    BY <2>6, ProgramStays DEF PressF10, Pressed, Goto, runVars
  <2>7. CASE \E b \in {"[", "]"} : PressBracket(b)
    BY <2>7, ProgramStays DEF PressBracket, Pressed, Goto, runVars
  <2> QED BY <1>4, <2>1, <2>2, <2>3, <2>4, <2>5, <2>6, <2>7 DEF Event
<1>5. CASE ContinueProgram
  <2>1. CASE ProgramEnds
    BY <2>1, ProgramReturns DEF ProgramEnds, runVars
  <2>2. CASE Send \/ ExpectMatches \/ WaitEnds
    BY <2>2, ProgramAdvances DEF Send, ExpectMatches, WaitEnds, At
  <2>3. CASE SnapCal \/ ValidateCal
    BY <2>3, ProgramAdvances DEF SnapCal, ValidateCal, At
  <2>4. CASE SaveCal \/ SolvedInst
    BY <2>4, ProgramAdvances DEF SaveCal, SolvedInst, At
  <2>5. CASE ExpectBegins \/ WaitBegins
    BY <2>5, ProgramReturns DEF ExpectBegins, WaitBegins, At
  <2>6. CASE ExpectsMore \/ WaitsMore
    BY <2>6, ProgramReturns DEF ExpectsMore, WaitsMore, At, runVars, ProgramInv
  <2>7. CASE ExpectFails
    BY <2>7, ProgramReturns DEF ExpectFails, At, ProgramInv
  <2> QED BY <1>5, <2>1, <2>2, <2>3, <2>4, <2>5, <2>6, <2>7 DEF ContinueProgram
<1>6. CASE Board \/ Reset
  BY <1>6, ProgramStays DEF Board, Reset, hostVars, runVars, ProgramInv
<1>7. CASE CameraShoots \/ WaitElapses \/ TenSecondsElapse
  BY <1>7, ProgramStays DEF CameraShoots, WaitElapses, TenSecondsElapse, runVars, ProgramInv
<1>8. CASE UNCHANGED vars
  BY <1>8, ProgramStays DEF vars, hostVars, runVars, ProgramInv
<1> QED BY <1>1, <1>2, <1>3, <1>4, <1>5, <1>6, <1>7, <1>8 DEF Next, Host

\* What a running program may be about to do, and where.
LEMMA SendsInPlace ==
  ASSUME ProgramInv, IsRunning, Current.op = "Send"
  PROVE  /\ \/ programCounter = 1 /\ \E d \in Digit : Current.str = On(d)
            \/ programCounter \in 3 .. Len(program) - 2 /\ Current.str \in Seq(Turn)
            \/ programCounter = Len(program) - 1 /\ Current.str = Off
         /\ programCounter < Len(program)
         /\ program[programCounter + 1].op = "Expect"
         /\ program[programCounter + 1].str = Current.str
         /\ Len(program) \in Nat /\ Len(program) >= 4
<1> DEFINE k == programCounter
           L == Len(program)
<1>1. L \in Nat /\ k \in 1 .. L
  BY DEF ProgramInv, Paired, IsRunning
<1>2. k < L /\ program[k + 1].op = "Expect"
  BY <1>1 DEF ProgramInv, Paired, Current
<1>3. k + 1 \in 1 .. L /\ (k + 1) - 1 = k
  BY <1>1, <1>2
<1>4. program[k + 1].str = program[k].str
  BY <1>2, <1>3 DEF ProgramInv, Paired
<1>5. program # <<>>
  BY <1>1
<1>6. /\ L >= 4 /\ program[1].op = "Send" /\ \E d \in Digit : program[1].str = On(d)
      /\ program[L - 1].op = "Send" /\ program[L - 1].str = Off
      /\ \A i \in 3 .. L - 2 : program[i].op = "Send" => program[i].str \in Seq(Turn)
  BY <1>5 DEF ProgramInv, Enclosed
<1>7. k # 2
  <2>1. 1 \in 1 .. L /\ 1 + 1 = 2
    BY <1>1, <1>6
  <2>2. program[2].op = "Expect"
    BY <1>6, <2>1 DEF ProgramInv, Paired
  <2> QED BY <2>2 DEF Current
<1>8. k = 1 \/ k \in 3 .. L - 2 \/ k = L - 1
  BY <1>1, <1>2, <1>7
<1> QED BY <1>1, <1>2, <1>4, <1>6, <1>8 DEF Current

\* What it may be waiting for, and where.
LEMMA ExpectsInPlace ==
  ASSUME ProgramInv, IsRunning, Current.op = "Expect"
  PROVE  /\ \/ programCounter = 2 /\ \E d \in Digit : Current.str = On(d)
            \/ programCounter \in 4 .. Len(program) - 1 /\ Current.str \in Seq(Turn)
            \/ programCounter = Len(program) /\ Current.str = Off
         /\ programCounter = 2 => Current.str = program[1].str
         /\ Current.str \in Seq(Plain)
         /\ Len(program) \in Nat /\ Len(program) >= 4
<1> DEFINE k == programCounter
           L == Len(program)
<1>1. L \in Nat /\ k \in 1 .. L /\ Current \in Instruction
  BY DEF ProgramInv, Paired, IsRunning, Current
<1>2. k > 1 /\ program[k - 1].op = "Send" /\ program[k - 1].str = program[k].str
  BY <1>1 DEF ProgramInv, Paired, Current
<1>3. program # <<>>
  BY <1>1
<1>4. /\ L >= 4 /\ program[1].op = "Send" /\ \E d \in Digit : program[1].str = On(d)
      /\ program[L - 1].op = "Send" /\ program[L - 1].str = Off
      /\ \A i \in 3 .. L - 2 : program[i].op = "Send" => program[i].str \in Seq(Turn)
  BY <1>3 DEF ProgramInv, Enclosed
<1>5. k # 3
  <2>1. 1 \in 1 .. L /\ 1 + 1 = 2
    BY <1>1, <1>4
  <2>2. program[2].op = "Expect"
    BY <1>4, <2>1 DEF ProgramInv, Paired
  <2>3. k = 3 => k - 1 = 2
    OBVIOUS
  <2> QED BY <1>2, <2>2, <2>3
<1>6. k = 2 \/ k \in 4 .. L - 1 \/ k = L
  BY <1>1, <1>2, <1>5
<1>7. CASE k = 2
  <2>1. k - 1 = 1
    BY <1>7
  <2> QED BY <1>1, <1>2, <1>4, <1>7, <2>1 DEF Current, Instruction
<1>8. CASE k \in 4 .. L - 1
  <2>1. k - 1 \in 3 .. L - 2 /\ k # 2
    BY <1>1, <1>8
  <2> QED BY <1>1, <1>2, <1>4, <1>8, <2>1 DEF Current, Instruction
<1>9. CASE k = L
  <2>1. k - 1 = L - 1 /\ k # 2
    BY <1>4, <1>9
  <2> QED BY <1>1, <1>2, <1>4, <1>9, <2>1 DEF Current, Instruction
<1> QED BY <1>6, <1>7, <1>8, <1>9

\* What was not sent is not expected next.
LEMMA ThenNoExpect ==
  ASSUME ProgramInv, IsRunning, Current.op # "Send"
  PROVE  /\ programCounter < Len(program) => program[programCounter + 1].op # "Expect"
         /\ programCounter \notin {1, Len(program) - 1}
         /\ programCounter \in {2, Len(program)} => Current.op = "Expect"
         /\ programCounter \in 1 .. Len(program)
         /\ Len(program) \in Nat /\ Len(program) >= 4
<1> DEFINE k == programCounter
           L == Len(program)
<1>1. L \in Nat /\ k \in 1 .. L
  BY DEF ProgramInv, Paired, IsRunning
<1>2. k < L => k + 1 \in 1 .. L /\ (k + 1) - 1 = k
  BY <1>1
<1>3. k < L => program[k + 1].op # "Expect"
  BY <1>2 DEF ProgramInv, Paired, Current
<1>4. program # <<>>
  BY <1>1
<1>5. L >= 4 /\ program[1].op = "Send" /\ program[L - 1].op = "Send"
  BY <1>4 DEF ProgramInv, Enclosed
<1>6. k # 1 /\ k # L - 1
  BY <1>5 DEF Current
<1>7. program[2].op = "Expect" /\ program[L].op = "Expect"
  <2>1. 1 \in 1 .. L /\ 1 + 1 = 2 /\ L - 1 \in 1 .. L /\ (L - 1) + 1 = L
    BY <1>1, <1>5
  <2> QED BY <1>5, <2>1 DEF ProgramInv, Paired
<1> QED BY <1>1, <1>3, <1>5, <1>6, <1>7 DEF Current

-----------------------------------------------------------------------------
(***************************************************************************)
(* What is on the line.                                                    *)
(***************************************************************************)

\* The four parts of the line.
LEMMA LineTypes ==
  ASSUME RobotTypes
  PROVE  /\ serRcv \in Seq(Said) /\ toHost \in Seq(Said)
         /\ toBoard \in Seq(Said) /\ Begun \in Seq(Said)
         /\ doing \in Turn => Len(Begun) = 1 /\ Begun[1] = doing
         /\ doing \notin Turn => Begun = <<>>
<1>1. Byte \subseteq Said /\ Turn \subseteq Said
  BY DEF Byte, Said
<1>2. toBoard \in Seq(Said)
  BY <1>1, SeqMonotone DEF RobotTypes, BoardTypeOK
<1>3. Begun \in Seq(Said)
  BY <1>1 DEF Begun
<1> QED BY <1>2, <1>3 DEF RobotTypes, BoardTypeOK, Begun

\* What is on its way to the board, and the turn under way, are in the line.
LEMMA LineParts ==
  ASSUME RobotTypes, NEW w, w = ((serRcv \o toHost) \o Begun) \o toBoard
  PROVE  /\ Len(w) = Len(serRcv) + Len(toHost) + Len(Begun) + Len(toBoard)
         /\ \A i \in 1 .. Len(toBoard) : toBoard[i] = w[Len(w) - Len(toBoard) + i]
         /\ \A i \in 1 .. Len(Begun) : \E j \in 1 .. Len(w) : w[j] = Begun[i]
<1>1. serRcv \in Seq(Said) /\ toHost \in Seq(Said) /\ Begun \in Seq(Said) /\ toBoard \in Seq(Said)
  BY LineTypes
<1> DEFINE a == serRcv
           b == toHost
           c == Begun
           d == toBoard
<1>2. a \in Seq(Said) /\ b \in Seq(Said) /\ c \in Seq(Said) /\ d \in Seq(Said)
      /\ w = ((a \o b) \o c) \o d
  BY <1>1
<1> HIDE DEF a, b, c, d
<1> DEFINE ab == a \o b
           abc == ab \o c
<1>3. ab \in Seq(Said) /\ Len(ab) = Len(a) + Len(b)
  BY <1>2, ConcatProperties
<1> HIDE DEF ab
<1>4. /\ abc \in Seq(Said) /\ Len(abc) = Len(ab) + Len(c)
      /\ \A i \in 1 .. Len(ab) + Len(c) : abc[i] = IF i <= Len(ab) THEN ab[i] ELSE c[i - Len(ab)]
  BY <1>2, <1>3, ConcatProperties
<1>5. w = abc \o d
  BY <1>2 DEF ab
<1> HIDE DEF abc
<1>6. /\ Len(w) = Len(abc) + Len(d)
      /\ \A i \in 1 .. Len(abc) + Len(d) : w[i] = IF i <= Len(abc) THEN abc[i] ELSE d[i - Len(abc)]
  BY <1>2, <1>4, <1>5, ConcatProperties
<1>7. Len(a) \in Nat /\ Len(b) \in Nat /\ Len(c) \in Nat /\ Len(d) \in Nat /\ Len(ab) \in Nat
      /\ Len(abc) \in Nat
  BY <1>2, <1>3, <1>4
<1>8. ASSUME NEW i \in 1 .. Len(d)
      PROVE  d[i] = w[Len(w) - Len(d) + i]
  <2>1. /\ Len(w) - Len(d) + i \in 1 .. Len(abc) + Len(d)
        /\ ~(Len(w) - Len(d) + i <= Len(abc))
        /\ Len(w) - Len(d) + i - Len(abc) = i
    BY <1>6, <1>7
  <2> QED BY <1>6, <2>1
<1>9. ASSUME NEW i \in 1 .. Len(c)
      PROVE  \E j \in 1 .. Len(w) : w[j] = c[i]
  <2> DEFINE j == Len(ab) + i
  <2>1. /\ j \in 1 .. Len(w) /\ j \in 1 .. Len(abc) + Len(d) /\ j <= Len(abc)
        /\ j \in 1 .. Len(ab) + Len(c) /\ ~(j <= Len(ab)) /\ j - Len(ab) = i
    BY <1>4, <1>6, <1>7
  <2> HIDE DEF j
  <2>2. w[j] = c[i]
    BY <1>4, <1>6, <2>1
  <2> QED BY <2>1, <2>2
<1> QED BY <1>3, <1>4, <1>6, <1>8, <1>9 DEF a, b, c, d

\* While a byte is on its way to the board, or a turn under way, a string is expected
\* that has the byte, or the turn, in it.
LEMMA BoardHasPart ==
  ASSUME RobotTypes, ProgramInv, EchoAccountsForCommands, clean,
         toBoard # <<>> \/ doing \in Turn
  PROVE  /\ IsRunning /\ Current.op = "Expect"
         /\ Len(toBoard) <= Len(Current.str)
         /\ \A i \in 1 .. Len(toBoard) :
              toBoard[i] = Current.str[Len(Current.str) - Len(toBoard) + i]
         /\ doing \in Turn => \E j \in 1 .. Len(Current.str) : Current.str[j] = doing
<1>1. doing \in Turn => Begun # <<>>
  BY DEF Begun
<1>2. /\ IsRunning /\ Current.op = "Expect"
      /\ Current.str = ((serRcv \o toHost) \o Begun) \o toBoard
  BY <1>1 DEF EchoAccountsForCommands
<1> DEFINE w == Current.str
<1> HIDE DEF w
<1>3. w = ((serRcv \o toHost) \o Begun) \o toBoard
  BY <1>2 DEF w
<1>4. /\ Len(w) = Len(serRcv) + Len(toHost) + Len(Begun) + Len(toBoard)
      /\ \A i \in 1 .. Len(toBoard) : toBoard[i] = w[Len(w) - Len(toBoard) + i]
      /\ \A i \in 1 .. Len(Begun) : \E j \in 1 .. Len(w) : w[j] = Begun[i]
  BY <1>3, LineParts
<1>5. Len(toBoard) <= Len(w)
  <2>1. Len(serRcv) \in Nat /\ Len(toHost) \in Nat /\ Len(Begun) \in Nat /\ Len(toBoard) \in Nat
    BY LineTypes
  <2> QED BY <1>4, <2>1
<1>6. doing \in Turn => \E j \in 1 .. Len(w) : w[j] = doing
  <2> SUFFICES ASSUME doing \in Turn
               PROVE  \E j \in 1 .. Len(w) : w[j] = doing
    OBVIOUS
  <2>1. Len(Begun) = 1 /\ Begun[1] = doing
    BY LineTypes
  <2>2. 1 \in 1 .. Len(Begun)
    BY <2>1
  <2> QED BY <1>4, <2>1, <2>2
<1> QED BY <1>2, <1>4, <1>5, <1>6 DEF w

\* A turn is made only where the program turns.
LEMMA TurnsInside ==
  ASSUME RobotTypes, ProgramInv, EchoAccountsForCommands, clean, doing \in Turn
  PROVE  IsRunning /\ programCounter \in 4 .. Len(program) - 1
<1>1. /\ IsRunning /\ Current.op = "Expect"
      /\ \E j \in 1 .. Len(Current.str) : Current.str[j] = doing
  BY BoardHasPart
<1>2. doing \notin Digit /\ doing # "[" /\ doing # "]"
  BY KindsAreDisjoint DEF Switch
<1> DEFINE w == Current.str
<1>3. PICK j \in 1 .. Len(w) : w[j] = doing
  BY <1>1
<1> HIDE DEF w
<1>4. ASSUME NEW d \in Digit, w = On(d)
      PROVE  FALSE
  <2>1. Len(w) = 2 /\ w[1] = d /\ w[2] = "["
    BY <1>4, PlainStrings
  <2>2. j = 1 \/ j = 2
    BY <2>1
  <2> QED BY <1>2, <1>3, <2>1, <2>2
<1>5. w # Off
  <2>1. w = Off => Len(w) = 2 /\ w[1] = "]" /\ w[2] = "]"
    BY PlainStrings
  <2>2. Len(w) = 2 => j = 1 \/ j = 2
    OBVIOUS
  <2> QED BY <1>2, <1>3, <2>1, <2>2
<1> QED BY <1>1, <1>4, <1>5, ExpectsInPlace DEF w

\* Which byte the board gets next says where the program is.
LEMMA HeadsInPlace ==
  ASSUME RobotTypes, ProgramInv, EchoAccountsForCommands, clean, toBoard # <<>>
  PROVE  /\ IsRunning /\ Current.op = "Expect"
         /\ \/ /\ programCounter = 2 /\ Len(toBoard) = 2
               /\ Head(toBoard) = program[1].str[1] /\ Head(toBoard) \in Digit
            \/ programCounter = 2 /\ Len(toBoard) = 1 /\ Head(toBoard) = "["
            \/ programCounter \in 4 .. Len(program) - 1 /\ Head(toBoard) \in Turn
            \/ programCounter = Len(program) /\ Len(toBoard) \in {1, 2} /\ Head(toBoard) = "]"
<1> DEFINE w == Current.str
           n == Len(toBoard)
<1>1. /\ IsRunning /\ Current.op = "Expect" /\ n <= Len(w)
      /\ \A i \in 1 .. n : toBoard[i] = w[Len(w) - n + i]
  BY BoardHasPart
<1>2. n \in Nat /\ n > 0 /\ Head(toBoard) = toBoard[1]
  BY LineTypes
<1>3. Len(w) \in Nat
  BY <1>1, ExpectsInPlace
<1>4. Head(toBoard) = w[Len(w) - n + 1] /\ Len(w) - n + 1 \in 1 .. Len(w)
  BY <1>1, <1>2, <1>3
<1> HIDE DEF w, n
<1>5. CASE programCounter = 2 /\ \E d \in Digit : w = On(d)
  <2>1. PICK d \in Digit : w = On(d)
    BY <1>5
  <2>2. Len(w) = 2 /\ w[1] = d /\ w[2] = "[" /\ w = program[1].str
    BY <1>1, <1>5, <2>1, PlainStrings, ExpectsInPlace DEF w
  <2>3. n = 1 \/ n = 2
    BY <1>1, <1>2, <2>2
  <2>4. CASE n = 1
    BY <1>1, <1>4, <1>5, <2>2, <2>4 DEF n
  <2>5. CASE n = 2
    BY <1>1, <1>4, <1>5, <2>2, <2>5 DEF n
  <2> QED BY <2>3, <2>4, <2>5
<1>6. CASE programCounter \in 4 .. Len(program) - 1 /\ w \in Seq(Turn)
  BY <1>1, <1>4, <1>6
<1>7. CASE programCounter = Len(program) /\ w = Off
  <2>1. Len(w) = 2 /\ w[1] = "]" /\ w[2] = "]"
    BY <1>7, PlainStrings
  <2>2. n = 1 \/ n = 2
    BY <1>1, <1>2, <2>1
  <2> QED BY <1>1, <1>4, <1>7, <2>1, <2>2 DEF n
<1> QED BY <1>1, <1>5, <1>6, <1>7, ExpectsInPlace DEF w

-----------------------------------------------------------------------------
(***************************************************************************)
(* What the host and the board do to the line.                             *)
(***************************************************************************)

\* What EchoAccountsForCommands and PowerInv are about.
lineVars == <<program, programCounter, serRcv, toHost, toBoard, doing, speed, enabled>>

\* A step that is not about the line.
LEMMA LineStays ==
  ASSUME EchoAccountsForCommands, PowerInv, UNCHANGED lineVars, clean' => clean
  PROVE  EchoAccountsForCommands' /\ PowerInv'
<1>1. EchoAccountsForCommands'
  BY DEF EchoAccountsForCommands, lineVars, IsRunning, Current, Begun
<1>2. PowerInv'
  BY DEF PowerInv, lineVars, Powered, Unpowered
<1> QED BY <1>1, <1>2

\* A step after which nothing is said about the line.
LEMMA LineIsDirty ==
  ASSUME ~clean'
  PROVE  EchoAccountsForCommands' /\ PowerInv'
BY DEF EchoAccountsForCommands, PowerInv

\* serRcv += ser->read()
LEMMA LineIsRead ==
  ASSUME RobotTypes, EchoAccountsForCommands, PowerInv, ReadSerial
  PROVE  EchoAccountsForCommands' /\ PowerInv'
<1>1. /\ serRcv' = serRcv \o toHost /\ toHost' = <<>>
      /\ UNCHANGED <<toBoard, doing, speed, enabled, program, programCounter, clean>>
  BY DEF ReadSerial, history
<1>2. PowerInv'
  BY <1>1 DEF PowerInv, Powered, Unpowered
<1>3. /\ Begun' = Begun /\ Current' = Current /\ IsRunning' = IsRunning
  BY <1>1 DEF Begun, Current, IsRunning
<1>4. serRcv' \o toHost' = serRcv \o toHost
  <2>1. serRcv \o toHost \in Seq(Said)
    BY LineTypes, ConcatProperties
  <2>2. (serRcv \o toHost) \o <<>> = serRcv \o toHost
    BY <2>1, ConcatEmptySeq
  <2> QED BY <1>1, <2>2
<1>5. ((serRcv' \o toHost') \o Begun') \o toBoard' = ((serRcv \o toHost) \o Begun) \o toBoard
  BY <1>1, <1>3, <1>4
<1>6. EchoAccountsForCommands'
  BY <1>1, <1>3, <1>5 DEF EchoAccountsForCommands
<1> QED BY <1>2, <1>6

\* A program begins with an empty line, because it was clean or is quiet.
LEMMA LineBegins ==
  ASSUME EchoAccountsForCommands, PowerInv,
         UNCHANGED <<serRcv, toHost, toBoard, doing, speed, enabled>>,
         NEW p, Paired(p), Enclosed(p), RunProgram(p)
  PROVE  EchoAccountsForCommands' /\ PowerInv'
<1>1. CASE IsRunning
  BY <1>1, LineStays DEF RunProgram, runVars, history, lineVars
<1>2. CASE ~IsRunning
  <2>1. program' = p /\ programCounter' = 1 /\ clean' = (clean \/ Quiet)
    BY <1>2 DEF RunProgram
  <2>2. clean' => toHost = <<>> /\ Begun = <<>> /\ toBoard = <<>> /\ doing \notin Turn
    BY <1>2, <2>1 DEF EchoAccountsForCommands, Quiet, Begun
  <2>3. p # <<>> => Len(p) \in Nat /\ Len(p) >= 4 /\ p[1].op = "Send"
    BY DEF Paired, Enclosed
  <2>4. EchoAccountsForCommands'
    <3>1. ~(IsRunning' /\ Current'.op = "Expect")
      BY <2>1, <2>3 DEF IsRunning, Current
    <3>2. Begun' = Begun
      BY DEF Begun
    <3> QED BY <2>2, <3>1, <3>2 DEF EchoAccountsForCommands
  <2>5. PowerInv'
    <3>1. CASE p = <<>>
      <4>1. programCounter' = 1 /\ program' = <<>> /\ Len(program') = 0 /\ doing' = doing
        BY <2>1, <3>1
      <4>2. programCounter' # 2 /\ programCounter' # Len(program')
            /\ ~(programCounter' \in 3 .. Len(program') - 1) /\ ~(program' # <<>>)
        BY <4>1
      <4> QED BY <2>2, <4>1, <4>2 DEF PowerInv
    <3>2. CASE p # <<>>
      <4>1. programCounter' = 1 /\ Len(program') = Len(p) /\ doing' = doing
        BY <2>1
      <4>2. programCounter' # 2 /\ programCounter' # Len(program')
            /\ ~(programCounter' \in 3 .. Len(program') - 1)
            /\ programCounter' # Len(program') + 1
        BY <2>3, <3>2, <4>1
      <4> QED BY <2>2, <4>1, <4>2 DEF PowerInv
    <3> QED BY <3>1, <3>2
  <2> QED BY <2>4, <2>5
<1> QED BY <1>1, <1>2

\* A string is sent when the line is empty.
LEMMA LineIsSent ==
  ASSUME RobotTypes, ProgramInv, EchoAccountsForCommands, PowerInv, Send
  PROVE  EchoAccountsForCommands' /\ PowerInv'
<1>1. /\ IsRunning /\ Current.op = "Send" /\ serRcv' = <<>> /\ toBoard' = toBoard \o Current.str
      /\ programCounter' = programCounter + 1
      /\ UNCHANGED <<toHost, doing, speed, enabled, program, clean>>
  BY DEF Send, At, Advance, history
<1>2. clean => toHost = <<>> /\ Begun = <<>> /\ toBoard = <<>>
  BY <1>1 DEF EchoAccountsForCommands
<1>3. /\ \/ programCounter = 1 /\ \E d \in Digit : Current.str = On(d)
         \/ programCounter \in 3 .. Len(program) - 2 /\ Current.str \in Seq(Turn)
         \/ programCounter = Len(program) - 1 /\ Current.str = Off
      /\ programCounter < Len(program)
      /\ program[programCounter + 1].op = "Expect"
      /\ program[programCounter + 1].str = Current.str
      /\ Len(program) \in Nat /\ Len(program) >= 4
  BY <1>1, SendsInPlace
<1>4. Current.str \in Seq(Plain)
  BY <1>3, PlainStrings
<1>5. clean => toBoard' = Current.str
  BY <1>1, <1>2, <1>4, ConcatEmptySeq
<1>6. /\ IsRunning' /\ Current'.op = "Expect" /\ Current'.str = Current.str
  <2>1. programCounter + 1 <= Len(program)
    BY <1>3 DEF ProgramInv
  <2> QED BY <1>1, <1>3, <2>1 DEF IsRunning, Current
<1>7. EchoAccountsForCommands'
  <2>1. Begun' = Begun
    BY <1>1 DEF Begun
  <2>2. <<>> \o <<>> = <<>> /\ <<>> \o Current.str = Current.str
    BY <1>4, EmptySeq, ConcatEmptySeq
  <2> QED BY <1>1, <1>2, <1>5, <1>6, <2>1, <2>2 DEF EchoAccountsForCommands
<1>8. PowerInv'
  <2> SUFFICES ASSUME clean PROVE PowerInv'
    BY <1>1 DEF PowerInv
  <2>1. CASE programCounter = 1
    <3>1. programCounter' = 2 /\ Len(toBoard') = 2 /\ toBoard' # <<>>
      BY SMTT(30), <1>1, <1>3, <1>5, <2>1, PlainStrings
    <3> QED BY <1>1, <1>3, <3>1 DEF PowerInv
  <2>2. CASE programCounter \in 3 .. Len(program) - 2
    <3>1. programCounter' \in 3 .. Len(program) - 1 /\ programCounter \in 3 .. Len(program) - 1
          /\ programCounter' \notin {1, 2, Len(program), Len(program) + 1}
      BY <1>1, <1>3, <2>2
    <3> QED BY <1>1, <3>1 DEF PowerInv, Powered
  <2>3. CASE programCounter = Len(program) - 1
    <3>1. programCounter' = Len(program) /\ programCounter \in 3 .. Len(program) - 1
          /\ programCounter' \notin {1, 2, Len(program) + 1}
          /\ ~(programCounter' \in 3 .. Len(program) - 1)
      BY <1>1, <1>3, <2>3
    <3>2. Current.str = Off
      BY <1>3, <2>3
    <3>3. Len(toBoard') = 2 /\ toBoard' # <<>>
      <4>1. toBoard' = Off
        BY <1>5, <3>2
      <4> QED BY <4>1 DEF Off
    <3> QED BY <1>1, <3>1, <3>3 DEF PowerInv, Powered
  <2> QED BY <1>3, <2>1, <2>2, <2>3
<1> QED BY <1>7, <1>8

\* The next instruction, with an empty line, after one that has sent nothing.
LEMMA LineAdvances ==
  ASSUME ProgramInv, EchoAccountsForCommands, PowerInv, IsRunning, Current.op # "Send", Advance,
         clean => toHost = <<>> /\ Begun = <<>> /\ toBoard = <<>>,
         UNCHANGED <<serRcv, toHost, toBoard, doing, speed, enabled, program, clean>>
  PROVE  EchoAccountsForCommands' /\ PowerInv'
<1>1. /\ programCounter < Len(program) => program[programCounter + 1].op # "Expect"
      /\ programCounter \notin {1, Len(program) - 1}
      /\ programCounter \in 1 .. Len(program)
      /\ Len(program) \in Nat /\ Len(program) >= 4
  BY ThenNoExpect
<1>2. programCounter' = programCounter + 1
  BY DEF Advance
<1>3. EchoAccountsForCommands'
  <2>1. ~(IsRunning' /\ Current'.op = "Expect")
    BY <1>1, <1>2 DEF IsRunning, Current
  <2>2. Begun' = Begun
    BY DEF Begun
  <2> QED BY <2>1, <2>2 DEF EchoAccountsForCommands
<1>4. PowerInv'
  <2> SUFFICES ASSUME clean PROVE PowerInv'
    BY DEF PowerInv
  <2>1. toBoard = <<>> /\ Len(toBoard) = 0
    OBVIOUS
  <2>2. CASE programCounter = 2
    <3>1. speed = program[1].str[1] /\ Powered
      BY <2>1, <2>2 DEF PowerInv
    <3>2. programCounter' = 3 /\ Powered' /\ 3 # Len(program) /\ 3 # Len(program) + 1
      BY <1>1, <1>2, <2>2, <3>1 DEF Powered
    <3> QED BY <3>1, <3>2 DEF PowerInv
  <2>3. CASE programCounter \in 3 .. Len(program) - 2
    <3>1. programCounter \in 3 .. Len(program) - 1 /\ programCounter' \in 3 .. Len(program) - 1
          /\ programCounter' \notin {1, 2, Len(program), Len(program) + 1}
      BY <1>1, <1>2, <2>3
    <3>2. speed = program[1].str[1] /\ Powered'
      BY <3>1 DEF PowerInv, Powered
    <3> QED BY <3>1, <3>2 DEF PowerInv
  <2>4. CASE programCounter = Len(program)
    <3>1. Unpowered'
      BY <2>1, <2>4 DEF PowerInv, Unpowered
    <3>2. programCounter' \notin {1, 2, Len(program)} /\ ~(programCounter' \in 3 .. Len(program) - 1)
      BY <1>1, <1>2, <2>4
    <3> QED BY <3>1, <3>2 DEF PowerInv
  <2>5. programCounter = 2 \/ programCounter \in 3 .. Len(program) - 2 \/ programCounter = Len(program)
    BY <1>1
  <2> QED BY <2>2, <2>3, <2>4, <2>5
<1> QED BY <1>3, <1>4

\* The echo is complete: the board has done what was sent, and the line is empty.
LEMMA LineIsMatched ==
  ASSUME RobotTypes, ProgramInv, EchoAccountsForCommands, PowerInv, ExpectMatches
  PROVE  EchoAccountsForCommands' /\ PowerInv'
<1>1. /\ IsRunning /\ Current.op = "Expect" /\ call = "waking" /\ serRcv = programRcvExpected
      /\ Advance
      /\ UNCHANGED <<serRcv, toHost, toBoard, doing, speed, enabled, program, clean>>
  BY DEF ExpectMatches, At, boardVars, history
<1>2. serRcv = Current.str
  BY <1>1 DEF ProgramInv
<1>3. ASSUME clean
      PROVE  toHost = <<>> /\ Begun = <<>> /\ toBoard = <<>>
  <2>1. serRcv = ((serRcv \o toHost) \o Begun) \o toBoard
    BY <1>1, <1>2, <1>3 DEF EchoAccountsForCommands
  <2>2. Len(serRcv) = Len(serRcv) + Len(toHost) + Len(Begun) + Len(toBoard)
    BY <2>1, LineParts
  <2>3. /\ serRcv \in Seq(Said) /\ toHost \in Seq(Said) /\ toBoard \in Seq(Said) /\ Begun \in Seq(Said)
    BY LineTypes
  <2>4. Len(serRcv) \in Nat /\ Len(toHost) \in Nat /\ Len(Begun) \in Nat /\ Len(toBoard) \in Nat
    BY <2>3, LenProperties
  <2>5. Len(toHost) = 0 /\ Len(Begun) = 0 /\ Len(toBoard) = 0
    BY <2>2, <2>4
  <2> QED BY <2>3, <2>5, EmptySeq
<1>4. Current.op # "Send"
  BY <1>1
<1> QED BY <1>1, <1>3, <1>4, LineAdvances

\* A step of the board moves what is on the line, and loses nothing.
LEMMA EchoOnBoard ==
  ASSUME RobotTypes, RobotTypes', ProgramInv, EchoAccountsForCommands, Board
  PROVE  EchoAccountsForCommands'
<1> SUFFICES ASSUME clean PROVE EchoAccountsForCommands'
  BY DEF EchoAccountsForCommands, Board, hostVars, history
<1>1. BoardStep /\ UNCHANGED <<serRcv, program, programCounter, clean>>
  BY DEF Board, hostVars, runVars, history
<1>2. IsRunning' = IsRunning /\ Current' = Current
  BY <1>1 DEF IsRunning, Current
<1>3. CASE IsRunning /\ Current.op = "Expect"
  <2>1. toBoard # <<>> => Head(toBoard) \notin {"esc", " "}
    <3> SUFFICES ASSUME toBoard # <<>> PROVE Head(toBoard) \notin {"esc", " "}
      OBVIOUS
    <3>1. Head(toBoard) \in Digit \cup Turn \cup {"[", "]"}
      BY HeadsInPlace
    <3> QED BY <3>1, KindsAreDisjoint DEF Switch
  <2>2. Owed' = Owed
    BY <1>1, <2>1, OwedStaysTheSame DEF RobotTypes
  <2>3. ((serRcv \o toHost) \o Begun) \o toBoard = serRcv \o Owed
    <3>1. /\ serRcv \in Seq(Said) /\ toHost \in Seq(Said)
          /\ toBoard \in Seq(Said) /\ Begun \in Seq(Said)
      BY LineTypes
    <3>2. Owed = (toHost \o Begun) \o toBoard
      BY DEF Owed, Begun
    <3>3. ((serRcv \o toHost) \o Begun) \o toBoard = serRcv \o ((toHost \o Begun) \o toBoard)
      BY SMTT(30), <3>1, SeqEqual
    <3> QED BY <3>2, <3>3
  <2>4. ((serRcv' \o toHost') \o Begun') \o toBoard' = serRcv' \o Owed'
    <3>1. Byte \subseteq Said /\ Turn \subseteq Said
      BY DEF Byte, Said
    <3>2. /\ serRcv' \in Seq(Said) /\ toHost' \in Seq(Said)
          /\ toBoard' \in Seq(Said) /\ Begun' \in Seq(Said)
      BY <3>1, SeqMonotone DEF RobotTypes, BoardTypeOK, Begun
    <3>3. Owed' = (toHost' \o Begun') \o toBoard'
      BY DEF Owed, Begun
    <3>4. ((serRcv' \o toHost') \o Begun') \o toBoard' = serRcv' \o ((toHost' \o Begun') \o toBoard')
      BY SMTT(30), <3>2, SeqEqual
    <3> QED BY <3>3, <3>4
  <2> QED BY <1>1, <1>2, <1>3, <2>2, <2>3, <2>4 DEF EchoAccountsForCommands
<1>4. CASE ~(IsRunning /\ Current.op = "Expect")
  <2>1. toHost = <<>> /\ Begun = <<>> /\ toBoard = <<>> /\ doing \notin Turn
    BY <1>4 DEF EchoAccountsForCommands, Begun
  <2>2. EndSwitch
    BY <1>1, <2>1 DEF BoardStep, SetSpeed, BeginTurn, EndTurn, BeginSwitch, Receive
  <2>3. toHost' = <<>> /\ toBoard' = <<>> /\ Begun' = <<>>
    BY <2>1, <2>2, KindsAreDisjoint DEF EndSwitch, Begun
  <2> QED BY <1>1, <1>2, <1>4, <2>3 DEF EchoAccountsForCommands
<1> QED BY <1>3, <1>4

\* A step of the board: it powers on and off when it is told to.
LEMMA PowerOnBoard ==
  ASSUME RobotTypes, ProgramInv, EchoAccountsForCommands, PowerInv, Board
  PROVE  PowerInv'
<1> SUFFICES ASSUME clean PROVE PowerInv'
  BY DEF PowerInv, Board, hostVars, history
<1>1. BoardStep /\ UNCHANGED <<program, programCounter, clean>>
  BY DEF Board, hostVars, runVars, history
<1>2. /\ toBoard \in Seq(Said) /\ Len(toBoard) \in Nat
      /\ toBoard # <<>> => Tail(toBoard) \in Seq(Said) /\ Len(Tail(toBoard)) = Len(toBoard) - 1
  <2>1. toBoard \in Seq(Said)
    BY LineTypes
  <2> QED BY <2>1, HeadTailProperties, LenProperties
<1>3. IsRunning => Len(program) \in Nat /\ Len(program) >= 4 /\ programCounter \in 1 .. Len(program)
  <2>1. program # <<>> => Len(program) >= 4
    BY DEF ProgramInv, Enclosed
  <2>2. Len(program) \in Nat /\ programCounter \in 1 .. Len(program) + 1
    BY DEF ProgramInv, Paired
  <2> QED BY <2>1, <2>2 DEF IsRunning
<1>4. ASSUME IsRunning
      PROVE  2 # Len(program) /\ 2 # Len(program) + 1 /\ ~(2 \in 3 .. Len(program) - 1)
  <2> DEFINE L == Len(program)
  <2>1. L \in Nat /\ L >= 4
    BY <1>3, <1>4
  <2> HIDE DEF L
  <2>2. 2 # L /\ 2 # L + 1 /\ ~(2 \in 3 .. L - 1)
    BY <2>1
  <2> QED BY <2>2 DEF L
<1>5. "[" \notin Turn /\ "]" \notin Turn /\ "idle" \notin Turn /\ "[" \notin Digit /\ "]" \notin Digit
  BY KindsAreDisjoint DEF Switch
<1>6. CASE SetSpeed
  <2>1. /\ doing = "idle" /\ toBoard # <<>> /\ Head(toBoard) \in Digit /\ toBoard' = Tail(toBoard)
        /\ speed' = Head(toBoard) /\ UNCHANGED <<doing, enabled>>
    BY <1>6 DEF SetSpeed, Receive
  <2>2. /\ IsRunning /\ programCounter = 2 /\ Len(toBoard) = 2 /\ Head(toBoard) = program[1].str[1]
    BY <2>1, <1>5, HeadsInPlace, KindsAreDisjoint
  <2>3. Len(toBoard') = 1 /\ toBoard' # <<>>
    <3>1. Len(toBoard') = 1
      BY <1>2, <2>1, <2>2
    <3> QED BY <3>1, EmptySeq
  <2>4. programCounter' = 2 /\ 2 # Len(program) /\ 2 # Len(program) + 1
        /\ ~(2 \in 3 .. Len(program) - 1)
    <3>1. programCounter' = 2
      BY <1>1, <2>2
    <3> QED BY <1>4, <2>2, <3>1
  <2> QED BY <1>1, <2>1, <2>2, <2>3, <2>4 DEF PowerInv
<1>7. CASE BeginTurn
  <2>1. /\ doing = "idle" /\ toBoard # <<>> /\ Head(toBoard) \in Turn /\ doing' = Head(toBoard)
        /\ UNCHANGED <<speed, enabled>>
    BY <1>7 DEF BeginTurn, Receive
  <2>2. /\ IsRunning /\ programCounter \in 4 .. Len(program) - 1
    BY <2>1, <1>5, HeadsInPlace, KindsAreDisjoint
  <2>3. /\ programCounter \in 3 .. Len(program) - 1
        /\ programCounter \notin {1, 2, Len(program), Len(program) + 1}
    BY <1>3, <2>2
  <2>4. speed = program[1].str[1] /\ enabled
    BY <2>1, <2>3 DEF PowerInv, Powered
  <2> QED BY <1>1, <2>1, <2>3, <2>4 DEF PowerInv, Powered
<1>8. CASE EndTurn
  <2>1. doing \in Turn /\ doing' = "idle" /\ UNCHANGED <<toBoard, speed, enabled>>
    BY <1>8 DEF EndTurn
  <2>2. /\ IsRunning /\ programCounter \in 4 .. Len(program) - 1
    BY <2>1, TurnsInside
  <2>3. /\ programCounter \in 3 .. Len(program) - 1
        /\ programCounter \notin {1, 2, Len(program), Len(program) + 1}
    BY <1>3, <2>2
  <2>4. speed = program[1].str[1] /\ enabled
    BY <1>5, <2>1, <2>3 DEF PowerInv, Powered
  <2> QED BY <1>1, <2>1, <2>3, <2>4 DEF PowerInv, Powered
<1>9. CASE BeginSwitch
  <2>1. /\ doing = "idle" /\ toBoard # <<>> /\ Head(toBoard) \in Switch /\ toBoard' = Tail(toBoard)
        /\ doing' = Head(toBoard) /\ UNCHANGED <<speed, enabled>>
    BY <1>9 DEF BeginSwitch, Receive
  <2>2. /\ IsRunning
        /\ \/ programCounter = 2 /\ Len(toBoard) = 1 /\ Head(toBoard) = "["
           \/ programCounter = Len(program) /\ Len(toBoard) \in {1, 2} /\ Head(toBoard) = "]"
    BY <2>1, HeadsInPlace, KindsAreDisjoint
  <2>3. Len(toBoard') = Len(toBoard) - 1 /\ toBoard' \in Seq(Said)
    BY <1>2, <2>1
  <2>4. CASE programCounter = 2
    <3>1. programCounter' = 2 /\ 2 # Len(program) /\ 2 # Len(program) + 1
          /\ ~(2 \in 3 .. Len(program) - 1)
      <4>1. programCounter' = 2
        BY <1>1, <2>4
      <4> QED BY <1>4, <2>2, <4>1
    <3>2. Len(toBoard) = 1 /\ doing' = "["
      <4>1. programCounter # Len(program)
        BY <2>4, <3>1
      <4> QED BY <2>1, <2>2, <4>1
    <3>3. speed = program[1].str[1]
      BY <2>4, <3>2 DEF PowerInv
    <3> QED BY <1>1, <2>1, <3>1, <3>2, <3>3 DEF PowerInv, Powered
  <2>5. CASE programCounter = Len(program)
    <3>1. /\ programCounter' = Len(program)
          /\ Len(program) \notin {1, 2, Len(program) + 1} /\ ~(Len(program) \in 3 .. Len(program) - 1)
      BY <1>1, <1>3, <2>2, <2>5
    <3>2. Len(toBoard) \in {1, 2} /\ doing' = "]"
      BY <1>3, <2>1, <2>2, <2>5
    <3>3. toBoard' = <<>> => ~enabled
      <4>1. toBoard' = <<>> => Len(toBoard) = 1
        BY <2>3, <3>2
      <4> QED BY <2>1, <2>5, <4>1 DEF PowerInv, Unpowered
    <3>4. Len(toBoard') # 2
      <4>1. Len(toBoard) = 1 \/ Len(toBoard) = 2
        BY <3>2
      <4> QED BY <2>3, <4>1
    <3> QED BY <1>1, <2>1, <3>1, <3>2, <3>3, <3>4 DEF PowerInv, Unpowered
  <2> QED BY <2>2, <2>4, <2>5
<1>10. CASE EndSwitch
  <2>1. /\ doing \in Switch /\ doing' = "idle" /\ UNCHANGED <<toBoard, speed>>
        /\ enabled' = (doing = "[" \/ (doing = " " /\ ~motorsOnEh))
    BY <1>10 DEF EndSwitch
  <2>2. doing \notin Turn /\ doing # "idle"
    BY <2>1, KindsAreDisjoint
  <2>3. Powered => Powered'
    BY <2>1, <2>2 DEF Powered
  <2>4. doing = "]" \/ Unpowered => Unpowered'
    BY <2>1, <2>2 DEF Unpowered
  <2> QED BY <1>1, <1>5, <2>1, <2>3, <2>4 DEF PowerInv
<1> QED BY <1>1, <1>6, <1>7, <1>8, <1>9, <1>10 DEF BoardStep

\* Every step keeps what is said about the line and about the power.
LEMMA LineStep ==
  ASSUME RobotTypes, RobotTypes', ProgramInv, EchoAccountsForCommands, PowerInv, [Next]_vars
  PROVE  EchoAccountsForCommands' /\ PowerInv'
<1> USE DEF lineVars
<1>1. CASE ReadSerial
  BY <1>1, LineIsRead
<1>2. CASE Analyse
  BY <1>2, LineStays DEF Analyse, boardVars, history
<1>3. CASE AutoSolve
  <2>1. CASE autoSolveArm # "off" /\ ~IsRunning /\ lastSolution # <<>>
    <3>1. lastSolution \in Seq(Turn)
      BY DEF RobotTypes
    <3>2. /\ RunProgram(AutoSolveProgram(lastSolution))
          /\ UNCHANGED <<toHost, toBoard, doing, speed, enabled>>
      BY <1>3, <2>1 DEF AutoSolve, boardVars
    <3>3. UNCHANGED serRcv
      BY <2>1, <3>2 DEF RunProgram
    <3> QED BY <3>1, <3>2, <3>3, LineBegins, ProgramsAreEnclosed
  <2>2. CASE ~(autoSolveArm # "off" /\ ~IsRunning /\ lastSolution # <<>>)
    BY <1>3, <2>2, LineStays DEF AutoSolve, boardVars, runVars, history
  <2> QED BY <2>1, <2>2
<1>4. CASE Abort
  <2>1. CASE autoSolveArm = "overdue"
    BY <1>4, <2>1, LineIsDirty DEF Abort
  <2>2. CASE autoSolveArm # "overdue"
    BY <1>4, <2>2, LineStays DEF Abort, runVars, history
  <2> QED BY <2>1, <2>2
<1>5. CASE Event
  <2>1. CASE NoEvent
    BY <2>1, LineStays DEF NoEvent, boardVars, runVars, history
  <2>2. ASSUME NEW p, Paired(p), Enclosed(p), RunProgram(p), UNCHANGED boardVars
        PROVE  EchoAccountsForCommands' /\ PowerInv'
    <3>1. UNCHANGED <<serRcv, toHost, toBoard, doing, speed, enabled>>
      BY <2>2 DEF RunProgram, boardVars, runVars
    <3> QED BY <2>2, <3>1, LineBegins
  <2>3. CASE PressMoves
    BY <2>2, <2>3, ProgramsAreEnclosed, MovesAssumption DEF PressMoves
  <2>4. CASE PressF7
    BY <2>2, <2>4, ProgramsAreEnclosed DEF PressF7, RobotTypes
  <2>5. CASE PressF1
    BY <2>2, <2>5, ProgramsAreEnclosed DEF PressF1
  <2>6. CASE PressF2
    BY <2>2, <2>6, ProgramsAreEnclosed DEF PressF2
  <2>7. CASE PressF10
    BY <2>7, LineStays DEF PressF10, boardVars, runVars, history
  <2>8. CASE \E b \in {"[", "]"} : PressBracket(b)
    BY <2>8, LineIsDirty DEF PressBracket
  <2> QED BY <1>5, <2>1, <2>3, <2>4, <2>5, <2>6, <2>7, <2>8 DEF Event
<1>6. CASE ContinueProgram
  <2>1. CASE Send
    BY <2>1, LineIsSent
  <2>2. CASE ExpectMatches
    BY <2>2, LineIsMatched
  <2>3. CASE ProgramEnds \/ ExpectBegins \/ ExpectsMore
    BY <2>3, LineStays DEF ProgramEnds, ExpectBegins, ExpectsMore, boardVars, runVars, history
  <2>4. CASE WaitBegins \/ WaitsMore
    BY <2>4, LineStays DEF WaitBegins, WaitsMore, boardVars, runVars, history
  <2>5. CASE ExpectFails
    BY <2>5, LineIsDirty DEF ExpectFails
  <2>6. ASSUME NEW op, op \notin {"Send", "Expect"}, At(op), Advance,
               UNCHANGED <<boardVars, program, serRcv, clean>>
        PROVE  EchoAccountsForCommands' /\ PowerInv'
    <3>1. IsRunning /\ Current.op # "Send" /\ Current.op # "Expect"
      BY <2>6 DEF At
    <3>2. clean => toHost = <<>> /\ Begun = <<>> /\ toBoard = <<>>
      BY <3>1 DEF EchoAccountsForCommands
    <3>3. UNCHANGED <<serRcv, toHost, toBoard, doing, speed, enabled, program, clean>>
      BY <2>6 DEF boardVars
    <3> QED BY <2>6, <3>1, <3>2, <3>3, LineAdvances
  <2>7. CASE WaitEnds
    BY <2>6, <2>7 DEF WaitEnds, history
  <2>8. CASE SnapCal \/ ValidateCal
    BY <2>6, <2>8 DEF SnapCal, ValidateCal, history
  <2>9. CASE SaveCal \/ SolvedInst
    BY <2>6, <2>9 DEF SaveCal, SolvedInst, history
  <2> QED BY <1>6, <2>1, <2>2, <2>3, <2>4, <2>5, <2>7, <2>8, <2>9 DEF ContinueProgram
<1>7. CASE Board
  BY <1>7, EchoOnBoard, PowerOnBoard
<1>8. CASE Reset
  BY <1>8, LineIsDirty DEF Reset
<1>9. CASE CameraShoots \/ WaitElapses \/ TenSecondsElapse
  BY <1>9, LineStays DEF CameraShoots, WaitElapses, TenSecondsElapse, boardVars, runVars, history
<1>10. CASE UNCHANGED vars
  BY <1>10, LineStays DEF vars, hostVars, boardVars, runVars, history
<1> QED BY <1>1, <1>2, <1>3, <1>4, <1>5, <1>6, <1>7, <1>8, <1>9, <1>10 DEF Next, Host

-----------------------------------------------------------------------------
(***************************************************************************)
(* The theorems.                                                           *)
(***************************************************************************)

\* IInv holds when loop() starts.
LEMMA InvInit == Init => IInv
<1> SUFFICES ASSUME Init PROVE IInv
  OBVIOUS
<1>1. BoardTypeOK
  BY BoardTypeInit DEF Init
<1>2. RobotTypes
  <2>1. <<>> \in Seq(Turn) /\ <<>> \in Seq(Said)
    OBVIOUS
  <2> QED BY <1>1, <2>1 DEF Init, RobotTypes
<1>3. ProgramInv
  BY ProgramsAreEnclosed DEF Init, ProgramInv, IsRunning
<1>4. EchoAccountsForCommands /\ PowerInv
  BY DEF Init, EchoAccountsForCommands, PowerInv
<1> QED BY <1>2, <1>3, <1>4 DEF IInv

\* Every step keeps IInv.
LEMMA InvStep == IInv /\ [Next]_vars => IInv'
<1> SUFFICES ASSUME IInv, [Next]_vars PROVE IInv'
  OBVIOUS
<1>1. RobotTypes'
  BY RobotTypesStep DEF IInv
<1>2. ProgramInv'
  BY ProgramInvStep DEF IInv
<1>3. EchoAccountsForCommands' /\ PowerInv'
  BY <1>1, LineStep DEF IInv
<1> QED BY <1>1, <1>2, <1>3 DEF IInv

\* The inductive invariant: the types, the shape of the program that runs, what is on
\* the line and how far the board has got with powering on or off.
THEOREM RunnerIsSound == Spec => []IInv
BY InvInit, InvStep, PTL DEF Spec

\* What continueProgram takes for the echo of a string is all of what was sent, done by
\* the board, and nothing else is on the line (cubedriver.cpp:1755-1774).
THEOREM EchoIsAccountedFor == Spec => []EchoAccountsForCommands
<1>1. IInv => EchoAccountsForCommands
  BY DEF IInv
<1> QED BY <1>1, RunnerIsSound, PTL

\* While a turn is made the motors are held, at the speed of the program.
LEMMA TurnsAreHeld ==
  ASSUME IInv, clean, doing \in Turn
  PROVE  IsRunning /\ enabled /\ speed = program[1].str[1]
<1>1. IsRunning /\ programCounter \in 4 .. Len(program) - 1
  BY TurnsInside DEF IInv
<1>2. programCounter \in 3 .. Len(program) - 1
  BY <1>1
<1>3. doing # "["
  BY KindsAreDisjoint DEF Switch
<1> QED BY <1>1, <1>2, <1>3 DEF IInv, PowerInv, Powered

\* In a clean program the cube is turned with the motors held, at the program's speed.
THEOREM TurnsAreOrdered == Spec => []TurnsAsOrdered
<1>1. IInv => TurnsAsOrdered
  BY TurnsAreHeld DEF TurnsAsOrdered
<1> QED BY <1>1, RunnerIsSound, PTL

\* A clean program that is over has left the motors off.
THEOREM MotorsAreOff == Spec => []MotorsOffAfterProgram
<1>1. IInv => MotorsOffAfterProgram
  <2> SUFFICES ASSUME IInv, clean, ~IsRunning, program # <<>>
               PROVE  ~enabled
    BY DEF MotorsOffAfterProgram
  <2>1. programCounter = Len(program) + 1
    BY DEF IInv, ProgramInv, Paired, IsRunning
  <2> QED BY <2>1 DEF IInv, PowerInv, Unpowered
<1> QED BY <1>1, RunnerIsSound, PTL

-----------------------------------------------------------------------------
(***************************************************************************)
(* What has been seen.                                                     *)
(***************************************************************************)

Cleared == [f \in Face |-> [c \in Colour |-> "null"]]

\* What the calibration has learnt is forgotten or changed by nothing else.
LEMMA CalIs ==
  ASSUME [Next]_vars
  PROVE  cal' \in {cal, Cleared} \/ SnapCal
<1> USE DEF calVars
<1>1. CASE ReadSerial \/ Analyse \/ AutoSolve \/ Abort
  BY <1>1 DEF ReadSerial, Analyse, AutoSolve, Abort
<1>2. CASE NoEvent \/ PressMoves \/ PressF7 \/ PressF1 \/ PressF2 \/ PressF10
  BY <1>2 DEF NoEvent, PressMoves, PressF7, PressF1, PressF2, PressF10, Cleared
<1>3. CASE \E b \in {"[", "]"} : PressBracket(b)
  BY <1>3 DEF PressBracket
<1>4. CASE ProgramEnds \/ ExpectBegins \/ ExpectsMore \/ ExpectFails \/ WaitBegins \/ WaitsMore
  BY <1>4 DEF ProgramEnds, ExpectBegins, ExpectsMore, ExpectFails, WaitBegins, WaitsMore
<1>5. CASE Send \/ ExpectMatches \/ WaitEnds \/ ValidateCal \/ SaveCal \/ SolvedInst
  BY <1>5 DEF Send, ExpectMatches, WaitEnds, ValidateCal, SaveCal, SolvedInst
<1>6. CASE Board \/ Reset \/ CameraShoots \/ WaitElapses \/ TenSecondsElapse \/ UNCHANGED vars
  BY <1>6 DEF Board, Reset, CameraShoots, WaitElapses, TenSecondsElapse, vars, hostVars
<1> QED BY <1>1, <1>2, <1>3, <1>4, <1>5, <1>6 DEF Next, Host, Event, ContinueProgram

\* A calibration that is cleared is not a right one.
LEMMA TrustIsKept ==
  ASSUME cal' \in {cal, Cleared}, Trusted'
  PROVE  Trusted
<1>1. CASE cal' = cal
  BY <1>1 DEF Trusted
<1>2. CASE cal' = Cleared
  <2>1. ASSUME NEW f \in Face, NEW c \in Colour
        PROVE  FALSE
    <3>1. cal'[f][c] = "right"
      BY DEF Trusted
    <3>2. cal'[f][c] = "null"
      BY <1>2 DEF Cleared
    <3> QED BY <3>1, <3>2
  <2> QED BY <2>1 DEF Trusted
<1> QED BY <1>1, <1>2

\* What a cube shows is a colour.
LEMMA ShownIsColour ==
  ASSUME NEW c \in Cube, NEW f \in Face
  PROVE  Shown[c][f] \in Colour
<1>1. DOMAIN Shown[c] = Face
  BY CubeAssumption
<1> QED BY <1>1 DEF Colour

\* Where the calibration is right a colour is taken for itself.
LEMMA ClosestIsItself ==
  ASSUME Trusted, NEW f \in Face, NEW k \in Colour
  PROVE  Closest(f, k) = {k}
<1>1. \A c \in Colour : cal[f][c] = "right"
  BY DEF Trusted
<1> QED BY <1>1 DEF Closest

\* Then a picture is recognised as what it shows: no two cubes look the same.
LEMMA RightIsRecognised ==
  ASSUME Trusted, frame \in Cube \cup {Unknown}
  PROVE  Recognised(frame) \subseteq {frame}
<1>1. CASE frame = Unknown
  BY <1>1 DEF Recognised
<1>2. CASE frame # Unknown
  <2> DEFINE seen == [f \in Face |-> Closest(f, Shown[frame][f])]
  <2>1. frame \in Cube
    BY <1>2
  <2>2. ASSUME NEW f \in Face
        PROVE  seen[f] = {Shown[frame][f]}
    BY <2>1, <2>2, ShownIsColour, ClosestIsItself
  <2>3. Recognised(frame) =
          {c \in Cube : \A f \in Face : Shown[c][f] \in seen[f]}
            \cup (IF \A f \in Face : seen[f] = {Shown[frame][f]} THEN {} ELSE {Unknown})
    BY <1>2 DEF Recognised
  <2> HIDE DEF seen
  <2>4. ASSUME NEW c \in Recognised(frame)
        PROVE  c = frame
    <3>1. c \in Cube /\ \A f \in Face : Shown[c][f] = Shown[frame][f]
      BY <2>2, <2>3, <2>4
    <3> QED BY <2>1, <3>1, CubeAssumption
  <2> QED BY <2>4
<1> QED BY <1>1, <1>2

\* Nothing but a look makes what was seen recent.
LEMMA LookedStep ==
  ASSUME ProgramInv, SettledInv, [Next]_vars, ~Analyse, Looked'
  PROVE  Looked /\ ~SnapCal
<1> USE DEF runVars
<1>1. ASSUME UNCHANGED <<program, programCounter>>
      PROVE  JustWaited' = JustWaited
  BY <1>1 DEF JustWaited, IsRunning
<1>2. ASSUME NEW p, RunProgram(p), phase = "event"
      PROVE  JustWaited' => JustWaited
  <2>1. CASE IsRunning
    BY <1>1, <1>2, <2>1 DEF RunProgram
  <2>2. CASE ~IsRunning
    BY <1>2, <2>2 DEF RunProgram, JustWaited
  <2> QED BY <2>1, <2>2
<1>3. ASSUME IsRunning, Current.op # "WaitMicros", Advance, program' = program
      PROVE  ~JustWaited'
  <2>1. programCounter \in Nat
    BY DEF ProgramInv
  <2> QED BY <1>3, <2>1 DEF Advance, JustWaited, Current
<1>4. ASSUME call # "none", Return
      PROVE  phase' # "auto"
  BY <1>4 DEF Return, Goto, ProgramInv
<1>5. CASE ReadSerial
  BY <1>1, <1>5 DEF ReadSerial, Goto, Looked, SnapCal, At, ProgramInv
<1>6. CASE AutoSolve
  BY <1>6 DEF AutoSolve, Looked, SnapCal, At
<1>7. CASE Abort
  <2>1. phase' # "auto" /\ call = "none"
    BY <1>7 DEF Abort, Goto, ProgramInv
  <2>2. CASE autoSolveArm = "overdue"
    BY <1>7, <2>1, <2>2 DEF Abort, Looked, JustWaited, IsRunning
  <2>3. CASE autoSolveArm # "overdue"
    BY <1>1, <1>7, <2>1, <2>3 DEF Abort, Looked, SnapCal, At
  <2> QED BY <2>2, <2>3
<1>8. CASE Event
  <2>1. phase = "event" /\ call = "none"
    BY <1>8 DEF Event, NoEvent, PressMoves, PressF7, PressF1, PressF2, PressF10, PressBracket,
                Pressed
  <2>2. CASE NoEvent \/ PressF10 \/ \E b \in {"[", "]"} : PressBracket(b)
    BY <1>1, <2>1, <2>2 DEF NoEvent, PressF10, PressBracket, Goto, Looked, SnapCal, At
  <2>3. ASSUME NEW p, RunProgram(p)
        PROVE  timer' = timer /\ phase' # "auto" /\ (JustWaited' => JustWaited)
    BY <1>2, <2>1, <2>3 DEF RunProgram, Goto
  <2>4. CASE PressMoves \/ PressF7 \/ PressF1 \/ PressF2
    BY <2>1, <2>3, <2>4 DEF PressMoves, PressF7, PressF1, PressF2, Looked, SnapCal, At
  <2> QED BY <1>8, <2>2, <2>4 DEF Event
<1>9. CASE ContinueProgram
  <2>1. CASE ProgramEnds \/ ExpectBegins \/ ExpectsMore \/ WaitBegins \/ WaitsMore
    BY <1>1, <1>4, <2>1 DEF ProgramEnds, ExpectBegins, ExpectsMore, WaitBegins, WaitsMore, At,
                            Looked, SnapCal
  <2>2. CASE ExpectFails
    <3>1. ~JustWaited'
      <4>1. Len(program) \in Nat
        BY DEF ProgramInv, Paired
      <4> QED BY <2>2, <4>1 DEF ExpectFails, JustWaited, IsRunning
    <3> QED BY <1>4, <2>2, <3>1 DEF ExpectFails, At, Looked, SnapCal
  <2>3. CASE WaitEnds
    <3>1. InWait /\ timer = "due"
      BY <2>3 DEF WaitEnds, At, InWait, SettledInv
    <3> QED BY <3>1 DEF Looked, InWait, SnapCal, At
  <2>4. CASE Send \/ ExpectMatches
    BY <1>3, <2>4 DEF Send, ExpectMatches, At, Advance, Looked, SnapCal
  <2>5. CASE SnapCal \/ ValidateCal
    <3>1. timer = "off"
      BY <2>5 DEF SnapCal, ValidateCal, At, SettledInv, InWait
    <3> QED BY <1>3, <2>5, <3>1 DEF SnapCal, ValidateCal, At, Advance, Looked
  <2>6. CASE SaveCal \/ SolvedInst
    BY <1>3, <2>6 DEF SaveCal, SolvedInst, At, Advance, Looked, SnapCal
  <2> QED BY <1>9, <2>1, <2>2, <2>3, <2>4, <2>5, <2>6 DEF ContinueProgram
<1>10. ASSUME UNCHANGED <<program, programCounter, phase, call, cal>>,
              timer' \in {"analysed", "due"} => timer \in {"analysed", "due"}
       PROVE  Looked /\ ~SnapCal
  <2>1. ~SnapCal
    BY <1>10 DEF SnapCal, Advance, ProgramInv
  <2> QED BY <1>1, <1>10, <2>1 DEF Looked
<1>11. CASE Board \/ Reset \/ TenSecondsElapse \/ UNCHANGED vars
  BY <1>10, <1>11 DEF Board, Reset, TenSecondsElapse, vars, hostVars, calVars
<1>12. CASE CameraShoots \/ WaitElapses
  BY <1>10, <1>12 DEF CameraShoots, WaitElapses, calVars
<1> QED BY <1>5, <1>6, <1>7, <1>8, <1>9, <1>11, <1>12 DEF Next, Host

\* The solution is the one of what was recognised last.
LEMMA SeenStep ==
  ASSUME RobotTypes, ProgramInv, SettledInv, SeenInv, [Next]_vars
  PROVE  SeenInv'
<1>1. ASSUME UNCHANGED <<faceletColors, faceletStates, lastSolution>>, ~Analyse
      PROVE  SeenInv'
  <2>1. ASSUME Trusted', Looked'
        PROVE  Trusted /\ Looked
    BY <1>1, <2>1, LookedStep, CalIs, TrustIsKept
  <2> QED BY <1>1, <2>1 DEF SeenInv
<1>2. CASE Analyse
  <2>1. /\ faceletColors' = frame
        /\ faceletStates' \in Recognised(frame) \cup (IF Glare THEN {Unknown} ELSE {})
        /\ IF faceletStates' = faceletStates THEN lastSolution' = lastSolution
           ELSE lastSolution' \in Answers(faceletStates')
        /\ cal' = cal
    BY <1>2 DEF Analyse, calVars
  <2>2. faceletStates' \in Cube \cup {Unknown}
    BY <2>1 DEF Recognised
  <2>3. Trusted' => faceletStates' \in {frame} \cup (IF Glare THEN {Unknown} ELSE {})
    <3>1. Trusted' => Trusted
      BY <2>1 DEF Trusted
    <3> QED BY <2>1, <3>1, RightIsRecognised DEF RobotTypes
  <2>4. CASE faceletStates' = faceletStates
    BY <2>1, <2>3, <2>4 DEF SeenInv
  <2>5. CASE faceletStates' # faceletStates
    BY <2>1, <2>2, <2>3, <2>5 DEF SeenInv, Answers
  <2> QED BY <2>4, <2>5
<1>3. CASE Host
  BY <1>1, <1>2, <1>3, HostSees
<1>4. CASE Board \/ Reset
  BY <1>1, <1>2, <1>4 DEF Board, Reset, hostVars, seenVars
<1>5. CASE CameraShoots \/ WaitElapses \/ TenSecondsElapse
  BY <1>1, <1>2, <1>5 DEF CameraShoots, WaitElapses, TenSecondsElapse, seenVars
<1>6. CASE UNCHANGED vars
  BY <1>1, <1>2, <1>6 DEF vars, hostVars, seenVars
<1> QED BY <1>3, <1>4, <1>5, <1>6 DEF Next

\* A step that is not about the pictures.
LEMMA SettledStays ==
  ASSUME SettledInv, UNCHANGED <<program, programCounter, timer, frame, faceletColors>>,
         clean' => clean /\ cube' = cube,
         InWait => (call = "running" <=> call' = "running")
  PROVE  SettledInv'
BY DEF SettledInv, InWait, JustWaited, Unseen, IsRunning, Current

\* Before a program nothing is unseen.
LEMMA SettledBegins ==
  ASSUME SettledInv, call = "none", UNCHANGED <<frame, faceletColors, cube>>,
         NEW p, Paired(p), Enclosed(p), Waits(p), RunProgram(p)
  PROVE  SettledInv'
<1>1. CASE IsRunning
  BY <1>1, SettledStays DEF RunProgram, Goto, runVars, history
<1>2. CASE ~IsRunning
  <2>1. /\ program' = p /\ programCounter' = 1 /\ call' = "running" /\ timer' = timer
        /\ clean' = (clean \/ Quiet)
    BY <1>2 DEF RunProgram
  <2>2. timer = "off"
    BY <1>2 DEF SettledInv, InWait
  <2>3. clean' => {frame, faceletColors} \subseteq {cube, Unknown}
    BY <1>2, <2>1 DEF SettledInv, Unseen, Quiet
  <2>4. ~JustWaited' /\ Len(p) \in Nat
    BY <2>1 DEF JustWaited, Paired
  <2> QED BY <2>1, <2>2, <2>3, <2>4 DEF SettledInv, InWait
<1> QED BY <1>1, <1>2

\* The next instruction: after turns comes one that waits.
LEMMA SettledAdvances ==
  ASSUME ProgramInv, SettledInv, IsRunning, Current.op # "WaitMicros", Advance,
         UNCHANGED <<program, timer, frame, faceletColors, cube, clean>>
  PROVE  SettledInv'
<1> DEFINE k == programCounter
           L == Len(program)
<1>1. L \in Nat /\ k \in 1 .. L /\ k' = k + 1 /\ call' = "running"
  BY DEF ProgramInv, Paired, IsRunning, Advance
<1>2. timer = "off"
  BY DEF SettledInv, InWait
<1>3. ~JustWaited'
  BY <1>1 DEF JustWaited, Current
<1>4. L >= 4 /\ program[L].op = "Expect"
  <2>1. L >= 4 /\ program[L - 1].op = "Send" /\ L - 1 \in 1 .. L /\ (L - 1) + 1 = L
    BY <1>1 DEF ProgramInv, Enclosed
  <2> QED BY <2>1 DEF ProgramInv, Paired
<1>5. ASSUME Unseen
      PROVE  Unseen'
  <2>1. k \in 4 .. L - 1 /\ program[k].op \in {"Expect", "Solved"}
    BY <1>5 DEF Unseen, Current
  <2>2. k \in 1 .. L /\ k \in 3 .. L - 1
    BY <1>1, <2>1
  <2>3. k < L /\ program[k + 1].op \in {"Solved", "WaitMicros"}
    BY <2>1, <2>2 DEF SettledInv, Waits
  <2>4. k + 1 # L
    BY <1>4, <2>3
  <2>5. k + 1 \in 4 .. L - 1 /\ k + 1 <= L
    BY <1>1, <2>1, <2>3, <2>4
  <2> QED BY <1>1, <2>3, <2>5 DEF Unseen, IsRunning, Current
<1> QED BY <1>1, <1>2, <1>3, <1>5 DEF SettledInv, InWait

\* While the program waits, or has just waited, and is clean nothing is being turned.
LEMMA NoTurnInWait ==
  ASSUME ProgramInv, EchoAccountsForCommands, clean, InWait \/ JustWaited
  PROVE  doing \notin Turn
<1>1. ~(IsRunning /\ Current.op = "Expect")
  <2>1. CASE InWait
    BY <2>1 DEF InWait
  <2>2. CASE JustWaited
    <3>1. programCounter \in 1 .. Len(program) /\ program[programCounter - 1].op # "Send"
      BY <2>2 DEF JustWaited, IsRunning, ProgramInv, Paired
    <3> QED BY <3>1 DEF ProgramInv, Paired, Current
  <2> QED BY <2>1, <2>2
<1>2. Begun = <<>>
  BY <1>1 DEF EchoAccountsForCommands
<1> QED BY <1>2 DEF Begun

\* A turn ends: from now on the pictures are of before.
LEMMA SettledTurns ==
  ASSUME RobotTypes, ProgramInv, EchoAccountsForCommands, SettledInv, EndTurn,
         UNCHANGED <<frame, hostVars>>
  PROVE  SettledInv'
<1>1. UNCHANGED <<program, programCounter, timer, call, frame, faceletColors, clean>>
  BY DEF hostVars, runVars, seenVars, history
<1>2. CASE ~clean
  BY <1>1, <1>2, SettledStays
<1>3. CASE clean
  <2>1. doing \in Turn
    BY DEF EndTurn
  <2>2. /\ IsRunning /\ programCounter \in 4 .. Len(program) - 1 /\ Current.op = "Expect"
    BY <1>3, <2>1, TurnsInside, BoardHasPart
  <2>3. Unseen'
    BY <1>1, <2>2 DEF Unseen, IsRunning, Current
  <2>4. timer = "off" /\ ~InWait
    BY <2>2 DEF SettledInv, InWait
  <2>5. ~JustWaited
    BY <1>3, <2>1, NoTurnInWait
  <2>6. ~JustWaited' /\ ~InWait'
    BY <1>1, <2>4, <2>5 DEF JustWaited, InWait, IsRunning, Current
  <2> QED BY <1>1, <2>3, <2>4, <2>6 DEF SettledInv
<1> QED BY <1>2, <1>3

\* A wait begins, goes on and ends.
LEMMA SettledWaits ==
  ASSUME RobotTypes, ProgramInv, EchoAccountsForCommands, SettledInv,
         Analyse \/ WaitBegins \/ WaitEnds \/ CameraShoots \/ WaitElapses
  PROVE  SettledInv'
<1>1. CASE Analyse
  <2>1. call = "none" /\ call' = "none"
    BY <1>1 DEF Analyse, ProgramInv, Goto
  <2>2. /\ UNCHANGED <<program, programCounter, frame, cube, clean>> /\ faceletColors' = frame
        /\ timer' = IF timer = "shot" THEN "analysed" ELSE timer
    BY <1>1 DEF Analyse, boardVars, history
  <2>3. InWait' = InWait /\ JustWaited' = JustWaited /\ Unseen' = Unseen
    BY <2>2 DEF InWait, JustWaited, Unseen, IsRunning, Current
  <2> QED BY <2>1, <2>2, <2>3 DEF SettledInv
<1>2. CASE WaitBegins
  <2>1. InWait /\ call = "running"
    BY <1>2 DEF WaitBegins, At, InWait
  <2>2. phase \in {"auto", "event", "program"}
    BY <2>1 DEF ProgramInv
  <2>3. call' # "running"
    BY <1>2, <2>2 DEF WaitBegins, Return, Goto
  <2>4. /\ UNCHANGED <<program, programCounter, frame, faceletColors, cube, clean>>
        /\ timer' = "set"
    BY <1>2 DEF WaitBegins, boardVars, seenVars, history
  <2>5. InWait' = InWait /\ JustWaited' = JustWaited /\ Unseen' = Unseen
    BY <2>4 DEF InWait, JustWaited, Unseen, IsRunning, Current
  <2> QED BY <2>1, <2>3, <2>4, <2>5 DEF SettledInv
<1>3. CASE WaitEnds
  <2>1. InWait /\ call = "waking" /\ timer \in {"off", "due"}
    BY <1>3 DEF WaitEnds, At, InWait
  <2>2. clean => frame = cube /\ faceletColors = cube
    BY <2>1 DEF SettledInv
  <2>3. /\ UNCHANGED <<program, frame, faceletColors, cube, clean>>
        /\ timer' = "off" /\ call' = "running"
    BY <1>3 DEF WaitEnds, Advance, boardVars, seenVars, history
  <2> QED BY <2>2, <2>3 DEF SettledInv
<1>4. CASE CameraShoots
  <2>1. /\ UNCHANGED <<program, programCounter, call, faceletColors, cube, clean, doing>>
        /\ frame' \in {cube} \cup (IF doing \in Turn THEN {Unknown} ELSE {})
        /\ timer' = IF timer = "set" THEN "shot" ELSE timer
    BY <1>4 DEF CameraShoots, boardVars, seenVars, history
  <2>2. InWait' = InWait /\ JustWaited' = JustWaited /\ Unseen' = Unseen
    BY <2>1 DEF InWait, JustWaited, Unseen, IsRunning, Current
  <2>3. clean /\ (InWait \/ JustWaited) => frame' = cube
    BY <2>1, NoTurnInWait
  <2> QED BY <2>1, <2>2, <2>3 DEF SettledInv
<1>5. CASE WaitElapses
  <2>1. /\ UNCHANGED <<program, programCounter, call, frame, faceletColors, cube, clean>>
        /\ timer = "analysed" /\ timer' = "due"
    BY <1>5 DEF WaitElapses, boardVars, seenVars, history
  <2>2. InWait' = InWait /\ JustWaited' = JustWaited /\ Unseen' = Unseen
    BY <2>1 DEF InWait, JustWaited, Unseen, IsRunning, Current
  <2> QED BY <2>1, <2>2 DEF SettledInv
<1> QED BY <1>1, <1>2, <1>3, <1>4, <1>5

\* The program is given up.
LEMMA SettledFails ==
  ASSUME ProgramInv, SettledInv, ExpectFails \/ (Abort /\ autoSolveArm = "overdue")
  PROVE  SettledInv'
<1>1. CASE ExpectFails
  <2>1. /\ program' = program /\ programCounter' = Len(program) + 1 /\ ~clean'
        /\ UNCHANGED timer /\ ~InWait
    BY <1>1 DEF ExpectFails, At, InWait
  <2>2. Len(program) \in Nat
    BY DEF ProgramInv, Paired
  <2>3. ~InWait'
    BY <2>1, <2>2 DEF InWait, IsRunning
  <2> QED BY <2>1, <2>3 DEF SettledInv
<1>2. CASE Abort /\ autoSolveArm = "overdue"
  <2>1. program' = <<>> /\ programCounter' = 1 /\ ~clean' /\ timer' = "off"
    BY <1>2 DEF Abort
  <2>2. ~InWait' /\ Waits(program')
    BY <2>1 DEF InWait, IsRunning, Waits
  <2> QED BY <2>1, <2>2 DEF SettledInv
<1> QED BY <1>1, <1>2

\* Every step keeps what is said about the pictures.
LEMMA SettledStep ==
  ASSUME RobotTypes, ProgramInv, EchoAccountsForCommands, SettledInv, [Next]_vars
  PROVE  SettledInv'
<1> USE DEF boardVars, seenVars, runVars, history
<1>1. CASE ReadSerial
  <2>1. call = "none" /\ call' = "none"
    BY <1>1 DEF ReadSerial, ProgramInv, Goto
  <2> QED BY <1>1, <2>1, SettledStays DEF ReadSerial
<1>2. CASE Analyse
  BY <1>2, SettledWaits
<1>3. CASE AutoSolve
  <2>1. CASE autoSolveArm # "off" /\ ~IsRunning /\ lastSolution # <<>>
    <3>1. lastSolution \in Seq(Turn) /\ call = "none" /\ RunProgram(AutoSolveProgram(lastSolution))
          /\ UNCHANGED <<frame, faceletColors, cube>>
      BY <1>3, <2>1 DEF AutoSolve, RobotTypes
    <3> QED BY <3>1, SettledBegins, ProgramsAreEnclosed, ProgramsWait
  <2>2. CASE ~(autoSolveArm # "off" /\ ~IsRunning /\ lastSolution # <<>>)
    BY <1>3, <2>2, SettledStays DEF AutoSolve, Goto
  <2> QED BY <2>1, <2>2
<1>4. CASE Abort
  <2>1. CASE autoSolveArm # "overdue"
    <3>1. call = "none" /\ call' = "none"
      BY <1>4 DEF Abort, ProgramInv, Goto
    <3> QED BY <1>4, <2>1, <3>1, SettledStays DEF Abort
  <2> QED BY <1>4, <2>1, SettledFails
<1>5. CASE Event
  <2>1. CASE NoEvent \/ PressF10
    BY <2>1, SettledStays DEF NoEvent, PressF10, Pressed, Goto
  <2>2. CASE \E b \in {"[", "]"} : PressBracket(b)
    BY <2>2, SettledStays DEF PressBracket, Pressed, Goto
  <2>3. CASE PressMoves
    BY <2>3, SettledBegins, ProgramsAreEnclosed, ProgramsWait, MovesAssumption
       DEF PressMoves, Pressed
  <2>4. CASE PressF7
    BY <2>4, SettledBegins, ProgramsAreEnclosed, ProgramsWait DEF PressF7, Pressed, RobotTypes
  <2>5. CASE PressF1 \/ PressF2
    BY <2>5, SettledBegins, ProgramsAreEnclosed, ProgramsWait DEF PressF1, PressF2, Pressed
  <2> QED BY <1>5, <2>1, <2>2, <2>3, <2>4, <2>5 DEF Event
<1>6. CASE ContinueProgram
  <2>1. CASE ProgramEnds \/ ExpectBegins \/ ExpectsMore
    BY <2>1, SettledStays DEF ProgramEnds, ExpectBegins, ExpectsMore, At, InWait
  <2>2. CASE WaitBegins \/ WaitEnds
    BY <2>2, SettledWaits
  <2>3. CASE ExpectFails
    BY <2>3, SettledFails
  <2>4. CASE WaitsMore
    <3>1. call = "waking" /\ phase \in {"auto", "event", "program"}
      BY <2>4 DEF WaitsMore, ProgramInv
    <3>2. call' # "running"
      BY <2>4, <3>1 DEF WaitsMore, Return, Goto
    <3> QED BY <2>4, <3>1, <3>2, SettledStays DEF WaitsMore
  <2>5. CASE Send \/ ExpectMatches
    BY <2>5, SettledAdvances DEF Send, ExpectMatches, At
  <2>6. CASE SnapCal \/ ValidateCal
    BY <2>6, SettledAdvances DEF SnapCal, ValidateCal, At
  <2>7. CASE SaveCal \/ SolvedInst
    BY <2>7, SettledAdvances DEF SaveCal, SolvedInst, At
  <2> QED BY <1>6, <2>1, <2>2, <2>3, <2>4, <2>5, <2>6, <2>7 DEF ContinueProgram
<1>7. CASE Board
  <2>1. CASE EndTurn
    BY <1>7, <2>1, SettledTurns DEF Board
  <2>2. CASE ~EndTurn
    <3>1. UNCHANGED cube
      BY <1>7, <2>2 DEF Board, BoardStep, SetSpeed, BeginTurn, BeginSwitch, EndSwitch
    <3>2. UNCHANGED <<program, programCounter, timer, frame, faceletColors, call, clean>>
      BY <1>7 DEF Board, hostVars
    <3> QED BY <3>1, <3>2, SettledStays
  <2> QED BY <2>1, <2>2
<1>8. CASE Reset
  BY <1>8, SettledStays DEF Reset
<1>9. CASE CameraShoots \/ WaitElapses
  BY <1>9, SettledWaits
<1>10. CASE TenSecondsElapse
  BY <1>10, SettledStays DEF TenSecondsElapse
<1>11. CASE UNCHANGED vars
  BY <1>11, SettledStays DEF vars, hostVars
<1> QED BY <1>1, <1>2, <1>3, <1>4, <1>5, <1>6, <1>7, <1>8, <1>9, <1>10, <1>11 DEF Next, Host

\* The invariants of what has been seen.
LEMMA SeenAlways == Spec => [](IInv /\ SettledInv /\ SeenInv)
<1>1. Init => SettledInv /\ SeenInv
  <2>1. Init => ~InWait /\ ~JustWaited /\ ~Unseen /\ Waits(program) /\ timer = "off" /\ ~clean
    BY DEF Init, InWait, JustWaited, Unseen, IsRunning, Waits
  <2>2. Init => faceletStates = faceletColors /\ lastSolution = <<>>
    BY DEF Init
  <2> QED BY <2>1, <2>2 DEF SettledInv, SeenInv
<1>2. IInv /\ SettledInv /\ SeenInv /\ [Next]_vars => SettledInv' /\ SeenInv'
  BY SettledStep, SeenStep DEF IInv
<1> QED BY <1>1, <1>2, InvInit, InvStep, PTL DEF Spec

-----------------------------------------------------------------------------
(***************************************************************************)
(* The kinds of steps, for what a program is for.                          *)
(***************************************************************************)

\* Nothing is said after it.
Spoils == ~clean' /\ program' \in {program, <<>>}

\* The cube and the program stay where they are.
Rests ==
  /\ clean /\ UNCHANGED <<program, programCounter, cube>>
  /\ cal' \in {cal, Cleared} /\ mismatch' \in {mismatch, FALSE}
  /\ Come' = Come \/ programCounter \in {2, Len(program)}

\* A turn is made and echoed.
Turns ==
  /\ clean /\ EndTurn /\ UNCHANGED <<program, programCounter, cal, mismatch>>
  /\ Come' = Come + 1

\* An armed robot starts, right after a look.
Solves(p) ==
  /\ phase = "auto" /\ call = "none"
  /\ lastSolution # <<>> /\ p = AutoSolveProgram(lastSolution)

\* A program p is given to the runner.
Given(p) ==
  /\ cal' \in {cal, Cleared} /\ mismatch' \in {mismatch, FALSE}
  /\ \/ p = <<>>
     \/ Solves(p)
     \/ \E s \in Seq(Turn) : p = MovesProgram(s)
     \/ p = CalProgram("SnapCal") /\ mismatch' = FALSE /\ cal' = Cleared
     \/ p = CalProgram("ValidateCal") /\ mismatch' = FALSE

Begins ==
  /\ ~IsRunning /\ programCounter' = 1 /\ UNCHANGED cube
  /\ clean' => clean \/ Quiet
  /\ Given(program')

Advances ==
  /\ clean /\ IsRunning /\ programCounter' = programCounter + 1
  /\ UNCHANGED <<program, cube>>
  /\ Current.op = "Send" => Come' = 0
  /\ Current.op = "Expect" => Come = Len(Current.str)
  /\ UNCHANGED <<cal, mismatch>> \/ SnapCal \/ ValidateCal

\* The runner takes it, or ignores it.
LEMMA RunIs ==
  ASSUME RobotTypes, UNCHANGED <<cube, serRcv, toHost>>, NEW p, RunProgram(p), Given(p)
  PROVE  Spoils \/ Rests \/ Begins
<1>1. CASE IsRunning
  <2>1. UNCHANGED <<program, programCounter, clean>> /\ Come' = Come
    BY <1>1 DEF RunProgram, runVars, history, Come
  <2>2. cal' \in {cal, Cleared} /\ mismatch' \in {mismatch, FALSE} /\ clean \in BOOLEAN
    BY DEF Given, RobotTypes
  <2> QED BY <2>1, <2>2 DEF Spoils, Rests
<1>2. CASE ~IsRunning
  <2>1. program' = p /\ programCounter' = 1 /\ clean' = (clean \/ Quiet)
    BY <1>2 DEF RunProgram
  <2> QED BY <1>2, <2>1 DEF Begins
<1> QED BY <1>1, <1>2

\* Every step is one of these.
LEMMA StepIs ==
  ASSUME IInv, [Next]_vars
  PROVE  Spoils \/ Rests \/ Turns \/ Begins \/ Advances
<1> DEFINE Goal == Spoils \/ Rests \/ Turns \/ Begins \/ Advances
<1> USE DEF boardVars, seenVars, runVars, calVars, history
<1>0. RobotTypes /\ ProgramInv /\ EchoAccountsForCommands /\ clean \in BOOLEAN
  BY DEF IInv, RobotTypes
<1>1. ASSUME UNCHANGED <<program, programCounter, cube, serRcv, toHost, clean, cal, mismatch>>
      PROVE  Goal
  BY <1>1 DEF Spoils, Rests, Come
<1>2. CASE ReadSerial
  <2>1. serRcv' \o toHost' = serRcv \o toHost
    <3>1. serRcv \o toHost \in Seq(Said)
      BY <1>0, LineTypes, ConcatProperties
    <3>2. (serRcv \o toHost) \o <<>> = serRcv \o toHost
      BY <3>1, ConcatEmptySeq
    <3> QED BY <1>2, <3>2 DEF ReadSerial
  <2> QED BY <1>2, <2>1 DEF ReadSerial, Spoils, Rests, Come
<1>3. CASE Analyse \/ NoEvent \/ PressF10
  BY <1>1, <1>3 DEF Analyse, NoEvent, PressF10
<1>4. CASE AutoSolve
  <2>1. CASE autoSolveArm # "off" /\ ~IsRunning /\ lastSolution # <<>>
    <3>1. /\ RunProgram(AutoSolveProgram(lastSolution))
          /\ UNCHANGED <<cube, serRcv, toHost, cal, mismatch>>
      BY <1>4, <2>1 DEF AutoSolve, RunProgram
    <3>2. Given(AutoSolveProgram(lastSolution))
      BY <1>4, <2>1, <3>1 DEF AutoSolve, Solves, Given
    <3> QED BY <1>0, <3>1, <3>2, RunIs
  <2>2. CASE ~(autoSolveArm # "off" /\ ~IsRunning /\ lastSolution # <<>>)
    BY <1>1, <1>4, <2>2 DEF AutoSolve
  <2> QED BY <2>1, <2>2
<1>5. CASE Abort
  <2>1. CASE autoSolveArm = "overdue"
    BY <1>5, <2>1 DEF Abort, Spoils
  <2>2. CASE autoSolveArm # "overdue"
    BY <1>1, <1>5, <2>2 DEF Abort
  <2> QED BY <2>1, <2>2
<1>6. CASE PressMoves
  <2>1. PICK s \in Moves : RunProgram(MovesProgram(s))
    BY <1>6 DEF PressMoves
  <2>2. UNCHANGED <<cube, serRcv, toHost, cal, mismatch>>
    BY <1>6, <2>1 DEF PressMoves, RunProgram
  <2>3. Given(MovesProgram(s))
    BY <2>2, MovesAssumption DEF Given
  <2> QED BY <1>0, <2>1, <2>2, <2>3, RunIs
<1>7. CASE PressF7
  <2> DEFINE p == IF lastSolution = <<>> THEN <<>> ELSE MovesProgram(lastSolution)
  <2>1. RunProgram(p) /\ UNCHANGED <<cube, serRcv, toHost, cal, mismatch>>
    BY <1>7 DEF PressF7, RunProgram
  <2>2. Given(p)
    BY <1>0, <2>1 DEF Given, RobotTypes
  <2> HIDE DEF p
  <2> QED BY <1>0, <2>1, <2>2, RunIs
<1>8. CASE PressF1
  <2>1. RunProgram(CalProgram("ValidateCal")) /\ UNCHANGED <<cube, serRcv, toHost>>
    BY <1>8 DEF PressF1, RunProgram
  <2>2. Given(CalProgram("ValidateCal"))
    BY <1>8 DEF PressF1, Given
  <2> QED BY <1>0, <2>1, <2>2, RunIs
<1>9. CASE PressF2
  <2>1. RunProgram(CalProgram("SnapCal")) /\ UNCHANGED <<cube, serRcv, toHost>>
    BY <1>9 DEF PressF2, RunProgram
  <2>2. Given(CalProgram("SnapCal"))
    BY <1>9 DEF PressF2, Given, Cleared
  <2> QED BY <1>0, <2>1, <2>2, RunIs
<1>10. CASE \E b \in {"[", "]"} : PressBracket(b)
  BY <1>10 DEF PressBracket, Spoils
<1>11. CASE ProgramEnds \/ ExpectBegins \/ ExpectsMore \/ WaitBegins \/ WaitsMore
  BY <1>1, <1>11 DEF ProgramEnds, ExpectBegins, ExpectsMore, WaitBegins, WaitsMore
<1>12. CASE ExpectFails
  BY <1>12 DEF ExpectFails, Spoils
<1>13. CASE Send
  <2>1. /\ IsRunning /\ Current.op = "Send" /\ serRcv' = <<>> /\ UNCHANGED toHost
        /\ programCounter' = programCounter + 1
        /\ UNCHANGED <<program, cube, clean, cal, mismatch>>
    BY <1>13 DEF Send, At, Advance
  <2>2. clean => toHost = <<>>
    BY <1>0, <2>1 DEF EchoAccountsForCommands
  <2>3. clean => Come' = 0
    <3>1. Len(<<>> \o <<>>) = 0
      BY EmptySeq, ConcatEmptySeq
    <3> QED BY <2>1, <2>2, <3>1 DEF Come
  <2> QED BY <1>0, <2>1, <2>3 DEF Spoils, Advances
<1>14. CASE ExpectMatches
  <2>1. /\ IsRunning /\ Current.op = "Expect" /\ call = "waking" /\ serRcv = programRcvExpected
        /\ programCounter' = programCounter + 1
        /\ UNCHANGED <<program, cube, clean, cal, mismatch>>
    BY <1>14 DEF ExpectMatches, At, Advance
  <2>2. serRcv = Current.str
    BY <1>0, <2>1 DEF ProgramInv
  <2>3. ASSUME clean
        PROVE  Come = Len(Current.str)
    <3>1. serRcv = ((serRcv \o toHost) \o Begun) \o toBoard
      BY <1>0, <2>1, <2>2, <2>3 DEF EchoAccountsForCommands
    <3>2. Len(serRcv) = Len(serRcv) + Len(toHost) + Len(Begun) + Len(toBoard)
      BY <1>0, <3>1, LineParts
    <3>3. /\ serRcv \in Seq(Said) /\ toHost \in Seq(Said) /\ toBoard \in Seq(Said) /\ Begun \in Seq(Said)
      BY <1>0, LineTypes
    <3>4. Len(toHost) = 0
      BY <3>2, <3>3, LenProperties
    <3>5. serRcv \o toHost = serRcv
      BY <3>3, <3>4, EmptySeq, ConcatEmptySeq
    <3> QED BY <2>2, <3>5 DEF Come
  <2> QED BY <1>0, <2>1, <2>3 DEF Spoils, Advances
<1>15. ASSUME NEW op \in {"WaitMicros", "SnapCal", "ValidateCal", "SaveCal", "Solved"}, At(op),
              Advance, UNCHANGED <<program, cube, clean>>,
              UNCHANGED <<cal, mismatch>> \/ SnapCal \/ ValidateCal
       PROVE  Goal
  BY <1>0, <1>15 DEF At, Advance, Spoils, Advances
<1>16. CASE WaitEnds
  BY <1>15, <1>16 DEF WaitEnds
<1>17. CASE SnapCal
  BY <1>15, <1>17 DEF SnapCal
<1>18. CASE ValidateCal
  BY <1>15, <1>18 DEF ValidateCal
<1>19. CASE SaveCal
  BY <1>15, <1>19 DEF SaveCal
<1>20. CASE SolvedInst
  BY <1>15, <1>20 DEF SolvedInst
<1>21. CASE Board
  <2>1. /\ BoardStep
        /\ UNCHANGED <<serRcv, program, programCounter, clean, cal, mismatch>>
    BY <1>21 DEF Board, hostVars
  <2>2. CASE BeginTurn \/ EndSwitch
    BY <1>1, <2>1, <2>2 DEF BeginTurn, EndSwitch
  <2>3. CASE SetSpeed \/ BeginSwitch
    <3>1. UNCHANGED cube /\ toBoard # <<>> /\ Head(toBoard) \in Digit \cup Switch
      BY <2>3 DEF SetSpeed, BeginSwitch, Receive
    <3>2. clean => programCounter \in {2, Len(program)}
      BY <1>0, <3>1, HeadsInPlace, KindsAreDisjoint
    <3> QED BY <1>0, <2>1, <3>1, <3>2 DEF Spoils, Rests
  <2>4. CASE EndTurn
    <3>1. Come' = Come + 1
      <4>1. doing \in Said /\ toHost' = Append(toHost, doing)
        BY <2>4 DEF EndTurn, Answer, Said, Byte
      <4>2. serRcv \in Seq(Said) /\ toHost \in Seq(Said)
        BY <1>0, LineTypes
      <4>3. toHost' \in Seq(Said) /\ Len(toHost') = Len(toHost) + 1
        BY <4>1, <4>2, AppendProperties
      <4>4. Len(serRcv \o toHost') = Len(serRcv) + Len(toHost')
            /\ Len(serRcv \o toHost) = Len(serRcv) + Len(toHost)
        BY <4>2, <4>3, ConcatProperties
      <4>5. Len(serRcv) \in Nat /\ Len(toHost) \in Nat
        BY <4>2, LenProperties
      <4> QED BY <2>1, <4>3, <4>4, <4>5 DEF Come
    <3> QED BY <1>0, <2>1, <2>4, <3>1 DEF Spoils, Turns
  <2> QED BY <2>1, <2>2, <2>3, <2>4 DEF BoardStep
<1>22. CASE Reset
  BY <1>22 DEF Reset, Spoils
<1>23. CASE CameraShoots \/ WaitElapses \/ TenSecondsElapse
  BY <1>1, <1>23 DEF CameraShoots, WaitElapses, TenSecondsElapse
<1>24. CASE UNCHANGED vars
  BY <1>1, <1>24 DEF vars, hostVars
<1>25. CASE Event
  BY <1>3, <1>6, <1>7, <1>8, <1>9, <1>10, <1>25 DEF Event
<1>26. CASE ContinueProgram
  BY <1>11, <1>12, <1>13, <1>14, <1>16, <1>17, <1>18, <1>19, <1>20, <1>26 DEF ContinueProgram
<1> QED BY <1>2, <1>3, <1>4, <1>5, <1>21, <1>22, <1>23, <1>24, <1>25, <1>26 DEF Next, Host

-----------------------------------------------------------------------------
(***************************************************************************)
(* The time of an automatic solve.                                         *)
(***************************************************************************)

\* While a turn is made it is the next of the string that is waited for.
LEMMA ComeIsNat ==
  ASSUME RobotTypes
  PROVE  Come \in Nat
<1>1. serRcv \o toHost \in Seq(Said)
  BY LineTypes, ConcatProperties
<1> QED BY <1>1, LenProperties DEF Come

LEMMA TurnIsNext ==
  ASSUME RobotTypes, EchoAccountsForCommands, clean, doing \in Turn,
         IsRunning, Current.op = "Expect", NEW s, s = Current.str
  PROVE  Come + 1 \in 1 .. Len(s) /\ s[Come + 1] = doing
<1> DEFINE a == serRcv \o toHost
           ab == a \o Begun
<1>1. a \in Seq(Said) /\ Begun \in Seq(Said) /\ toBoard \in Seq(Said)
      /\ Len(Begun) = 1 /\ Begun[1] = doing
  BY LineTypes, ConcatProperties
<1>2. s = ab \o toBoard
  BY DEF EchoAccountsForCommands
<1>3. Len(a) = Come /\ Come \in Nat
  BY ComeIsNat DEF Come
<1> HIDE DEF a
<1>4. /\ ab \in Seq(Said) /\ Len(ab) = Len(a) + Len(Begun)
      /\ \A i \in 1 .. Len(a) + Len(Begun) : ab[i] = IF i <= Len(a) THEN a[i] ELSE Begun[i - Len(a)]
  BY <1>1, ConcatProperties
<1> HIDE DEF ab
<1>5. /\ Len(s) = Len(ab) + Len(toBoard)
      /\ \A i \in 1 .. Len(ab) + Len(toBoard) : s[i] = IF i <= Len(ab) THEN ab[i] ELSE toBoard[i - Len(ab)]
  <2>1. /\ Len(ab \o toBoard) = Len(ab) + Len(toBoard)
        /\ \A i \in 1 .. Len(ab) + Len(toBoard) :
             (ab \o toBoard)[i] = IF i <= Len(ab) THEN ab[i] ELSE toBoard[i - Len(ab)]
    <3>1. ab \in Seq(Said) /\ toBoard \in Seq(Said)
      BY <1>1, <1>4
    <3> QED BY <3>1, ConcatProperties
  <2> QED BY <1>2, <2>1 DEF ab
<1>6. Len(toBoard) \in Nat
  BY <1>1, LenProperties
<1>7. ab[Come + 1] = doing
  BY <1>1, <1>3, <1>4
<1>8. Len(ab) = Come + 1
  BY <1>1, <1>3, <1>4
<1>9. Come + 1 \in 1 .. Len(s) /\ Come + 1 \in 1 .. Len(ab) + Len(toBoard) /\ Come + 1 <= Len(ab)
  <2>1. Len(s) = Len(ab) + Len(toBoard)
    BY <1>5
  <2> QED BY <1>3, <1>6, <1>8, <2>1
<1>10. s[Come + 1] = ab[Come + 1]
  BY <1>5, <1>9
<1> QED BY <1>7, <1>9, <1>10

CalPrograms == {CalProgram("SnapCal"), CalProgram("ValidateCal")}

\* The programs there are.
Known(p) ==
  \/ p = <<>> \/ p \in CalPrograms
  \/ \E s \in Seq(Turn) : p = MovesProgram(s) \/ p = AutoSolveProgram(s)

\* Only an automatic solve takes the time, and only a calibration saves.
LEMMA WhatIsIn ==
  ASSUME NEW p, Known(p), NEW k \in 1 .. Len(p)
  PROVE  /\ p[k].op = "Solved" => k = 5 /\ \E s \in Seq(Turn) : p = AutoSolveProgram(s)
         /\ p[k].op = "SaveCal" => k = 4 * Len(Rotation) + 4 /\ p \in CalPrograms
<1>1. CASE p = <<>>
  BY <1>1
<1>2. ASSUME NEW s \in Seq(Turn), p = MovesProgram(s)
      PROVE  p[k].op \notin {"Solved", "SaveCal"}
  <2>1. /\ Len(p) = 8
        /\ p[1].op = "Send" /\ p[2].op = "Expect" /\ p[3].op = "WaitMicros"
        /\ p[4].op = "Send" /\ p[5].op = "Expect" /\ p[6].op = "WaitMicros"
        /\ p[7].op = "Send" /\ p[8].op = "Expect"
    BY <1>2, MovesShape
  <2>2. k = 1 \/ k = 2 \/ k = 3 \/ k = 4 \/ k = 5 \/ k = 6 \/ k = 7 \/ k = 8
    BY <2>1
  <2> QED BY <2>1, <2>2
<1>3. ASSUME NEW s \in Seq(Turn), p = AutoSolveProgram(s)
      PROVE  p[k].op # "SaveCal" /\ (p[k].op = "Solved" => k = 5)
  <2>1. /\ Len(p) = 8
        /\ p[1].op = "Send" /\ p[2].op = "Expect" /\ p[3].op = "Send"
        /\ p[4].op = "Expect" /\ p[4].str = s /\ p[5].op = "Solved"
        /\ p[6].op = "WaitMicros" /\ p[7].op = "Send" /\ p[8].op = "Expect"
    BY <1>3, AutoShape
  <2>2. k = 1 \/ k = 2 \/ k = 3 \/ k = 4 \/ k = 5 \/ k = 6 \/ k = 7 \/ k = 8
    BY <2>1
  <2> QED BY <2>1, <2>2
<1>4. ASSUME NEW op \in {"SnapCal", "ValidateCal"}, p = CalProgram(op)
      PROVE  p[k].op # "Solved" /\ (p[k].op = "SaveCal" => k = 4 * Len(Rotation) + 4)
  <2> DEFINE N == Len(Rotation)
  <2>1. N \in Nat /\ Calibration(p, op)
    BY <1>4, CalShape
  <2> HIDE DEF N
  <2>2. k \in 1 .. 4 * N + 6
    BY <2>1 DEF Calibration, N
  <2>3. CASE k \in {1, 2, 3}
    BY <2>1, <2>3 DEF Calibration
  <2>4. CASE k \in {4 * N + 4, 4 * N + 5, 4 * N + 6}
    BY <2>1, <2>4 DEF Calibration, N
  <2>5. ASSUME NEW n \in 1 .. N, k \in {4 * n, 4 * n + 1, 4 * n + 2, 4 * n + 3}
        PROVE  p[k].op \notin {"Solved", "SaveCal"}
    <3>1. Round(p, op, n)
      BY <2>1 DEF Calibration, N
    <3> QED BY <2>5, <3>1 DEF Round
  <2> QED BY <2>1, <2>2, <2>3, <2>4, <2>5, CalPlaces DEF N
<1> QED BY <1>1, <1>2, <1>3, <1>4 DEF Known, CalPrograms

LEMMA KnownStep ==
  ASSUME IInv, Known(program), [Next]_vars
  PROVE  Known(program')
<1>1. CASE Begins
  <2>1. Given(program') /\ lastSolution \in Seq(Turn)
    BY <1>1 DEF Begins, IInv, RobotTypes
  <2> QED BY <2>1 DEF Given, Solves, Known, CalPrograms
<1>2. CASE ~Begins
  <2>1. program' = program \/ program' = <<>>
    BY <1>2, StepIs DEF Spoils, Rests, Turns, Advances
  <2> QED BY <2>1 DEF Known
<1> QED BY <1>1, <1>2

\* The cube is the one that was recognised when an automatic solve begins.
LEMMA SolveBegins ==
  ASSUME SolutionsSolve, IInv, SettledInv, SeenInv, Begins, clean', Trusted',
         Solves(program')
  PROVE  SolveInv'
<1>0. Trusted /\ Looked /\ lastSolution # <<>> /\ program' = AutoSolveProgram(lastSolution)
  BY TrustIsKept DEF Begins, Given, Solves, Looked
<1>1. faceletStates \in Cube \ {Solved} /\ lastSolution = Solution[faceletStates]
  BY <1>0 DEF SeenInv
<1>2. faceletStates = faceletColors
  BY <1>0, <1>1, CubeAssumption DEF SeenInv
<1>3. faceletColors \in {cube, Unknown}
  BY DEF Begins, Quiet, SettledInv, Unseen
<1>4. cube = faceletStates
  BY <1>1, <1>2, <1>3, CubeAssumption
<1>5. PICK w : w \in Ways(cube)
  BY <1>1, <1>4 DEF SolutionsSolve
<1>6. programCounter' = 1 /\ cube' = cube
  BY DEF Begins
<1>7. /\ cube \in Cube \ {Solved} /\ w \in Ways(cube)
      /\ program' = AutoSolveProgram(Solution[cube])
      /\ programCounter' \in 1 .. 3 => cube' = cube
      /\ programCounter' # 4 /\ programCounter' # 5
  BY <1>0, <1>1, <1>4, <1>5, <1>6
<1> QED BY <1>7 DEF SolveInv

\* It has no instruction that takes the time when anything else begins.
LEMMA OthersBegin ==
  ASSUME Given(program'), ~Solves(program')
  PROVE  ~\E k \in 1 .. Len(program') : program'[k].op = "Solved"
<1> DEFINE p == program'
<1>1. p = <<>> \/ p \in CalPrograms \/ \E s \in Seq(Turn) : p = MovesProgram(s)
  BY DEF Given, CalPrograms
<1> HIDE DEF p
<1>2. SUFFICES ASSUME NEW k \in 1 .. Len(p), p[k].op = "Solved" PROVE FALSE
  BY DEF p
<1>3. PICK s \in Seq(Turn) : p = AutoSolveProgram(s)
  BY <1>1, <1>2, WhatIsIn DEF Known
<1>4. Len(p) = 8 /\ p[3].op = "Send" /\ p[5].op = "Solved"
  BY <1>3, AutoShape
<1>5. p # <<>>
  <2>1. p = <<>> => Len(p) = 0
    BY EmptySeq
  <2>2. Len(p) = 8
    BY <1>4
  <2> QED BY <2>1, <2>2
<1>6. CASE p \in CalPrograms
  <2>1. PICK op \in {"SnapCal", "ValidateCal"} : p = CalProgram(op)
    BY <1>6 DEF CalPrograms
  <2>2. Calibration(p, op)
    BY <2>1, CalShape
  <2> QED BY <1>4, <2>2 DEF Calibration
<1>7. ASSUME NEW t \in Seq(Turn), p = MovesProgram(t)
      PROVE  FALSE
  <2>1. p[5].op = "Expect"
    BY <1>7, MovesShape
  <2> QED BY <1>4, <2>1
<1> QED BY <1>1, <1>5, <1>6, <1>7

\* As far as the echoes have come the cube has gone through the solution.
LEMMA SolveStep ==
  ASSUME SolutionsSolve, IInv, SettledInv, SeenInv, Known(program), SolveInv, [Next]_vars
  PROVE  SolveInv'
<1> SUFFICES ASSUME clean', Trusted',
                    \E k \in 1 .. Len(program') : program'[k].op = "Solved"
             PROVE  SolveInv'
  BY DEF SolveInv
<1>1. CASE Begins
  <2>1. Given(program')
    BY <1>1 DEF Begins
  <2> QED BY <1>1, <2>1, SolveBegins, OthersBegin
<1>2. CASE ~Begins
  <2>1. clean /\ program' = program
    BY <1>2, StepIs DEF Spoils, Rests, Turns, Advances
  <2> DEFINE AsFar(c, w) ==
        /\ program = AutoSolveProgram(Solution[c])
        /\ programCounter \in 1 .. 3 => cube = c
        /\ programCounter = 4 => cube = w[Come]
        /\ programCounter = 5 => cube = Solved
  <2>10. Trusted
    <3>1. PICK k \in 1 .. Len(program) : program[k].op = "Solved"
      BY <2>1
    <3>2. PICK t \in Seq(Turn) : program = AutoSolveProgram(t)
      BY <3>1, WhatIsIn
    <3>3. ~SnapCal
      <4>1. SUFFICES ASSUME SnapCal PROVE FALSE
        OBVIOUS
      <4>2. programCounter \in 1 .. 8 /\ program[programCounter].op = "SnapCal"
        <5>1. Len(program) = 8
          BY <3>2, AutoShape
        <5>2. programCounter <= Len(program) /\ program[programCounter].op = "SnapCal"
          BY <4>1 DEF SnapCal, At, IsRunning, Current
        <5>3. programCounter \in 1 .. Len(program) + 1
          BY DEF IInv, ProgramInv
        <5> QED BY <5>1, <5>2, <5>3
      <4>3. \/ programCounter = 1 \/ programCounter = 2 \/ programCounter = 3
            \/ programCounter = 4 \/ programCounter = 5 \/ programCounter = 6
            \/ programCounter = 7 \/ programCounter = 8
        BY <4>2
      <4> QED BY <3>2, <4>2, <4>3, AutoShape
    <3> QED BY <3>3, CalIs, TrustIsKept
  <2>0. PICK c \in Cube \ {Solved} : \E w \in Ways(c) : AsFar(c, w)
    BY <2>1, <2>10 DEF SolveInv
  <2>2. PICK w \in Ways(c) : AsFar(c, w)
    BY <2>0
  <2> DEFINE s == Solution[c]
             p == program
  <2>3. /\ w[0] = c /\ w[Len(s)] = Solved /\ s \in Seq(Turn)
        /\ \A k \in 1 .. Len(s) : w[k] = Effect[s[k]][w[k - 1]]
    BY SolutionAssumption DEF Ways
  <2>4. /\ Len(p) = 8
        /\ p[1].op = "Send" /\ p[2].op = "Expect" /\ p[3].op = "Send"
        /\ p[4].op = "Expect" /\ p[4].str = s /\ p[5].op = "Solved"
        /\ p[6].op = "WaitMicros" /\ p[7].op = "Send" /\ p[8].op = "Expect"
    BY <2>2, <2>3, AutoShape
  <2>5. programCounter \in 1 .. 9
    BY <2>4 DEF IInv, ProgramInv
  <2> HIDE DEF s
  <2> SUFFICES /\ programCounter' \in 1 .. 3 => cube' = c
               /\ programCounter' = 4 => cube' = w[Come']
               /\ programCounter' = 5 => cube' = Solved
    BY <2>1, <2>2 DEF SolveInv
  <2>6. CASE Rests
    BY <2>2, <2>4, <2>6 DEF Rests
  <2>7. CASE Turns
    <3>1. doing \in Turn /\ EndTurn /\ programCounter' = programCounter /\ Come' = Come + 1
      BY <2>7 DEF Turns, EndTurn
    <3>2. /\ programCounter \in 4 .. 7 /\ Current.op = "Expect" /\ IsRunning
      BY <2>1, <2>4, <3>1, TurnsInside, BoardHasPart DEF IInv
    <3>3. programCounter = 4
      <4>1. programCounter = 4 \/ programCounter = 5 \/ programCounter = 6 \/ programCounter = 7
        BY <3>2
      <4> QED BY <2>4, <3>2, <4>1 DEF Current
    <3>4. Current.str = s /\ cube = w[Come]
      BY <2>2, <2>4, <3>3 DEF Current
    <3>5. Come + 1 \in 1 .. Len(s) /\ s[Come + 1] = doing
      BY <2>1, <3>1, <3>2, <3>4, TurnIsNext DEF IInv
    <3>6. enabled
      BY <2>1, <3>1, TurnsAreHeld
    <3>7. cube' = Effect[doing][cube]
      BY <3>1, <3>6 DEF EndTurn
    <3>8. (Come + 1) - 1 = Come
      BY <3>5, ComeIsNat DEF IInv
    <3> QED BY <2>3, <3>1, <3>3, <3>4, <3>5, <3>7, <3>8
  <2>8. CASE Advances
    <3>1. /\ IsRunning /\ programCounter' = programCounter + 1 /\ cube' = cube
          /\ Current.op = "Send" => Come' = 0
          /\ Current.op = "Expect" => Come = Len(Current.str)
      BY <2>8 DEF Advances
    <3>2. CASE programCounter \in 1 .. 2
      BY <2>2, <3>1, <3>2
    <3>3. CASE programCounter = 3
      BY <2>2, <2>3, <2>4, <3>1, <3>3 DEF Current
    <3>4. CASE programCounter = 4
      BY <2>2, <2>3, <2>4, <3>1, <3>4 DEF Current
    <3>5. CASE programCounter > 4
      BY <2>5, <3>1, <3>5
    <3> QED BY <2>5, <3>2, <3>3, <3>4, <3>5
  <2> QED BY <1>2, <2>6, <2>7, <2>8, StepIs DEF Spoils
<1> QED BY <1>1, <1>2

\* The time is taken where the solution is complete.
LEMMA TimeIsTaken ==
  ASSUME IInv, Known(program), SolveInv, [Next]_vars
  PROVE  Taken
<1> SUFFICES ASSUME elapsed' = "final", elapsed # "final", clean, Trusted
             PROVE  cube = Solved
  BY DEF Taken
<1>1. SolvedInst
  <2> USE DEF armVars
  <2>1. ~(ReadSerial \/ Analyse \/ AutoSolve \/ Abort)
    BY DEF ReadSerial, Analyse, AutoSolve, Abort
  <2>2. ~(NoEvent \/ PressMoves \/ PressF7 \/ PressF1 \/ PressF2 \/ PressF10)
    BY DEF NoEvent, PressMoves, PressF7, PressF1, PressF2, PressF10
  <2>3. ~\E b \in {"[", "]"} : PressBracket(b)
    BY DEF PressBracket
  <2>4. ~(ProgramEnds \/ ExpectBegins \/ ExpectsMore \/ ExpectFails \/ WaitBegins \/ WaitsMore)
    BY DEF ProgramEnds, ExpectBegins, ExpectsMore, ExpectFails, WaitBegins, WaitsMore, Return
  <2>5. ~(Send \/ ExpectMatches \/ WaitEnds \/ SnapCal \/ ValidateCal \/ SaveCal)
    BY DEF Send, ExpectMatches, WaitEnds, SnapCal, ValidateCal, SaveCal
  <2>6. ~(Board \/ Reset \/ CameraShoots \/ WaitElapses \/ TenSecondsElapse \/ UNCHANGED vars)
    BY DEF Board, Reset, CameraShoots, WaitElapses, TenSecondsElapse, vars, hostVars
  <2> QED BY <2>1, <2>2, <2>3, <2>4, <2>5, <2>6 DEF Next, Host, Event, ContinueProgram
<1>2. programCounter \in 1 .. Len(program) /\ program[programCounter].op = "Solved"
  BY <1>1 DEF SolvedInst, At, IsRunning, Current, IInv, ProgramInv, Paired
<1>3. programCounter = 5
  BY <1>2, WhatIsIn
<1> QED BY <1>2, <1>3 DEF SolveInv

\* If what the solver returns solves, and the calibration is right, the time of a clean
\* automatic solve is taken with the cube solved: the picture it was computed from was of
\* the cube as it is, and the echoes tell that all of it was turned
\* (cubedriver.cpp:918-934, 1026-1050, 1111-1118, 1755-1774, 1812-1819).
THEOREM SolvedTimeIsRight == ASSUME SolutionsSolve PROVE Spec => SolvedTimeIsTrue
<1>1. Init => Known(program) /\ SolveInv
  BY DEF Init, Known, SolveInv
<1>2. /\ IInv /\ SettledInv /\ SeenInv /\ Known(program) /\ SolveInv /\ [Next]_vars
      => Known(program)' /\ SolveInv'
  BY KnownStep, SolveStep
<1>3. IInv /\ Known(program) /\ SolveInv /\ [Next]_vars => Taken
  BY TimeIsTaken
<1> QED BY <1>1, <1>2, <1>3, SeenAlways, PTL DEF Spec, SolvedTimeIsTrue

-----------------------------------------------------------------------------
(***************************************************************************)
(* The calibration.                                                        *)
(***************************************************************************)

StageOf(k, come) ==
  (k \div 4) + IF k % 4 = 3 \/ (k % 4 = 2 /\ come > 0) THEN 1 ELSE 0

\* The stage in each of the four instructions of a round.
LEMMA StageIs ==
  /\ Stage = StageOf(programCounter, Come)
  /\ \A n, come \in Nat :
       /\ StageOf(4 * n, come) = n /\ StageOf(4 * n + 1, come) = n
       /\ StageOf(4 * n + 2, come) = IF come > 0 THEN n + 1 ELSE n
       /\ StageOf(4 * n + 3, come) = n + 1
<1>1. Stage = StageOf(programCounter, Come)
  BY DEF Stage, StageOf
<1>2. ASSUME NEW n \in Nat
      PROVE  /\ (4 * n) \div 4 = n /\ (4 * n) % 4 = 0
             /\ (4 * n + 1) \div 4 = n /\ (4 * n + 1) % 4 = 1
             /\ (4 * n + 2) \div 4 = n /\ (4 * n + 2) % 4 = 2
             /\ (4 * n + 3) \div 4 = n /\ (4 * n + 3) % 4 = 3
  BY Z3
<1>3. ASSUME NEW n \in Nat, NEW come \in Nat
      PROVE  /\ StageOf(4 * n, come) = n /\ StageOf(4 * n + 1, come) = n
             /\ StageOf(4 * n + 2, come) = IF come > 0 THEN n + 1 ELSE n
             /\ StageOf(4 * n + 3, come) = n + 1
  BY <1>2 DEF StageOf
<1> QED BY <1>1, <1>3

\* There is a place for every colour.
Placed == \A f \in Face : Colour \subseteq DOMAIN cal[f]

LEMMA PlacedStep ==
  ASSUME Placed, [Next]_vars
  PROVE  Placed'
<1>1. CASE cal' = cal
  BY <1>1 DEF Placed
<1>2. CASE cal' = Cleared
  BY <1>2 DEF Placed, Cleared
<1>3. CASE SnapCal
  BY <1>3 DEF SnapCal, Placed
<1> QED BY <1>1, <1>2, <1>3, CalIs

\* What a calibration is.
LEMMA CalProgramIs ==
  ASSUME NEW op \in {"SnapCal", "ValidateCal"}, NEW p, p = CalProgram(op)
  PROVE  /\ Len(Rotation) \in Nat /\ Len(CalState) = Len(Rotation)
         /\ Len(p) = 4 * Len(Rotation) + 6 /\ Calibration(p, op)
         /\ p[4].op = IF Len(Rotation) = 0 THEN "SaveCal" ELSE op
<1>1. Len(Rotation) \in Nat /\ Calibration(p, op) /\ Len(CalState) = Len(Rotation)
  BY CalShape, CalAssumption
<1>2. CASE Len(Rotation) = 0
  BY <1>1, <1>2 DEF Calibration
<1>3. CASE Len(Rotation) # 0
  <2>1. 1 \in 1 .. Len(Rotation) /\ 4 * 1 = 4
    BY <1>1, <1>3
  <2>2. Round(p, op, 1)
    BY <1>1, <2>1 DEF Calibration
  <2> QED BY <1>1, <1>3, <2>1, <2>2 DEF Calibration, Round
<1> QED BY <1>1, <1>2, <1>3 DEF Calibration

\* A calibration that begins has forgotten the one before.
LEMMA LearntBegins ==
  ASSUME Given(program'), program' \in CalPrograms, lastSolution \in Seq(Turn)
  PROVE  LearntRight'
<1> DEFINE p == program'
<1>1. PICK op \in {"SnapCal", "ValidateCal"} : p = CalProgram(op)
  BY DEF CalPrograms
<1> HIDE DEF p
<1>2. /\ Len(Rotation) \in Nat /\ Len(p) = 4 * Len(Rotation) + 6
      /\ p[4].op = IF Len(Rotation) = 0 THEN "SaveCal" ELSE op
  BY <1>1, CalProgramIs
<1>3. Len(p) # 0 /\ Len(p) # 8
  BY <1>2, Z3
<1>4. p # <<>> /\ \A s \in Seq(Turn) : p # MovesProgram(s) /\ p # AutoSolveProgram(s)
  BY <1>3, MovesShape, AutoShape
<1>5. CASE p = CalProgram("SnapCal") /\ mismatch' = FALSE /\ cal' = Cleared
  BY <1>5 DEF LearntRight, Cleared
<1>6. CASE p = CalProgram("ValidateCal") /\ mismatch' = FALSE
  <2>1. p[4].op # "SnapCal"
    BY <1>6, CalProgramIs
  <2> QED BY <1>6, <2>1 DEF LearntRight, p
<1> QED BY <1>4, <1>5, <1>6 DEF Given, Solves, p

\* A picture of the expected state is sampled, or found to be as expected.
LEMMA LearntMore ==
  ASSUME ~Glare, IInv, SettledInv, SeenInv, Placed, LearntRight, clean,
         JustWaited, cube = CalState[Current.n], program' = program,
         \/ SnapCal /\ program[4].op = "SnapCal"
         \/ ValidateCal /\ program[4].op # "SnapCal"
  PROVE  LearntRight'
<1>1. faceletColors = cube /\ cube \in Cube /\ (Trusted => faceletStates = cube)
  BY DEF SettledInv, SeenInv, Looked, IInv, RobotTypes, BoardTypeOK
<1>2. CASE SnapCal /\ program[4].op = "SnapCal"
  <2>1. cal' = [f \in Face |-> [cal[f] EXCEPT ![Shown[CalState[Current.n]][f]] = "right"]]
    BY <1>1, <1>2 DEF SnapCal
  <2>2. ASSUME NEW f \in Face, NEW c \in Colour
        PROVE  cal'[f][c] # "wrong"
    <3>1. cal[f][c] # "wrong" /\ c \in DOMAIN cal[f]
      BY <1>2 DEF LearntRight, Placed
    <3> QED BY <2>1, <3>1
  <2> QED BY <1>2, <2>2 DEF LearntRight
<1>3. CASE ValidateCal /\ program[4].op # "SnapCal"
  BY <1>1, <1>3 DEF ValidateCal, LearntRight, Trusted
<1> QED BY <1>2, <1>3

\* The program is a calibration that goes on, and the cube is in the state that is due.
OnTrack ==
  /\ programCounter < Len(program) - 1
  /\ programCounter < 3 \/ cube = StateAt(Stage)

\* While nothing moves.
LEMMA CalRests ==
  ASSUME IInv, CalInv, Rests, clean', program \in CalPrograms, OnTrack'
  PROVE  LearntRight'
<1>1. PICK op \in {"SnapCal", "ValidateCal"} : program = CalProgram(op)
  BY DEF CalPrograms
<1>2. Len(Rotation) \in Nat /\ Len(program) = 4 * Len(Rotation) + 6
  BY <1>1, CalProgramIs
<1>3. /\ UNCHANGED <<program, programCounter, cube>> /\ clean
      /\ cal' \in {cal, Cleared} /\ mismatch' \in {mismatch, FALSE}
      /\ Come' = Come \/ programCounter \in {2, Len(program)}
  BY DEF Rests
<1>4. programCounter \in Nat
  BY DEF IInv, ProgramInv
<1>5. OnTrack
  <2>1. CASE programCounter < 3
    BY <1>3, <2>1 DEF OnTrack
  <2>2. CASE ~(programCounter < 3)
    <3>1. programCounter < Len(program) - 1 /\ cube = StateAt(Stage')
      BY <1>3, <2>2 DEF OnTrack, StateAt
    <3>2. Come' = Come
      BY <1>2, <1>3, <1>4, <2>2, <3>1
    <3>3. Stage' = Stage
      BY <1>3, <3>2 DEF Stage
    <3> QED BY <3>1, <3>3 DEF OnTrack
  <2> QED BY <2>1, <2>2
<1>6. LearntRight
  BY <1>3, <1>5 DEF CalInv, CalPrograms, OnTrack
<1>7. CASE program[4].op = "SnapCal"
  <2>1. \A f \in Face, c \in Colour : cal'[f][c] # "wrong"
    BY <1>3, <1>6, <1>7 DEF LearntRight, Cleared
  <2> QED BY <1>3, <1>7, <2>1 DEF LearntRight
<1>8. CASE program[4].op # "SnapCal"
  <2> SUFFICES ASSUME Trusted' PROVE LearntRight'
    BY <1>3, <1>8 DEF LearntRight
  <2>1. ~mismatch
    BY <1>3, <1>6, <1>8, TrustIsKept DEF LearntRight
  <2>2. mismatch' = mismatch \/ mismatch' = FALSE
    BY <1>3
  <2>3. ~mismatch'
    BY <2>1, <2>2
  <2> QED BY <1>3, <1>8, <2>3 DEF LearntRight
<1> QED BY <1>7, <1>8

\* A turn takes the cube from the state of a round to that of the next.
LEMMA CalTurns ==
  ASSUME CalibrationCloses, IInv, CalInv, Turns, clean', program \in CalPrograms, OnTrack'
  PROVE  LearntRight'
<1> DEFINE N == Len(Rotation)
           k == programCounter
<1>1. PICK op \in {"SnapCal", "ValidateCal"} : program = CalProgram(op)
  BY DEF CalPrograms
<1>2. /\ N \in Nat /\ Len(CalState) = N
      /\ Len(program) = 4 * N + 6 /\ Calibration(program, op)
  BY <1>1, CalProgramIs
<1>3. /\ clean /\ EndTurn /\ doing \in Turn /\ UNCHANGED <<program, programCounter, cal, mismatch>>
      /\ Come' = Come + 1
  BY DEF Turns, EndTurn
<1>4. IsRunning /\ k \in 4 .. Len(program) - 1 /\ Current.op = "Expect" /\ k < Len(program) - 1
  BY <1>3, TurnsInside, BoardHasPart DEF IInv, OnTrack
<1> HIDE DEF N
<1>5. PICK n \in 1 .. N : k = 4 * n + 2
  <2>1. k \in 1 .. 4 * N + 6
    BY <1>2, <1>4
  <2>2. k \notin {1, 2, 3}
    BY <1>4
  <2>3. k # 4 * N + 4
    BY <1>2, <1>4 DEF Calibration, Current, N
  <2>4. k \notin {4 * N + 5, 4 * N + 6}
    BY <1>2, <1>4
  <2>5. PICK n \in 1 .. N : k \in {4 * n, 4 * n + 1, 4 * n + 2, 4 * n + 3}
    BY <1>2, <2>1, <2>2, <2>3, <2>4, CalPlaces
  <2>6. Round(program, op, n)
    BY <1>2 DEF Calibration, N
  <2>7. k = 4 * n + 2
    BY <1>4, <2>5, <2>6 DEF Round, Current
  <2> QED BY <2>7
<1>6. Current.str = <<Rotation[n]>>
  BY <1>2, <1>5 DEF Calibration, Round, Current, N
<1>7. Come = 0 /\ doing = Rotation[n]
  <2> DEFINE t == <<Rotation[n]>>
  <2>1. Come + 1 \in 1 .. Len(t) /\ t[Come + 1] = doing
    BY <1>3, <1>4, <1>6, TurnIsNext DEF IInv
  <2>2. Come \in Nat
    BY ComeIsNat DEF IInv
  <2> QED BY <2>1, <2>2
<1>8. /\ cube' = Effect[Rotation[n]][cube] /\ cube \in Cube
  BY <1>3, <1>7, TurnsAreHeld DEF EndTurn, IInv, RobotTypes, BoardTypeOK
<1>9. n \in Nat /\ n <= N /\ k >= 3
  BY <1>2, <1>5
<1>10. Stage = n /\ Stage' = n + 1
  <2>1. Stage = StageOf(4 * n + 2, 0)
    BY <1>5, <1>7, StageIs
  <2>2. Stage' = StageOf(4 * n + 2, 1)
    BY <1>3, <1>5, <1>7 DEF Stage, StageOf
  <2> QED BY <1>9, <2>1, <2>2, StageIs
<1>11. cube' = StateAt(n + 1)
  BY <1>3, <1>4, <1>9, <1>10 DEF OnTrack, StateAt
<1>12. cube = CalState[n]
  <2>1. CalState[n] \in Cube
    BY <1>2, <1>9, CalAssumption DEF N
  <2>2. n \in 1 .. Len(Rotation)
    BY DEF N
  <2> QED BY <1>8, <1>11, <2>1, <2>2 DEF CalibrationCloses
<1>13. cube = StateAt(Stage)
  BY <1>2, <1>9, <1>10, <1>12 DEF StateAt
<1>14. LearntRight
  BY <1>3, <1>4, <1>13 DEF CalInv, CalPrograms
<1> QED BY <1>3, <1>14 DEF LearntRight, Trusted

\* From one instruction to the next.
LEMMA CalAdvances ==
  ASSUME ~Glare, IInv, SettledInv, SeenInv, CalInv, Advances, clean', program \in CalPrograms,
         OnTrack'
  PROVE  LearntRight'
<1> DEFINE N == Len(Rotation)
           k == programCounter
<1>1. PICK op \in {"SnapCal", "ValidateCal"} : program = CalProgram(op)
  BY DEF CalPrograms
<1>2. /\ N \in Nat /\ Len(CalState) = N
      /\ Len(program) = 4 * N + 6 /\ Calibration(program, op)
      /\ program[4].op = IF N = 0 THEN "SaveCal" ELSE op
  BY <1>1, CalProgramIs
<1>3. /\ clean /\ IsRunning /\ programCounter' = k + 1 /\ program' = program /\ cube' = cube
      /\ Current.op = "Send" => Come' = 0
      /\ Current.op = "Expect" => Come = Len(Current.str)
      /\ UNCHANGED <<cal, mismatch>> \/ SnapCal \/ ValidateCal
  BY DEF Advances
<1>4. /\ UNCHANGED <<cal, mismatch>> \/ Current.op = "SnapCal" \/ Current.op = "ValidateCal"
      /\ SnapCal => Current.op = "SnapCal"
      /\ ValidateCal => Current.op = "ValidateCal"
  BY <1>3 DEF SnapCal, ValidateCal, At
<1>5. k \in 1 .. 4 * N + 3
  <2>1. k \in 1 .. Len(program) + 1 /\ k + 1 < Len(program) - 1
    BY <1>3 DEF IInv, ProgramInv, OnTrack
  <2> QED BY <1>2, <2>1
<1>6. Come \in Nat
  BY ComeIsNat DEF IInv
<1>7. ASSUME k < 3 \/ cube = StateAt(Stage)
      PROVE  LearntRight
  <2>1. k < Len(program) - 1
    BY <1>2, <1>5
  <2> QED BY <1>3, <1>7, <2>1 DEF CalInv, CalPrograms
<1>8. ASSUME LearntRight, UNCHANGED <<cal, mismatch>>
      PROVE  LearntRight'
  BY <1>3, <1>8 DEF LearntRight, Trusted
<1>9. k + 1 >= 3 => cube = StateAt(Stage')
  BY <1>3, <1>5 DEF OnTrack, StateAt
<1>10. Stage' = StageOf(k + 1, Come')
  BY <1>3 DEF Stage, StageOf
<1> HIDE DEF N
<1>11. CASE k \in {1, 2}
  <2>1. Current.op \in {"Send", "Expect"}
    BY <1>2, <1>11 DEF Calibration, Current
  <2> QED BY <1>4, <1>7, <1>8, <1>11, <2>1
<1>12. ASSUME Stage' = Stage, k >= 3
       PROVE  LearntRight /\ cube = StateAt(Stage)
  <2>1. cube = StateAt(Stage)
    BY <1>2, <1>5, <1>9, <1>12
  <2> QED BY <1>7, <2>1
<1>13. CASE k = 3
  <2>1. Current.op = "WaitMicros"
    BY <1>2, <1>13 DEF Calibration, Current
  <2>2. Stage = 1 /\ Stage' = 1
    <3>1. Stage = StageOf(4 * 0 + 3, 0) /\ Stage' = StageOf(4 * 1, 0)
      BY <1>10, <1>13, StageIs DEF StageOf
    <3> QED BY <3>1, StageIs
  <2> QED BY <1>4, <1>8, <1>12, <1>13, <2>1, <2>2
<1>14. ASSUME NEW n \in 1 .. N, k \in {4 * n, 4 * n + 1, 4 * n + 2, 4 * n + 3}
       PROVE  LearntRight'
  <2>1. Round(program, op, n) /\ n \in Nat /\ n >= 1 /\ n <= N /\ n + 1 \in Nat
    BY <1>2 DEF Calibration, N
  <2>2. k >= 3 /\ N # 0
    BY <1>14, <2>1
  <2>3. CASE k = 4 * n
    <3>1. Current.op = op /\ Current.n = n
      BY <2>1, <2>3 DEF Round, Current
    <3>2. Stage = n /\ Stage' = n
      <4>1. Stage = StageOf(4 * n, Come) /\ Stage' = StageOf(4 * n + 1, 0)
        BY <1>10, <2>3, <2>1, StageIs DEF StageOf
      <4> QED BY <1>6, <2>1, <4>1, StageIs
    <3>3. LearntRight /\ cube = CalState[Current.n]
      BY <1>2, <1>12, <2>1, <2>2, <3>1, <3>2 DEF StateAt
    <3>4. JustWaited
      <4>1. program[k - 1].op = "WaitMicros"
        <5>1. CASE n = 1
          BY <1>2, <2>3, <5>1 DEF Calibration
        <5>2. CASE n # 1
          <6>1. n - 1 \in 1 .. N /\ k - 1 = 4 * (n - 1) + 3
            BY <1>2, <2>1, <2>3, <5>2
          <6>2. Round(program, op, n - 1)
            BY <1>2, <6>1 DEF Calibration, N
          <6> QED BY <6>1, <6>2 DEF Round
        <5> QED BY <5>1, <5>2
      <4>2. k > 1
        BY <1>2, <1>5, <2>2
      <4> QED BY <1>3, <4>1, <4>2 DEF JustWaited
    <3>5. program[4].op = op
      BY <1>2, <2>2
    <3>6. CASE UNCHANGED <<cal, mismatch>>
      BY <1>8, <3>3, <3>6
    <3>7. CASE SnapCal \/ ValidateCal
      <4>1. CASE SnapCal
        <5>1. program[4].op = "SnapCal"
          BY <1>4, <3>1, <3>5, <4>1
        <5> QED BY <1>3, <3>3, <3>4, <4>1, <5>1, LearntMore DEF CalInv, Placed
      <4>2. CASE ValidateCal
        <5>1. program[4].op = "ValidateCal"
          BY <1>4, <3>1, <3>5, <4>2
        <5>2. program[4].op # "SnapCal"
          BY <5>1
        <5> QED BY <1>3, <3>3, <3>4, <4>2, <5>2, LearntMore DEF CalInv, Placed
      <4> QED BY <3>7, <4>1, <4>2
    <3> QED BY <1>3, <3>6, <3>7
  <2>4. CASE k = 4 * n + 1
    <3>1. Current.op = "Send" /\ Come' = 0
      BY <1>3, <2>1, <2>4 DEF Round, Current
    <3>2. Stage = n /\ Stage' = n
      <4>1. Stage = StageOf(4 * n + 1, Come) /\ Stage' = StageOf(4 * n + 2, 0)
        BY <1>10, <2>1, <2>4, <3>1, StageIs
      <4> QED BY <1>6, <2>1, <4>1, StageIs
    <3> QED BY <1>4, <1>8, <1>12, <2>2, <3>1, <3>2
  <2>5. CASE k = 4 * n + 2
    <3>1. Current.op = "Expect" /\ Current.str = <<Rotation[n]>>
      BY <2>1, <2>5 DEF Round, Current
    <3>2. Come = 1
      BY <1>3, <3>1
    <3>3. Stage = n + 1 /\ Stage' = n + 1
      <4>1. Stage = StageOf(4 * n + 2, 1) /\ Stage' = StageOf(4 * n + 3, 0)
        BY <1>10, <2>1, <2>5, <3>2, StageIs DEF StageOf
      <4> QED BY <2>1, <4>1, StageIs
    <3> QED BY <1>4, <1>8, <1>12, <2>2, <3>1, <3>3
  <2>6. CASE k = 4 * n + 3
    <3>1. Current.op = "WaitMicros"
      BY <2>1, <2>6 DEF Round, Current
    <3>2. Stage = n + 1 /\ Stage' = n + 1
      <4>1. 4 * n + 3 + 1 = 4 * (n + 1)
        BY <2>1
      <4>2. Stage = StageOf(4 * n + 3, Come) /\ Stage' = StageOf(4 * (n + 1), 0)
        BY <1>10, <2>1, <2>6, <4>1, StageIs DEF StageOf
      <4> QED BY <1>6, <2>1, <4>2, StageIs
    <3> QED BY <1>4, <1>8, <1>12, <2>2, <3>1, <3>2
  <2> QED BY <1>14, <2>3, <2>4, <2>5, <2>6
<1>15. k \notin {4 * N + 4, 4 * N + 5, 4 * N + 6} /\ k \in 1 .. 4 * N + 6
  BY <1>2, <1>5
<1> QED BY <1>2, <1>11, <1>13, <1>14, <1>15, CalPlaces

\* Every step keeps what is said about the calibration.
LEMMA CalStep ==
  ASSUME CalibrationCloses, ~Glare, IInv, SettledInv, SeenInv, CalInv, [Next]_vars
  PROVE  CalInv'
<1>1. Placed'
  BY PlacedStep DEF CalInv, Placed
<1>2. ASSUME clean', program' \in CalPrograms, OnTrack'
      PROVE  LearntRight'
  <2>1. CASE Begins
    <3>1. Given(program') /\ lastSolution \in Seq(Turn)
      BY <2>1 DEF Begins, IInv, RobotTypes
    <3> QED BY <1>2, <3>1, LearntBegins
  <2>2. CASE ~Begins
    <3>1. clean /\ program' = program /\ (Rests \/ Turns \/ Advances)
      BY <1>2, <2>2, StepIs DEF Spoils, Rests, Turns, Advances
    <3> QED BY <1>2, <3>1, CalRests, CalTurns, CalAdvances
  <2> QED BY <2>1, <2>2
<1> QED BY <1>1, <1>2 DEF CalInv, Placed, CalPrograms, OnTrack

\* What a calibration program saves is what a cube that is solved at the end has shown.
LEMMA SaveIsRight ==
  ASSUME IInv, Known(program), CalInv, SaveCal
  PROVE  SavedRight
<1> SUFFICES ASSUME clean, cube = Solved PROVE LearntRight
  BY DEF SavedRight, LearntRight
<1> DEFINE N == Len(Rotation)
<1>1. programCounter \in 1 .. Len(program) /\ program[programCounter].op = "SaveCal"
  BY DEF SaveCal, At, IsRunning, Current, IInv, ProgramInv, Paired
<1>2. programCounter = 4 * N + 4 /\ program \in CalPrograms
  BY <1>1, WhatIsIn
<1>3. N \in Nat /\ Len(CalState) = N /\ Len(program) = 4 * N + 6
  BY <1>2, CalProgramIs DEF CalPrograms
<1> HIDE DEF N
<1>4. programCounter = 4 * (N + 1) /\ N + 1 \in Nat /\ programCounter < Len(program) - 1
      /\ ~(N + 1 <= N)
  BY <1>2, <1>3
<1>5. Stage = N + 1
  <2>1. Come \in Nat
    BY ComeIsNat DEF IInv
  <2> QED BY <1>4, <2>1, StageIs
<1>6. cube = StateAt(Stage)
  BY <1>3, <1>4, <1>5 DEF StateAt
<1> QED BY <1>2, <1>4, <1>6 DEF CalInv, CalPrograms

\* If the command strings of the calibration turn its states one into the next, and a right
\* calibration recognises a still cube, then what a clean calibration saves is right when the
\* cube is solved at its end: every sample was taken of the colour it stands for, with the
\* cube at rest; and the test finds nothing wrong with a calibration that is right, which one
\* that F2 has cleared in the middle of it is not (cubedriver.cpp:1548-1554, 1779-1808).
THEOREM CalibrationIsTrue ==
  ASSUME CalibrationCloses, ~Glare
  PROVE  Spec => CalibrationIsRight
<1>1. Init => Known(program) /\ CalInv
  <2>1. Init => Placed /\ ~clean
    <3>1. CalFile \subseteq [Face -> [Colour -> Sample]]
      BY CalAssumption
    <3> QED BY <3>1 DEF Init, Placed
  <2> QED BY <2>1 DEF Init, Known, CalInv, Placed
<1>2. /\ IInv /\ SettledInv /\ SeenInv /\ Known(program) /\ CalInv /\ [Next]_vars
      => Known(program)' /\ CalInv'
  BY KnownStep, CalStep
<1>3. IInv /\ Known(program) /\ CalInv /\ [Next]_vars => SavedRight
  BY SaveIsRight DEF SavedRight
<1> QED BY <1>1, <1>2, <1>3, SeenAlways, PTL DEF Spec, CalibrationIsRight

==============================================================================
