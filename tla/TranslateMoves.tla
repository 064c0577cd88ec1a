---------------------------- MODULE TranslateMoves ----------------------------
(***************************************************************************)
(* cubedriver/translate_moves.cpp: a text of face turns becomes a string   *)
(* of one-byte motor commands, in which turns of opposite faces go         *)
(* together.  One action is one round of the loop of translateMoves().     *)
(* A text is a sequence of characters, a character a string of length 1.   *)
(***************************************************************************)
EXTENDS Integers, FiniteSets, SequencesExt

CONSTANTS
  Faces,      \* the faces that occur, 0 .. 5 for U R F D L B
  Notations,  \* how a turn is written: those of Documented and Mistakes
  MaxTokens,  \* bound on the turns of a text
  MaxSpaces   \* bound on the spaces between two of them

Documented == {"", "1", "+", "2", "'", "3", "-", "low"}
Mistakes == {"low2", "x"}

ASSUME BoundsAssumption ==
  /\ Faces \subseteq 0 .. 5 /\ Notations \subseteq Documented \cup Mistakes
  /\ MaxTokens \in Nat /\ MaxSpaces \in Nat

U_ == 0
R_ == 1
F_ == 2
D_ == 3
L_ == 4
B_ == 5
None == -1

(***************************************************************************)
(* Move and combineMoves.                                                  *)
(***************************************************************************)
Move == [face1 : {U_, L_, F_, None}, times1 : 0 .. 3,
         face2 : {R_, D_, B_, None}, times2 : 0 .. 3]
EmptyMove == [face1 |-> None, times1 |-> 0, face2 |-> None, times2 |-> 0]

Single(face, times) ==
  IF face \in {U_, L_, F_}
  THEN [EmptyMove EXCEPT !.face1 = face, !.times1 = times]
  ELSE [EmptyMove EXCEPT !.face2 = face, !.times2 = times]

IsEmpty(m) == m.times1 = 0 /\ m.times2 = 0

\* operator==: a face that does not turn does not matter.
Same(l, r) ==
  /\ l.times1 = r.times1 /\ (l.times1 = 0 \/ l.face1 = r.face1)
  /\ l.times2 = r.times2 /\ (l.times2 = 0 \/ l.face2 = r.face2)

\* Mutant of CanCombine: opposite faces are not compared.
CanCombineAny(l, r) ==
  /\ l.times1 > 0 /\ r.times1 > 0 => l.face1 = r.face1
  /\ l.times2 > 0 /\ r.times2 > 0 => l.face2 = r.face2

\* Mutant of CanCombine: only turns of one face are combined.
CanCombineSame(l, r) ==
  /\ l.times1 > 0 => r.times1 > 0 /\ l.face1 = r.face1
  /\ l.times2 > 0 => r.times2 > 0 /\ l.face2 = r.face2

CanCombine(l, r) ==
  /\ l.times1 > 0 /\ r.times1 > 0 => l.face1 = r.face1
  /\ l.times2 > 0 /\ r.times2 > 0 => l.face2 = r.face2
  /\ l.times1 > 0 /\ r.times2 > 0 => l.face1 % 3 = r.face2 % 3
  /\ l.times2 > 0 /\ r.times1 > 0 => l.face2 % 3 = r.face1 % 3

\* Mutant of Added: the second turn replaces the first.
AddedReplaces(face, times, rface, rtimes) ==
  IF rtimes > 0 THEN <<rface, rtimes>> ELSE <<face, times>>

\* One face of combineMoves: nothing there yet, both, or nothing to add.
Added(face, times, rface, rtimes) ==
  LET sum == (times + rtimes) % 4
  IN CASE times = 0 -> <<rface, rtimes>>
       [] times > 0 /\ rtimes > 0 -> <<IF sum = 0 THEN None ELSE face, sum>>
       [] times > 0 /\ rtimes = 0 -> <<face, times>>

Combine(l, r) ==
  LET one == Added(l.face1, l.times1, r.face1, r.times1)
      two == Added(l.face2, l.times2, r.face2, r.times2)
  IN [face1 |-> one[1], times1 |-> one[2], face2 |-> two[1], times2 |-> two[2]]

(***************************************************************************)
(* The table of commands.  Its three parts turn F and B, L and R, U and D  *)
(* by the same quarter turns.                                              *)
(***************************************************************************)
Times == << <<1, 0>>, <<2, 0>>, <<3, 0>>, <<1, 1>>, <<2, 1>>, <<3, 1>>, <<0, 1>>,
            <<1, 2>>, <<2, 2>>, <<3, 2>>, <<0, 2>>,
            <<1, 3>>, <<2, 3>>, <<3, 3>>, <<0, 3>> >>
Part == << <<F_, B_>>, <<L_, R_>>, <<U_, D_>> >>
Letter == <<
  <<"a", "b", "c", "d", "e", "f", "g", "h", "i", "j", "k", "l", "m", "n", "o">>,
  <<"p", "q", "r", "s", "t", "u", "v", "w", "x", "y", "z", "A", "B", "C", "D">>,
  <<"E", "F", "G", "H", "I", "J", "K", "L", "M", "N", "O", "P", "Q", "R", "S">> >>

Entry(p, k) ==
  [face1 |-> IF Times[k][1] = 0 THEN None ELSE Part[p][1], times1 |-> Times[k][1],
   face2 |-> IF Times[k][2] = 0 THEN None ELSE Part[p][2], times2 |-> Times[k][2]]

\* moveAndCmd
MoveAndCmd ==
  {<<Entry(p, k), Letter[p][k]>> : p \in 1 .. 3, k \in 1 .. 15}

\* lookupMoveCommand: the set of the commands found, empty when it throws.
Lookup(m) == {mc[2] : mc \in {e \in MoveAndCmd : Same(e[1], m)}}

(***************************************************************************)
(* What the firmware does with the commands: how far it turns which motor, *)
(* in which direction (1 is CW, -1 CCW).                                   *)
(***************************************************************************)
CW == 1
CCW == -1
Motors == << <<F_, B_>>, <<L_, R_>>, <<U_, D_>> >>
Turns == <<
  << 90,  CW,   0,  CW>>, <<180,  CW,   0,  CW>>, << 90, CCW,   0,  CW>>,
  << 90,  CW,  90,  CW>>, <<180,  CW,  90,  CW>>, << 90, CCW,  90,  CW>>,
  <<  0,  CW,  90,  CW>>, << 90,  CW, 180,  CW>>, <<180,  CW, 180,  CW>>,
  << 90, CCW, 180,  CW>>, <<  0,  CW, 180, CCW>>, << 90,  CW,  90, CCW>>,
  <<180,  CW,  90, CCW>>, << 90, CCW,  90, CCW>>, <<  0,  CW,  90, CCW>> >>

CmdPart(c) == CHOOSE p \in 1 .. 3 : \E k \in 1 .. 15 : Letter[p][k] = c
CmdIndex(c) == CHOOSE k \in 1 .. 15 : \E p \in 1 .. 3 : Letter[p][k] = c

\* The quarter turns of both motors.
Turned(c) ==
  LET t == Turns[CmdIndex(c)]
  IN <<((t[1] \div 90) * t[2]) % 4, ((t[3] \div 90) * t[4]) % 4>>

\* Mutant of HalfTurnMoves: a command is missing.
HalfTurnMovesFew == {"b", "e", "h", "i", "j", "m", "q", "t", "w", "x", "y", "z",
  "B", "F", "I", "L", "M", "N", "O", "Q"}

\* time_for_move_sequence.h
HalfTurnMoves ==
  {"b", "e", "h", "i", "j", "k", "m", "q", "t", "w", "x", "y", "z", "B", "F",
   "I", "L", "M", "N", "O", "Q"}

HalfTurns(cmds) == Cardinality({k \in DOMAIN cmds : cmds[k] \in HalfTurnMoves})

(***************************************************************************)
(* parseMove.                                                              *)
(***************************************************************************)
Upper == <<"U", "R", "F", "D", "L", "B">>
Lower == <<"u", "r", "f", "d", "l", "b">>

Space == " "

SkipSpaces(s) ==
  LET rest == {k \in DOMAIN s : s[k] # Space}
  IN IF rest = {} THEN <<>>
     ELSE SubSeq(s, CHOOSE k \in rest : \A j \in rest : k <= j, Len(s))

\* Mutant of Suffix: "3" is not known.
SuffixFew == [c \in {"1", "+", "2", "'", "-"} |->
             CASE c \in {"1", "+"} -> 1 [] c = "2" -> 2 [] OTHER -> 3]

\* The suffixes that are consumed, and the turns they stand for.
Suffix == [c \in {"1", "+", "2", "'", "3", "-"} |->
             CASE c \in {"1", "+"} -> 1 [] c = "2" -> 2 [] OTHER -> 3]

\* The face and the times of the turn at the start of s, and what follows it:
\* no element if it throws.
ParseMove(s) ==
  LET t == SkipSpaces(s)
      rest(n) == SkipSpaces(SubSeq(t, n, Len(t)))
  IN UNION {
       {<<f - 1, 3, rest(2)>> : f \in {g \in 1 .. 6 : t # <<>> /\ t[1] = Lower[g]}},
       {IF Len(t) > 1 /\ t[2] \in DOMAIN Suffix
        THEN <<f - 1, Suffix[t[2]], rest(3)>> ELSE <<f - 1, 1, rest(2)>> :
          f \in {g \in 1 .. 6 : t # <<>> /\ t[1] = Upper[g]}}}

-----------------------------------------------------------------------------
\* The texts, as the comment of parseMove describes them, and two mistakes.
Token == {t \in Faces \X Notations : t[2] \in {"low2", "x"} => t[1] = U_}
TokenTimes(n) == CASE n \in {"", "1", "+"} -> 1
                   [] n = "2" -> 2
                   [] n \in {"'", "3", "-", "low"} -> 3
                   [] OTHER -> 0
IsMistake(t) == TokenTimes(t[2]) = 0
TokenText(t) ==
  CASE t[2] = "" -> <<Upper[t[1] + 1]>>
    [] t[2] = "low" -> <<Lower[t[1] + 1]>>
    [] t[2] = "low2" -> <<Lower[t[1] + 1], "2">>
    [] t[2] = "x" -> <<"x">>
    [] OTHER -> <<Upper[t[1] + 1], t[2]>>
\* Text(turns, spaces)[k] is the text of the last k of the turns.
Text(turns, spaces) ==
  LET last[k \in 0 .. Len(turns)] ==
        IF k = 0 THEN <<>>
        ELSE TokenText(turns[Len(turns) + 1 - k]) \o [j \in 1 .. spaces |-> Space] \o last[k - 1]
  IN last

VARIABLES
  tokens,  \* the turns the text consists of
  fed,     \* how many of them the loop has consumed
  str, accum, out,
  status   \* "running", "returned" or "thrown"

translateVars == <<tokens, fed, str, accum, out, status>>

TranslateInit ==
  /\ \E n \in 0 .. MaxTokens : tokens \in [1 .. n -> Token]
  /\ \E spaces \in 0 .. MaxSpaces : str = Text(tokens, spaces)[Len(tokens)]
  /\ fed = 0
  /\ accum = EmptyMove
  /\ out = <<>>
  /\ status = "running"

Parsed == CHOOSE p \in ParseMove(str) : TRUE
NextMove == Single(Parsed[1], Parsed[2])

CombineMove ==
  /\ status = "running" /\ str # <<>> /\ ParseMove(str) # {}
  /\ CanCombine(accum, NextMove)
  /\ accum' = Combine(accum, NextMove)
  /\ str' = Parsed[3]
  /\ fed' = fed + 1
  /\ UNCHANGED <<tokens, out, status>>

EmitMove ==
  /\ status = "running" /\ str # <<>> /\ ParseMove(str) # {}
  /\ ~CanCombine(accum, NextMove)
  /\ \E c \in Lookup(accum) : out' = Append(out, c)
  /\ accum' = NextMove
  /\ str' = Parsed[3]
  /\ fed' = fed + 1
  /\ UNCHANGED <<tokens, status>>

Finish ==
  /\ status = "running" /\ str = <<>>
  /\ IF IsEmpty(accum) THEN UNCHANGED out
     ELSE \E c \in Lookup(accum) : out' = Append(out, c)
  /\ status' = "returned"
  /\ UNCHANGED <<tokens, fed, str, accum>>

\* The exception of lookupMoveCommand: a move that is not in the table.
NotInTable ==
  /\ ~IsEmpty(accum) /\ Lookup(accum) = {}
  /\ str # <<>> => ~CanCombine(accum, NextMove)

ThrowMove ==
  /\ status = "running"
  /\ (str # <<>> /\ ParseMove(str) = {}) \/ NotInTable
  /\ status' = "thrown"
  /\ UNCHANGED <<tokens, fed, str, accum, out>>

TranslateNext == CombineMove \/ EmitMove \/ Finish \/ ThrowMove

TranslateSpec == TranslateInit /\ [][TranslateNext]_translateVars

-----------------------------------------------------------------------------
\* A move that is waiting turns faces of one axis, and none of them not at all.
TranslateTypeOK ==
  /\ tokens \in Seq(Token) /\ fed \in 0 .. Len(tokens)
  /\ accum \in Move
  /\ accum.times1 = 0 <=> accum.face1 = None
  /\ accum.times2 = 0 <=> accum.face2 = None
  /\ accum.face1 # None /\ accum.face2 # None => accum.face1 % 3 = accum.face2 % 3
  /\ status \in {"running", "returned", "thrown"}

\* The reference: turns of one axis add up, and a sum of nothing disappears.
\* A turn is <<axis, quarters of U, L or F, quarters of D, R or B>>.
AxisTurn(axis, a, b) == <<axis, a, b>>
FaceTurn(f, times) ==
  IF f \in {U_, L_, F_} THEN AxisTurn(f % 3, times, 0) ELSE AxisTurn(f % 3, 0, times)
Reduce(done, t) ==
  IF t[2] = 0 /\ t[3] = 0 THEN done
  ELSE IF done = <<>> \/ Last(done)[1] # t[1] THEN Append(done, t)
  ELSE LET l == Last(done)
           a == (l[2] + t[2]) % 4
           b == (l[3] + t[3]) % 4
       IN IF a = 0 /\ b = 0 THEN Front(done) ELSE Append(Front(done), <<l[1], a, b>>)
Reduced(turns) ==
  LET first[k \in 0 .. Len(turns)] ==
        IF k = 0 THEN <<>> ELSE Reduce(first[k - 1], turns[k])
  IN first[Len(turns)]

Asked == [k \in 1 .. fed |-> FaceTurn(tokens[k][1], TokenTimes(tokens[k][2]))]
Waiting ==
  IF status = "returned" THEN <<>>
  ELSE <<FaceTurn(accum.face1, accum.times1), FaceTurn(accum.face2, accum.times2)>>
Made == [k \in DOMAIN out |->
           AxisTurn(Motors[CmdPart(out[k])][1] % 3, Turned(out[k])[1], Turned(out[k])[2])]

\* The motors do to the cube what the text says, however turns were merged.
\* And a text is translated exactly when it is written as parseMove documents:
\* the table has a command for every move that can be waiting.
SameEffect ==
  /\ (\A k \in 1 .. fed : ~IsMistake(tokens[k])) =>
       Reduced(Made \o Waiting) = Reduced(Asked)
  /\ status = "returned" => \A k \in DOMAIN tokens : ~IsMistake(tokens[k])
  /\ status = "thrown" => \E k \in DOMAIN tokens : IsMistake(tokens[k])

\* Neighbouring turns of one axis become one command, and the estimate of the
\* turning time charges a half turn exactly for the commands in which the
\* firmware makes one.
Runs == {k \in 1 .. fed : k = 1 \/ tokens[k - 1][1] % 3 # tokens[k][1] % 3}
CommandsCharged ==
  /\ status # "thrown" =>
       Len(out) + (IF Waiting = <<>> \/ IsEmpty(accum) THEN 0 ELSE 1)
         <= Cardinality(Runs)
  /\ HalfTurns(out) = Cardinality({k \in DOMAIN out : 2 \in {Turned(out[k])[1], Turned(out[k])[2]}})
=============================================================================
