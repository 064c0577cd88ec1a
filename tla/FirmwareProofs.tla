---------------------------- MODULE FirmwareProofs ----------------------------
(***************************************************************************)
(* For every set of turns, speeds and cubes, and whatever is typed: the    *)
(* types of the board, that its motors are off when it says so, and that   *)
(* it neither loses, adds nor reorders an echo.                            *)
(***************************************************************************)
EXTENDS Terminal, Naturals, TLAPS

\* No byte is of two kinds, and "idle" is none.
LEMMA KindsAreDisjoint ==
  /\ \A t \in Turn : t \notin Digit /\ t \notin Switch /\ t # "idle"
  /\ \A d \in Digit : d \notin Switch
  /\ "idle" \notin Turn \cup Switch
BY ByteAssumption DEF Switch

\* The types hold after setup().
LEMMA BoardTypeInit == BoardInit => BoardTypeOK
<1> SUFFICES ASSUME BoardInit
             PROVE  BoardTypeOK
  OBVIOUS
<1>1. "+" \in Said
  BY DEF Said
<1>2. toBoard \in Seq(Byte) /\ toHost \in Seq(Said)
  BY <1>1 DEF BoardInit
<1> QED BY <1>2, SpeedAssumption DEF BoardInit, BoardTypeOK

\* Every step of the board, the terminal and a reset keeps the types.
LEMMA BoardTypeStep ==
  BoardTypeOK /\ [TerminalNext]_boardVars => BoardTypeOK'
<1> SUFFICES ASSUME BoardTypeOK, [TerminalNext]_boardVars
             PROVE  BoardTypeOK'
  OBVIOUS
<1> USE DEF BoardTypeOK
<1>r. toHost # <<>> => Tail(toHost) \in Seq(Said)
  OBVIOUS
<1>a. \A e \in Said : Append(toHost, e) \in Seq(Said)
  OBVIOUS
<1>b. ASSUME NEW S, Receive(S)
      PROVE  Head(toBoard) \in Byte /\ Head(toBoard) \in S /\ toBoard' \in Seq(Byte)
  BY <1>b DEF Receive
<1>c. Byte \subseteq Said /\ Turn \subseteq Byte /\ Digit \subseteq Byte
      /\ Switch \subseteq Byte /\ {"+", "Shutdown!", "Off!", "On!"} \subseteq Said
  BY DEF Said, Byte
<1>1. CASE SetSpeed
  BY <1>1, <1>a, <1>b, <1>c DEF SetSpeed, Answer
<1>2. CASE BeginTurn
  BY <1>2, <1>b DEF BeginTurn
<1>3. CASE EndTurn
  <2>1. doing \in Turn /\ Effect[doing][cube] \in Cube
    BY <1>3, EffectAssumption DEF EndTurn
  <2> QED BY <1>3, <2>1, <1>a, <1>c DEF EndTurn, Answer
<1>4. CASE BeginSwitch
  <2>1. Head(toBoard) \in Switch /\ toBoard' \in Seq(Byte)
    BY <1>4, <1>b DEF BeginSwitch
  <2>2. (CASE Head(toBoard) = "esc" -> "Shutdown!"
           [] Head(toBoard) = " " -> IF motorsOnEh THEN "Off!" ELSE "On!"
           [] OTHER -> Head(toBoard)) \in Said
    <3>1. CASE Head(toBoard) = "esc"
      BY <3>1, <1>c
    <3>2. CASE Head(toBoard) = " "
      BY <3>2, <1>c
    <3>3. CASE Head(toBoard) \notin {"esc", " "}
      BY <2>1, <3>3, <1>c
    <3> QED BY <3>1, <3>2, <3>3
  <2>3. toHost' \in Seq(Said)
    BY <1>4, <2>2, <1>a DEF BeginSwitch, Answer
  <2> QED BY <1>4, <2>1, <2>3 DEF BeginSwitch
<1>5. CASE EndSwitch
  <2>1. enabled' \in BOOLEAN
    BY <1>5 DEF EndSwitch
  <2>2. motorsOnEh' \in BOOLEAN
    BY <1>5, <2>1 DEF EndSwitch
  <2> QED BY <1>5, <2>1, <2>2 DEF EndSwitch
<1>6. CASE Type
  BY <1>6 DEF Type
<1>7. CASE ReadAnswer
  BY <1>7, <1>r DEF ReadAnswer
<1>8. CASE BoardReset
  <2>1. cube' \in Cube
    <3>1. CASE doing \in Turn
      BY <1>8, <3>1, EffectAssumption DEF BoardReset
    <3>2. CASE doing \notin Turn
      BY <1>8, <3>2 DEF BoardReset
    <3> QED BY <3>1, <3>2
  <2>2. toHost' \in Seq(Said) /\ toBoard' \in Seq(Byte)
    BY <1>8, <1>a, <1>c DEF BoardReset, Answer
  <2> QED BY <1>8, <2>1, <2>2, SpeedAssumption DEF BoardReset
<1>9. CASE UNCHANGED boardVars
  BY <1>9 DEF boardVars
<1> QED
  BY <1>1, <1>2, <1>3, <1>4, <1>5, <1>6, <1>7, <1>8, <1>9 DEF BoardStep, TerminalNext

\* The variables of the board keep their types, whatever is typed and however
\* often it is reset.
THEOREM BoardTypeCorrect == TerminalSpec => []BoardTypeOK
BY BoardTypeInit, BoardTypeStep, PTL DEF TerminalSpec

-----------------------------------------------------------------------------
\* When motorsOnEh says off and no switch is being executed, the motors are
\* off (motorsOff() and the assignments around it in loop()).
THEOREM OffMeansOffCorrect == TerminalSpec => []OffMeansOff
<1>1. BoardInit => OffMeansOff
  BY DEF BoardInit, OffMeansOff
<1>2. OffMeansOff /\ [TerminalNext]_boardVars
        => OffMeansOff'
  <2> SUFFICES ASSUME OffMeansOff, [TerminalNext]_boardVars
               PROVE  OffMeansOff'
    OBVIOUS
  <2> USE DEF OffMeansOff
  <2>1. CASE SetSpeed
    BY <2>1 DEF SetSpeed
  <2>2. CASE BeginTurn
    BY <2>2, KindsAreDisjoint DEF BeginTurn, Receive
  <2>3. CASE EndTurn
    BY <2>3, KindsAreDisjoint DEF EndTurn
  <2>4. CASE BeginSwitch
    BY <2>4 DEF BeginSwitch, Receive
  <2>5. CASE EndSwitch
    BY <2>5 DEF EndSwitch, Switch
  <2>6. CASE Type \/ ReadAnswer
    BY <2>6 DEF Type, ReadAnswer
  <2>7. CASE BoardReset
    BY <2>7 DEF BoardReset
  <2>8. CASE UNCHANGED boardVars
    BY <2>8 DEF boardVars
  <2> QED
    BY <2>1, <2>2, <2>3, <2>4, <2>5, <2>6, <2>7, <2>8 DEF BoardStep, TerminalNext
<1> QED BY <1>1, <1>2, PTL DEF TerminalSpec

-----------------------------------------------------------------------------
\* Moving the first byte of a sequence to the end of the one before it.
LEMMA MoveHead ==
  ASSUME NEW S, NEW s \in Seq(S), NEW t \in Seq(S), t # <<>>
  PROVE  Append(s, Head(t)) \o Tail(t) = s \o t
OBVIOUS

\* The same with an element between the two sequences.
LEMMA MoveElement ==
  ASSUME NEW S, NEW s \in Seq(S), NEW t \in Seq(S), NEW e \in S
  PROVE  (s \o <<e>>) \o t = Append(s, e) \o t
OBVIOUS

\* An empty sequence in the middle makes no difference.
LEMMA DropEmpty ==
  ASSUME NEW S, NEW s \in Seq(S), NEW t
  PROVE  (s \o <<>>) \o t = s \o t
<1>1. s \o <<>> = s
  OBVIOUS
<1> QED BY <1>1

\* A sequence over a set is one over a larger set.
LEMMA SeqMonotone ==
  ASSUME NEW S, NEW T, S \subseteq T, NEW s \in Seq(S)
  PROVE  s \in Seq(T)
<1>1. s \in [1 .. Len(s) -> T] /\ Len(s) \in Nat
  OBVIOUS
<1> QED BY <1>1

\* Whatever the board does, the echoes owed to the host stay the same.
LEMMA OwedStaysTheSame ==
  ASSUME BoardTypeOK, BoardStep, toBoard = <<>> \/ Head(toBoard) \notin {"esc", " "}
  PROVE  Owed' = Owed
<1>0. toHost \in Seq(Said) /\ toBoard \in Seq(Said)
  BY SeqMonotone DEF BoardTypeOK, Said
<1>a. ASSUME toBoard # <<>>, toHost' = Append(toHost, Head(toBoard)),
             toBoard' = Tail(toBoard)
      PROVE  toHost' \o toBoard' = toHost \o toBoard
  BY <1>0, <1>a, MoveHead
<1>b. toHost' \in Seq(Said) /\ toBoard' \in Seq(Said)
  <2>1. BoardTypeOK'
    BY BoardTypeStep DEF TerminalNext
  <2> QED BY ZenonT(30), <2>1, SeqMonotone DEF BoardTypeOK, Said
<1>c. doing \notin Turn => Owed = toHost \o toBoard
  BY <1>0, DropEmpty DEF Owed
<1>d. doing' \notin Turn => Owed' = toHost' \o toBoard'
  BY <1>b, DropEmpty DEF Owed
<1>1. CASE SetSpeed
  BY <1>1, <1>a, <1>c, <1>d, KindsAreDisjoint DEF SetSpeed, Receive, Answer
<1>2. CASE BeginTurn
  <2> DEFINE t == Head(toBoard)
  <2>1. /\ doing \notin Turn /\ toBoard # <<>> /\ t \in Turn /\ t \in Said
        /\ toHost' = toHost /\ toBoard' = Tail(toBoard) /\ doing' = t
    BY <1>2, KindsAreDisjoint DEF BeginTurn, Receive, Said, Byte
  <2>2. Owed' = (toHost \o <<t>>) \o Tail(toBoard)
    BY <2>1 DEF Owed
  <2>3. Owed' = Append(toHost, t) \o Tail(toBoard)
    BY <2>1, <2>2, <1>0, <1>b, MoveElement
  <2> QED BY <2>1, <2>3, <1>0, <1>c, MoveHead
<1>3. CASE EndTurn
  <2>1. doing \in Turn /\ doing \in Said /\ doing' \notin Turn
        /\ toHost' = Append(toHost, doing) /\ toBoard' = toBoard
    BY <1>3, KindsAreDisjoint DEF EndTurn, Answer, Said, Byte
  <2>2. Owed = (toHost \o <<doing>>) \o toBoard
    BY <2>1 DEF Owed
  <2> QED BY <2>1, <2>2, <1>0, <1>d, MoveElement
<1>4. CASE BeginSwitch
  <2>1. /\ doing = "idle" /\ toBoard # <<>> /\ doing' = Head(toBoard)
        /\ Head(toBoard) \in Switch /\ toBoard' = Tail(toBoard)
    BY <1>4 DEF BeginSwitch, Receive
  <2>2. toHost' = Append(toHost, Head(toBoard))
    BY <1>4, <2>1 DEF BeginSwitch, Answer
  <2>3. doing \notin Turn /\ doing' \notin Turn
    BY <2>1, KindsAreDisjoint
  <2> QED BY <2>1, <2>2, <2>3, <1>a, <1>c, <1>d
<1>5. CASE EndSwitch
  <2>1. doing \notin Turn /\ doing' \notin Turn /\ UNCHANGED <<toHost, toBoard>>
    BY <1>5, KindsAreDisjoint DEF EndSwitch
  <2> QED BY <2>1, <1>c, <1>d
<1> QED BY <1>1, <1>2, <1>3, <1>4, <1>5 DEF BoardStep

\* Each byte is answered once, in the order of arrival, also a turn that takes its
\* time.
THEOREM EchoesInOrderCorrect == TerminalSpec => EchoesInOrder
<1>1. BoardTypeOK /\ [TerminalNext]_boardVars => [OwedKept]_boardVars
  BY OwedStaysTheSame DEF OwedKept
<1> QED BY <1>1, BoardTypeCorrect, PTL DEF TerminalSpec, EchoesInOrder
=============================================================================
