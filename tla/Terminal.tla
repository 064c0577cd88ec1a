------------------------------ MODULE Terminal ------------------------------
(***************************************************************************)
(* All that the board of Firmware may meet: any byte may be typed at any   *)
(* time, the answers are read one by one, and the board may be reset.      *)
(***************************************************************************)
EXTENDS Firmware

Type ==
  /\ \E b \in Byte : toBoard' = Append(toBoard, b)
  /\ UNCHANGED <<toHost, doing, enabled, motorsOnEh, speed, cube>>

ReadAnswer ==
  /\ toHost # <<>>
  /\ toHost' = Tail(toHost)
  /\ UNCHANGED <<toBoard, doing, enabled, motorsOnEh, speed, cube>>

TerminalNext == BoardStep \/ Type \/ ReadAnswer \/ BoardReset

TerminalSpec == BoardInit /\ [][TerminalNext]_boardVars
=============================================================================
