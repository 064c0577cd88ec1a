----------------------------- MODULE MCUvcCtrl ------------------------------
(* Two small cameras for UvcCtrl.                                          *)
EXTENDS UvcCtrl

\* The exposure, which spans its control; the blue and the red balance, which
\* share a control and change by themselves, with their master; a zoom that
\* crashes this camera, a bit nobody knows, an extension unit.
CameraEntities ==
  <<[type |-> "CT", bmControls |-> {3, 9, 40}], [type |-> "PU", bmControls |-> {7, 13}],
    [type |-> "XU", bmControls |-> {0}]>>

\* The hue, which changes by itself, and its master.
HueEntities == <<[type |-> "PU", bmControls |-> {2, 11}]>>

\* The hypothesis of UvcCtrlProofs.
ASSUME AskedInRange

\* The properties speak of the camera until it is spoiled, which it stays: what
\* comes after such a step is not looked at.
Unspoiled == ~spoiled
=============================================================================
