------------------------------ MODULE MCPirControl -----------------------------
(* Instances of PirControl for TLC.                                         *)
EXTENDS PirControl

CONSTANTS s1, s2, s3, s4, t1, t2, t3

TwoSensors   == {s1, s2}
FourSensors  == {s1, s2, s3, s4}
OneLamp      == {t1}
ThreeTargets == {t1, t2, t3}
FirstScene   == {t1}
NoScenes     == {}

(* s1 has a scene for itself and s4 a lamp; the others share a lamp.        *)
TwoAlone  == [s \in FourSensors |-> CASE s = s1 -> t1 [] s = s4 -> t3 [] OTHER -> t2]
OneTarget == [s \in TwoSensors |-> t1]

(* s1 is masked and enabled again, s2 gets and loses its target.            *)
MaskAndAssign ==
  [what : {"enable", "mask", "toggle"}, sensor : {s1}, target : {NoTarget}]
    \cup [what : {"assign"}, sensor : {s2}, target : {t2}]
    \cup [what : {"delete"}, sensor : {s2}, target : {NoTarget}]

Nothing == {}
================================================================================
