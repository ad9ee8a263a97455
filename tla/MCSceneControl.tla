----------------------------- MODULE MCSceneControl ----------------------------
(* Instances of SceneControl for TLC.                                       *)
EXTENDS SceneControl

Lamp(dev, sub)   == [dev |-> dev, sub |-> sub]
Row1(d, s, v, t)   == [device |-> d, scene |-> s, value |-> v, delay |-> t]
Ask(c, d, s, v, t) == [cmd |-> c, device |-> d, scene |-> s, value |-> v, delay |-> t]

(* Dimmer modules 2 and 12, sensor module 14, whose first sensor's row is   *)
(* taken for L12's when the scene is switched off.                          *)
L2 == Lamp(2, 50)   L12 == Lamp(12, 49)   P14 == Lamp(14, 33)   Q14 == Lamp(14, 34)

SomeLamps   == {L2, L12}
SomeSensors == {P14, Q14}
SomeLevels  == [l \in SomeLamps |-> 20]

(* Scene 1 has lamps only, one of them delayed; scene 2 also both kinds of  *)
(* sensor rows, and a lamp that is on for a while.                          *)
TwoScenes == <<Row1(L2, 1, 60, 0), Row1(L12, 1, 0, 1),
               Row1(Q14, 2, 0, 0), Row1(L2, 2, 40, 129), Row1(P14, 2, 1, 0)>>

(* The same without delays.                                                 *)
AtOnce == <<Row1(L2, 1, 60, 0), Row1(L12, 1, 0, 0), Row1(L2, 2, 40, 0), Row1(P14, 2, 1, 0)>>

ConfigureAndRecall ==
  {Ask("configure", L2, 1, 30, 0), Ask("delete", L2, 1, 0, 0),
   Ask("control", L2, 1, 0, 0)}

(* Modules 1 and 11, scenes 1 and 12.                                       *)
L1  == Lamp(1, 49)   L11 == Lamp(11, 49)   P12 == Lamp(12, 33)
PrefixLamps   == {L1, L11}
PrefixSensors == {P12}
PrefixLevels  == [l \in PrefixLamps |-> 0]
PrefixStored  == <<Row1(L11, 12, 60, 0), Row1(L1, 1, 40, 0), Row1(L11, 1, 30, 0)>>
PrefixAsk     == {Ask("delete", L1, 1, 0, 0), Ask("control", L1, 1, 0, 0)}

OnAndOff  == {TRUE, FALSE}
Toggles   == {2}
================================================================================
