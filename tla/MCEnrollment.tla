------------------------------ MODULE MCEnrollment -----------------------------
(* Instances of Enrollment for TLC: a dial at 15 or 16, a                    *)
(* dimmer module and a sensor module.                                        *)
EXTENDS Enrollment

MCDials      == {15, 16}
SceneFile    == {"scene"}
WideDials    == {15, 16, 241}
MCStrays     == {15}
MCForeign    == {40}
OneDigit     == {1}
================================================================================
