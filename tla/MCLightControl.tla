----------------------------- MODULE MCLightControl ----------------------------
(* Instances of LightControl for TLC.                                       *)
EXTENDS LightControl

CONSTANTS l1, l2

OneLamp  == {l1}
TwoLamps == {l1, l2}

(* Two brightness values of two digits.                                     *)
SomeLevels == {30, 80}

OneLevel == {80}

(* Two values, with brightness 0.                                           *)
LevelsWithZero == {0, 30}

(* A value byte beyond 100 that is neither 0x90 nor 0x9A.                   *)
OneOther == {200}

NoEvents == {}
OnAndOff == {"on", "off"}

(* An uninitialised byte that atoi reads as nothing, or as a digit.         *)
SomeGarbage == {0, 7}
================================================================================
