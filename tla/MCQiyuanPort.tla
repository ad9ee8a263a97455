------------------------------ MODULE MCQiyuanPort ------------------------------
(* Instances of QiyuanPort for TLC.                                         *)
EXTENDS QiyuanPort

CONSTANTS l1, l2, t1, t2, t3

OneLamp    == {l1}
TwoLamps   == {l1, l2}
TwoThreads == {t1, t2}
ThreeThreads == {t1, t2, t3}
OnOff      == {0, 1}
SomeDelays == {0, 1, 129}
================================================================================
