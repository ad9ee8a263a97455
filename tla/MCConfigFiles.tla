----------------------------- MODULE MCConfigFiles -----------------------------
(* Instances of ConfigFiles for TLC.                                        *)
EXTENDS ConfigFiles

CONSTANTS l1, l2, e1, e2

TwoLamps   == {l1, l2}
TwoEntries == {e1, e2}
OneLamp    == {l1}
TwoValues  == {1, 2}
Nobody     == {}
================================================================================
