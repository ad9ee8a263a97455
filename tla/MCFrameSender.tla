------------------------------ MODULE MCFrameSender ----------------------------
(* Instances of FrameSender for TLC.                                        *)
EXTENDS FrameSender

(* Both bytes to escape, both second bytes, zero, and one that makes the    *)
(* check byte of some frames FA and of others FE.                           *)
TellingBytes == {0, 1, 2, 14, FA, FE}

(* Copies that bring all, words of four bytes, and single bytes.            *)
WordsFrom(k) == [n \in 2 .. 30 |-> {i \in 2 .. 30 : i % 4 = (k + n) % 4}]
AnyCopy == {Whole, [n \in 2 .. 30 |-> 2 .. 30]} \cup {WordsFrom(k) : k \in 0 .. 3}
================================================================================
