----------------------------- MODULE MCFrameReceiver ---------------------------
(* Instances of FrameReceiver for TLC.                                      *)
EXTENDS FrameReceiver

WithCheck(body) == Append(body, XOR_check[body])

(* A lamp command, and scene commands whose scene id has to be escaped.     *)
Dim     == WithCheck(<<FA, 16, 49, 0, 0, 9, 1, 80>>)
SceneFA == WithCheck(<<FA, 255, 255, 0, 5, 9, 13, FA>>)
SceneFE == WithCheck(<<FA, 255, 255, 0, 3, 9, 13, FE>>)

(* Its scene id is FE and its check byte 01.                                *)
SceneFEThen01 == WithCheck(<<FA, 255, 255, 0, 1, 9, 13, FE>>)

(* A sensor sees motion, another none more; a shorter report.               *)
Motion   == <<128, 255, 11, 0, 4, 63, 1, 255, 7>>
NoMotion == <<128, 255, 11, 0, 4, 63, 2, 0, 0>>
Short    == <<128, 255, 11, 0, 3, 63, 1, 0>>

SensorReports == {<<Motion, NoMotion>>, <<NoMotion, Short>>, <<Short, Motion>>}

Mixed      == {<<Dim, SceneFA>>, <<SceneFE, Dim>>, <<SceneFA, SceneFE>>}
Unescaped  == {<<SceneFEThen01>>}

(* Nothing, stray bytes, or enough bytes to fill a buffer of 32 before or   *)
(* in the middle of a frame.                                                *)
Clear  == {<<>>}
Stray  == {<<7, 7>>}
Nobody == {}
Flood  == {[i \in 1 .. n |-> 7] : n \in {14, 25}}
Noises == {<<>>, <<7>>, <<0, 0, 7>>} \cup Flood

Always    == {TRUE}

(* What the proofs about the reader assume of the sequences.                *)
ASSUME RunReadable == Strays = Clear /\ Traffic # Unescaped => Readable

(* It excludes bytes that look like an escape once theirs are undone.       *)
ASSUME UnescapedUnreadable == \A frames \in Unescaped : ~ Escapable(<<>>, frames)
================================================================================
