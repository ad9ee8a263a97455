------------------------------- MODULE Filtering -------------------------------
(* What a loop keeps that goes through a sequence from its first element to *)
(* its last and copies some of them.                                        *)
EXTENDS Naturals, Sequences

(* Kept(s, S)[n]: the elements of S among the first n of s, in order.       *)
Kept(s, S) ==
  LET kept[n \in 0 .. Len(s)] ==
        IF n = 0 THEN <<>>
        ELSE IF s[n] \in S THEN Append(kept[n - 1], s[n])
        ELSE kept[n - 1]
  IN  kept

Filter(s, S) == Kept(s, S)[Len(s)]

================================================================================
