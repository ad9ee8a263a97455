-------------------------------- MODULE Lighting -------------------------------
(****************************************************************************)
(* What the gateway promises of a lamp, as README.md states it under        *)
(* "Supported Clowire Commands": 0..100 dims, 0x9A switches off, and 0x90   *)
(* restores the brightness recorded last, or 100 when there is none.        *)
(****************************************************************************)
EXTENDS Naturals

CONSTANTS Lamps, Levels, NoEntry

VARIABLES
  level,     (* brightness of each lamp, in per cent                        *)
  recorded   (* its last nonzero brightness, or NoEntry                     *)

vars == <<level, recorded>>

Init ==
  /\ level    = [l \in Lamps |-> 0]
  /\ recorded = [l \in Lamps |-> NoEntry]

Dim(l, v) ==
  /\ level'    = [level EXCEPT ![l] = v]
  /\ recorded' = [recorded EXCEPT ![l] = v]

SwitchOff(l) ==
  /\ level' = [level EXCEPT ![l] = 0]
  /\ UNCHANGED recorded

SwitchOn(l) ==
  /\ level' = [level EXCEPT ![l] = IF recorded[l] = NoEntry THEN 100 ELSE recorded[l]]
  /\ UNCHANGED recorded

Next == \E l \in Lamps :
  \/ \E v \in Levels \ {0} : Dim(l, v)
  \/ SwitchOff(l)
  \/ SwitchOn(l)

Spec == Init /\ [][Next]_vars

================================================================================
