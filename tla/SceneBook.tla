------------------------------- MODULE SceneBook -------------------------------
(****************************************************************************)
(* What the gateway promises of scenes, as README.md lists it under         *)
(* "Supported Clowire Commands": a configuration (0x09) stores an entry, a  *)
(* deletion (0x0B) removes a stored entry, and a scene control (0x0D)       *)
(* applies the stored scene.  A sensor that has a scene as its target also  *)
(* switches the scene off.                                                  *)
(****************************************************************************)
CONSTANTS Lamps, Sensors, Scenes, Values, NoEntry, Stored, StoredLevel

VARIABLES
  book,   (* the entry of each scene for each device                        *)
  level   (* brightness of each lamp, in per cent                           *)

vars == <<book, level>>

Devices == Lamps \cup Sensors

Init ==
  /\ book = Stored
  /\ level = StoredLevel

Configure(s, d, v) ==
  /\ book' = [book EXCEPT ![s][d] = v]
  /\ UNCHANGED level

Delete(s, d) ==
  /\ book' = [book EXCEPT ![s][d] = NoEntry]
  /\ UNCHANGED level

(* Every lamp of the scene takes its value at once, and no other changes.   *)
Recall(s) ==
  /\ level' = [l \in Lamps |-> IF book[s][l] = NoEntry THEN level[l] ELSE book[s][l]]
  /\ UNCHANGED book

SwitchOff(s) ==
  /\ level' = [l \in Lamps |-> IF book[s][l] = NoEntry THEN level[l] ELSE 0]
  /\ UNCHANGED book

(* Steps that change nothing are left to the stuttering of Spec.            *)
Next ==
  \/ /\ book' # book
     /\ \E s \in Scenes, d \in Devices :
          Delete(s, d) \/ \E v \in Values : Configure(s, d, v)
  \/ /\ level' # level
     /\ \E s \in Scenes : Recall(s) \/ SwitchOff(s)

Spec == Init /\ [][Next]_vars

================================================================================
