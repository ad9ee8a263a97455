------------------------------ MODULE ConfigFiles ------------------------------
(****************************************************************************)
(* photometric.txt and scene.txt when the gateway may be stopped at any     *)
(* moment (power, watchdog) and is started again.                           *)
(*                                                                          *)
(* save_dimmer_value and delete_scene_para replace a file's text by way of  *)
(* a copy: the new text is appended to the copy, the file is opened for     *)
(* "w", the copy is read back and removed, and only the fclose that follows *)
(* writes the text.  What a stop leaves in the copy is found by the next    *)
(* one that opens it.  A new brightness and a scene row are appended to the *)
(* file itself.  Only the worker of the Clowire reader writes these files.  *)
(****************************************************************************)
EXTENDS Integers, Sequences

CONSTANTS
  Lamps,       (* the names of lines in photometric.txt                     *)
  Entries,     (* and in scene.txt: a device in a scene                     *)
  Values,
  MaxOps,      (* bound: calls                                              *)
  MaxCrashes,  (* bound: stops                                              *)
  None

Keys   == Lamps \cup Entries
Stores == {"photometric", "scene"}

ASSUME FilesAssumption ==
  /\ Lamps \cap Entries = {}
  /\ None \notin Values \cup Keys \cup [key : Keys, value : Values \cup {None}]
  /\ MaxOps \in Nat /\ MaxCrashes \in Nat

VARIABLES
  file,     (* the text of each file: lines of a key and a value            *)
  copy,     (* the text of its copy; a missing copy is an empty one         *)
  pc,       (* where the worker is                                          *)
  op,       (* what it has been asked: to set a key to a value, or to None  *)
  buffer,   (* what it has written and not flushed                          *)
  saved,    (* the value of each key that was last set completely ...       *)
  asked,    (* ... and those asked for since then                           *)
  wiped,    (* stopped after the copy was removed and before the flush      *)
  ops, crashes

call   == <<pc, op, buffer>>
ghosts == <<asked, saved, wiped>>
counts == <<ops, crashes>>
vars   == <<file, copy, call, ghosts, counts>>

Line(key, value) == [key |-> key, value |-> value]
StoreOf(key) == IF key \in Lamps THEN "photometric" ELSE "scene"

(* A line that has been taken out leaves a gap, which nobody reads.         *)
Gap == Line(None, None)

HasLine(text, key) == \E i \in DOMAIN text : text[i].key = key

(* What the readers take for a key is its last line: if there is one, it    *)
(* has one of these values.                                                 *)
Newest(text, key, values) ==
  \A i \in DOMAIN text :
    /\ text[i].key = key
    /\ \A j \in DOMAIN text : j > i => text[j].key # key
    => text[i].value \in values

Init ==
  /\ file = [s \in Stores |-> <<>>]
  /\ copy = [s \in Stores |-> <<>>]
  /\ pc = "idle" /\ op = None /\ buffer = <<>>
  /\ saved = [k \in Keys |-> None] /\ asked = [k \in Keys |-> {}]
  /\ wiped = FALSE
  /\ ops = 0 /\ crashes = 0

BrokenFinishKeepsOp ==
  /\ pc' = "idle" /\ op' = op
  /\ saved' = [saved EXCEPT ![op.key] = op.value]
  /\ asked' = [asked EXCEPT ![op.key] = {}]

(* The step that ends a call.                                               *)
Finish ==
  /\ pc' = "idle" /\ op' = None
  /\ saved' = [saved EXCEPT ![op.key] = op.value]
  /\ asked' = [asked EXCEPT ![op.key] = {}]

--------------------------------------------------------------------------------

Ask(key, value, where) ==
  /\ pc = "idle"
  /\ ops < MaxOps
  /\ ops' = ops + 1
  /\ op' = Line(key, value)
  /\ asked' = [asked EXCEPT ![key] = @ \cup {value}]
  /\ pc' = where
  /\ UNCHANGED <<file, copy, buffer, saved, wiped, crashes>>

save_dimmer_value ==
  \E l \in Lamps, v \in Values :
    Ask(l, v, IF HasLine(file["photometric"], l) THEN "copy" ELSE "append")

save_scene_para == \E e \in Entries, v \in Values : Ask(e, v, "append")

delete_scene_para == \E e \in Entries : Ask(e, None, "copy")

(* fprintf to the file opened with "a+", and fclose.                        *)
AppendLine ==
  /\ pc = "append"
  /\ file' = [file EXCEPT ![StoreOf(op.key)] = Append(@, op)]
  /\ Finish
  /\ UNCHANGED <<copy, buffer, wiped, counts>>

(* The new text: all lines of the key get the new value, or go.             *)
NewText ==
  LET text == file[StoreOf(op.key)]
  IN  [i \in DOMAIN text |->
         IF text[i].key # op.key THEN text[i] ELSE IF op.value = None THEN Gap ELSE op]

(* It goes to the end of the copy.  A deletion that has found nothing only  *)
(* removes the copy.                                                        *)
BrokenCopyInFront ==
  /\ pc = "copy"
  /\ copy' = [copy EXCEPT ![StoreOf(op.key)] = NewText \o @]
  /\ pc' = IF HasLine(file[StoreOf(op.key)], op.key) THEN "open" ELSE "drop"
  /\ UNCHANGED <<file, op, buffer, ghosts, counts>>

BrokenCopyOpenedForW ==
  /\ pc = "copy"
  /\ copy' = [copy EXCEPT ![StoreOf(op.key)] = NewText]
  /\ pc' = IF HasLine(file[StoreOf(op.key)], op.key) THEN "open" ELSE "drop"
  /\ UNCHANGED <<file, op, buffer, ghosts, counts>>

WriteCopy ==
  /\ pc = "copy"
  /\ copy' = [copy EXCEPT ![StoreOf(op.key)] = @ \o NewText]
  /\ pc' = IF HasLine(file[StoreOf(op.key)], op.key) THEN "open" ELSE "drop"
  /\ UNCHANGED <<file, op, buffer, ghosts, counts>>

DropCopy ==
  /\ pc = "drop"
  /\ copy' = [copy EXCEPT !["scene"] = <<>>]
  /\ Finish
  /\ UNCHANGED <<file, buffer, wiped, counts>>

(* fopen for "w", and the copy is read back into the file's buffer.         *)
ReadBack ==
  /\ pc = "open"
  /\ file' = [file EXCEPT ![StoreOf(op.key)] = <<>>]
  /\ buffer' = copy[StoreOf(op.key)]
  /\ pc' = "remove"
  /\ UNCHANGED <<copy, op, ghosts, counts>>

RemoveCopy ==
  /\ pc = "remove"
  /\ copy' = [copy EXCEPT ![StoreOf(op.key)] = <<>>]
  /\ pc' = "flush"
  /\ UNCHANGED <<file, op, buffer, ghosts, counts>>

Flush ==
  /\ pc = "flush"
  /\ file' = [file EXCEPT ![StoreOf(op.key)] = buffer]
  /\ buffer' = <<>>
  /\ Finish
  /\ UNCHANGED <<copy, wiped, counts>>

(* The gateway stops, and starts again with the files as they are.          *)
Crash ==
  /\ crashes < MaxCrashes
  /\ crashes' = crashes + 1
  /\ pc' = "idle" /\ op' = None /\ buffer' = <<>>
  /\ wiped' = (wiped \/ pc = "flush")
  /\ UNCHANGED <<file, copy, asked, saved, ops>>

Next ==
  \/ save_dimmer_value \/ save_scene_para \/ delete_scene_para
  \/ AppendLine \/ WriteCopy \/ DropCopy \/ ReadBack \/ RemoveCopy \/ Flush
  \/ Crash

Spec == Init /\ [][Next]_vars

--------------------------------------------------------------------------------
(* Properties.                                                              *)

Text == Seq([key : Keys, value : Values] \cup {Gap})

(* Type invariant.                                                          *)
TypeOK ==
  /\ file \in [Stores -> Text] /\ copy \in [Stores -> Text] /\ buffer \in Text
  /\ pc \in {"idle", "append", "copy", "drop", "open", "remove", "flush"}
  /\ op \in [key : Keys, value : Values \cup {None}] \cup {None}
  /\ saved \in [Keys -> Values \cup {None}]
  /\ asked \in [Keys -> SUBSET (Values \cup {None})]
  /\ wiped \in BOOLEAN
  /\ (pc = "idle") <=> (op = None)

(* A value of the key has been set, and nobody has asked to delete it since.*)
Stands(k) == saved[k] # None /\ None \notin asked[k]

(* A brightness or a scene's value is the newest or missing, never an older *)
(* one: whatever was left in the copy comes before what is current, however *)
(* often the gateway is stopped.  A value whose setting was cut short may   *)
(* be there or not.                                                         *)
NeverStale ==
  \A k \in Keys : Stands(k) =>
    Newest(file[StoreOf(k)], k, {saved[k]} \cup asked[k])

(* As long as no stop fell between the removal of the copy and the flush, a *)
(* recorded brightness is still somewhere: in the file, in the copy that    *)
(* the next change of a known brightness reads, or about to be flushed.     *)
BrightnessKept ==
  ~ wiped => \A l \in Lamps : saved[l] # None =>
    \E text \in {file["photometric"], copy["photometric"], buffer} : HasLine(text, l)

(* The same of a scene's entry that nobody has asked to delete.             *)
ScenesKept ==
  ~ wiped => \A e \in Entries : Stands(e) =>
    \E text \in {file["scene"], copy["scene"], buffer} : HasLine(text, e)

(* Runtime state persists in configuration files (README.md, "Features"):   *)
(* a recorded brightness is in the file whenever no call is under way.      *)
BrightnessPersists ==
  pc = "idle" => \A l \in Lamps : saved[l] # None => HasLine(file["photometric"], l)

(* "Remove a previously stored scene entry" (README.md, "Supported Clowire  *)
(* Commands"): a deleted entry does not come back by itself.                *)
DeletedStaysDeleted ==
  pc = "idle" => \A e \in Entries :
    saved[e] = None /\ asked[e] = {} => ~ HasLine(file["scene"], e)

================================================================================
