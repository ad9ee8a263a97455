------------------------------- MODULE PirControl ------------------------------
(****************************************************************************)
(* The motion sensors (PIR): remote.db has a row for each, with its state   *)
(* (1 enabled, 0 masked), its last value (1 motion, 0 none) and its target. *)
(* The worker of the Clowire reader changes states and targets (pir_control,*)
(* delay_config_inf); the main loop handles what the sensors report         *)
(* (pir_handler) and switches the target: a lamp at once, but a scene only  *)
(* when it has read the rest of the reports and turns to the Clowire queue  *)
(* again (get_handle).  Each SQL statement is a step of its own: nothing    *)
(* else keeps the two threads apart.                                        *)
(****************************************************************************)
EXTENDS Integers, Sequences, SequencesExt

CONSTANTS
  Sensors,
  Targets,     (* a lamp, a foreign device or a scene                       *)
  Scenes,      (* which of them are scenes                                  *)
  NoTarget,    (* the row's three zeros                                     *)
  Assigned,    (* the target of each sensor at the start                    *)
  Commands,    (* what the Clowire gateway may send: what, and to whom      *)
  MaxCommands, (* bound: Clowire commands                                   *)
  MaxReports   (* bound: sensor reports                                     *)

ASSUME PirAssumption ==
  /\ IsFiniteSet(Sensors)
  /\ NoTarget \notin Targets /\ Scenes \subseteq Targets
  /\ Assigned \in [Sensors -> Targets \cup {NoTarget}]
  /\ Commands \subseteq [what   : {"enable", "mask", "toggle", "assign", "delete"},
                         sensor : Sensors,
                         target : Targets \cup {NoTarget}]
  /\ MaxCommands \in Nat /\ MaxReports \in Nat

VARIABLES
  remote,   (* the table: state, value and target of each sensor            *)
  worker,   (* "none", or "toggle" between its two statements               *)
  toggled,  (* the sensor it toggles and the state it read                  *)
  main,     (* where get_handle is: at the Clowire or the Qiyuan queue, or  *)
            (* in pir_handler                                               *)
  report,   (* the report it handles                                        *)
  target,   (* pir_conf: the target it read ...                             *)
  nums,     (* ... and the other sensors that have the same                 *)
  qy_read,  (* reports waiting for the main loop                            *)
  clo_read, (* scenes that pir_handler asks the main loop to recall         *)
  lit,      (* whether each target is on                                    *)
  seen,     (* whether each sensor sees motion                              *)
  commands, reports,
  overtaken (* history: scenes last switched off while waiting in clo_read  *)

clowire == <<worker, toggled, commands>>
room    == <<seen, reports>>
handler == <<main, report, target, nums>>
lights  == <<clo_read, lit, overtaken>>
vars    == <<remote, clowire, handler, qy_read, lights, room>>

(* remote_table_init, and the targets the installer has set.                *)
Init ==
  /\ remote = [s \in Sensors |-> [state |-> 1, value |-> 0, target |-> Assigned[s]]]
  /\ worker = "none" /\ toggled = <<>> /\ commands = 0
  /\ main = "clowire" /\ report = <<>> /\ target = NoTarget /\ nums = <<>>
  /\ qy_read = <<>> /\ clo_read = <<>>
  /\ lit = [t \in Targets |-> FALSE] /\ overtaken = {}
  /\ seen = [s \in Sensors |-> FALSE] /\ reports = 0

--------------------------------------------------------------------------------
(* The worker: one command at a time.                                       *)

Command(c) ==
  /\ worker = "none"
  /\ c \in Commands
  /\ commands < MaxCommands
  /\ commands' = commands + 1

(* pir_control: the gateway's "off" enables a sensor, its "on" masks it.    *)
pir_control ==
  /\ \E c \in Commands :
       /\ Command(c)
       /\ \/ c.what = "enable" /\ remote' = [remote EXCEPT ![c.sensor].state = 1]
          \/ c.what = "mask"   /\ remote' = [remote EXCEPT ![c.sensor].state = 0]
  /\ UNCHANGED <<worker, toggled, handler, qy_read, lights, room>>

(* remote_update_state with 2 reads the state and writes the other one.     *)
ToggleRead ==
  /\ \E c \in Commands :
       /\ Command(c)
       /\ c.what = "toggle"
       /\ toggled' = <<c.sensor, remote[c.sensor].state>>
  /\ worker' = "toggle"
  /\ UNCHANGED <<remote, handler, qy_read, lights, room>>

ToggleWrite ==
  /\ worker = "toggle"
  /\ remote' = [remote EXCEPT ![toggled[1]].state = IF toggled[2] = 0 THEN 1 ELSE 0]
  /\ worker' = "none"
  /\ toggled' = <<>>
  /\ UNCHANGED <<commands, handler, qy_read, lights, room>>

BrokenResetsRow ==
  /\ \E c \in Commands :
       /\ Command(c)
       /\ \/ /\ c.what = "assign"
             /\ remote' = [remote EXCEPT ![c.sensor] =
                             [state |-> 1, value |-> 0, target |-> c.target]]
          \/ c.what = "delete" /\ remote' = [remote EXCEPT ![c.sensor].target = NoTarget]
  /\ UNCHANGED <<worker, toggled, handler, qy_read, lights, room>>

(* save_delay_conf and delete_delay_conf.                                   *)
delay_config_inf ==
  /\ \E c \in Commands :
       /\ Command(c)
       /\ \/ c.what = "assign" /\ remote' = [remote EXCEPT ![c.sensor].target = c.target]
          \/ c.what = "delete" /\ remote' = [remote EXCEPT ![c.sensor].target = NoTarget]
  /\ UNCHANGED <<worker, toggled, handler, qy_read, lights, room>>

(* A sensor reports that motion starts (FF) or ends (00).                   *)
data_to_clo_thread ==
  /\ reports < MaxReports
  /\ \E s \in Sensors :
       /\ seen' = [seen EXCEPT ![s] = ~ @]
       /\ qy_read' = Append(qy_read, [sensor |-> s, motion |-> ~ seen[s]])
  /\ reports' = reports + 1
  /\ UNCHANGED <<remote, clowire, handler, lights>>

--------------------------------------------------------------------------------
(* get_handle: the Clowire queue until it is empty, then the Qiyuan queue.  *)

(* event_handler recalls the scene.                                         *)
TakeTrigger ==
  /\ main = "clowire"
  /\ clo_read # <<>>
  /\ clo_read' = Tail(clo_read)
  /\ lit' = [lit EXCEPT ![Head(clo_read)] = TRUE]
  /\ UNCHANGED <<remote, clowire, handler, qy_read, overtaken, room>>

NoTrigger ==
  /\ main = "clowire"
  /\ clo_read = <<>>
  /\ main' = "qiyuan"
  /\ UNCHANGED <<remote, clowire, report, target, nums, qy_read, lights, room>>

NoReport ==
  /\ main = "qiyuan"
  /\ qy_read = <<>>
  /\ main' = "clowire"
  /\ UNCHANGED <<remote, clowire, report, target, nums, qy_read, lights, room>>

--------------------------------------------------------------------------------
(* pir_handler.                                                             *)

(* read_by_num: a masked sensor's report ends here.                         *)
BrokenMaskSavesValue ==
  /\ main = "qiyuan"
  /\ qy_read # <<>>
  /\ qy_read' = Tail(qy_read)
  /\ report' = Head(qy_read)
  /\ main' = IF remote[report'.sensor].state = 0 THEN "save" ELSE "target"
  /\ UNCHANGED <<remote, clowire, target, nums, lights, room>>

TakeReport ==
  /\ main = "qiyuan"
  /\ qy_read # <<>>
  /\ qy_read' = Tail(qy_read)
  /\ report' = Head(qy_read)
  /\ main' = IF remote[report'.sensor].state = 0 THEN "qiyuan" ELSE "target"
  /\ UNCHANGED <<remote, clowire, target, nums, lights, room>>

(* read_pir_scene: the row's target, then the rows with the same target.    *)
remote_table_read ==
  /\ main = "target"
  /\ target' = remote[report.sensor].target
  /\ main' = "group"
  /\ UNCHANGED <<remote, clowire, report, nums, qy_read, lights, room>>

remote_read_num ==
  /\ main = "group"
  /\ nums' = SetToSeq({s \in Sensors \ {report.sensor} : remote[s].target = target})
  /\ main' = "decide"
  /\ UNCHANGED <<remote, clowire, report, target, qy_read, lights, room>>

(* read_pir_value collects the values of the group, and then looks for a 1  *)
(* at the place after the last of them, which is zero, once for each.       *)
read_pir_value ==
  LET i     == Len(nums)
      group == [j \in 1 .. i |-> remote[nums[j]].value] \o <<0>>
  IN  \A j \in 1 .. i : group[i + 1] # 1

(* A lone sensor and a start of motion always act; an end of motion in a    *)
(* group acts if read_pir_value says that nobody is there.                  *)
Acts == nums = <<>> \/ report.motion \/ read_pir_value

(* send_cmd: nothing for an empty target.  The start of motion puts a scene *)
(* into the Clowire queue, behind the reports that still wait; its end      *)
(* (turn_off_dimmer) switches the scene's lamps off at once.                *)
Switch(on) ==
  IF on /\ target \in Scenes
  THEN /\ clo_read' = Append(clo_read, target)
       /\ overtaken' = overtaken \ {target}
       /\ lit' = lit
  ELSE /\ lit' = [lit EXCEPT ![target] = on]
       /\ overtaken' = (overtaken \ {target}) \cup ({target} \cap ToSet(clo_read))
       /\ clo_read' = clo_read

BrokenSendsOffOnly ==
  /\ main = "decide"
  /\ IF Acts /\ target # NoTarget THEN Switch(FALSE) ELSE UNCHANGED lights
  /\ main' = "save"
  /\ UNCHANGED <<remote, clowire, report, target, nums, qy_read, room>>

send_cmd ==
  /\ main = "decide"
  /\ IF Acts /\ target # NoTarget THEN Switch(report.motion) ELSE UNCHANGED lights
  /\ main' = "save"
  /\ UNCHANGED <<remote, clowire, report, target, nums, qy_read, room>>

BrokenSavesByte ==
  /\ main = "save"
  /\ remote' = [remote EXCEPT ![report.sensor].value = IF report.motion THEN 255 ELSE 0]
  /\ main' = "qiyuan"
  /\ UNCHANGED <<clowire, report, target, nums, qy_read, lights, room>>

save_pir_value ==
  /\ main = "save"
  /\ remote' = [remote EXCEPT ![report.sensor].value = IF report.motion THEN 1 ELSE 0]
  /\ main' = "qiyuan"
  /\ UNCHANGED <<clowire, report, target, nums, qy_read, lights, room>>

pir_handler ==
  TakeReport \/ remote_table_read \/ remote_read_num \/ send_cmd \/ save_pir_value

get_handle == TakeTrigger \/ NoTrigger \/ pir_handler \/ NoReport

(* No report, recall or command is left, and the threads wait for more.     *)
AtRest == /\ main \in {"clowire", "qiyuan"} /\ qy_read = <<>> /\ clo_read = <<>>
          /\ worker = "none"

Next ==
  \/ pir_control \/ ToggleRead \/ ToggleWrite \/ delay_config_inf
  \/ data_to_clo_thread
  \/ get_handle

(* The worker ends and the main loop goes on; nobody has to send anything.  *)
Fairness == WF_vars(get_handle) /\ WF_vars(ToggleWrite)

Spec == Init /\ [][Next]_vars /\ Fairness

--------------------------------------------------------------------------------
(* Properties.                                                              *)

(* Type invariant.                                                          *)
TypeOK ==
  /\ remote \in [Sensors -> [state : {0, 1}, value : {0, 1}, target : Targets \cup {NoTarget}]]
  /\ worker \in {"none", "toggle"}
  /\ main \in {"clowire", "qiyuan", "target", "group", "decide", "save"}
  /\ target \in Targets \cup {NoTarget}
  /\ nums \in Seq(Sensors)
  /\ clo_read \in Seq(Scenes) /\ lit \in [Targets -> BOOLEAN] /\ overtaken \subseteq Scenes
  /\ seen \in [Sensors -> BOOLEAN]

KeepsTarget(s) ==
  /\ Assigned[s] # NoTarget
  /\ \A c \in Commands : c.what \in {"assign", "delete"} => c.sensor # s

(* No other sensor has its target, or gets it.                              *)
Alone(s) ==
  /\ \A p \in Sensors \ {s} : Assigned[p] # Assigned[s]
  /\ \A c \in Commands : c.what = "assign" => c.target # Assigned[s]

NeverMasked(s) ==
  \A c \in Commands : c.what \in {"mask", "toggle"} => c.sensor # s

(* A target that one sensor has for itself, and that nobody reassigns,      *)
(* stands at rest as the value saved for the sensor says, however often it  *)
(* is masked, enabled and toggled in between (pir_handler sends before it   *)
(* saves) and however its reports pile up.  The one exception is a scene    *)
(* whose end of motion get_handle read while its start still waited in the  *)
(* Clowire queue: it is switched off, then recalled, and stays on.          *)
LightFollowsSensor ==
  AtRest =>
    \A s \in Sensors : KeepsTarget(s) /\ Alone(s) =>
      (lit[Assigned[s]] <=> remote[s].value = 1 \/ Assigned[s] \in overtaken)

(* A start of motion that found its sensor enabled switches the target on,  *)
(* even if the sensor is masked before the handler has done.                *)
AcceptedMotionLights ==
  \A s \in Sensors : KeepsTarget(s) =>
    ((main = "target" /\ report = [sensor |-> s, motion |-> TRUE]) ~> lit[Assigned[s]])

(* The values a group is judged by are current at rest: of every sensor     *)
(* that is never masked they say whether it sees motion, whatever targets   *)
(* are assigned and deleted while reports are handled (the comment on       *)
(* save_pir_value).                                                         *)
ValuesCurrent ==
  AtRest => \A s \in Sensors : NeverMasked(s) => (remote[s].value = 1 <=> seen[s])

(* Sensors that share a target are coordinated (README.md, "Features"; the  *)
(* comment on read_pir_value's call): a target is not off while one of its  *)
(* enabled sensors has the value 1.                                         *)
GroupCoordinated ==
  AtRest => \A s \in Sensors :
    remote[s].state = 1 /\ remote[s].value = 1 /\ remote[s].target # NoTarget
      => lit[remote[s].target]
================================================================================
