------------------------------ MODULE SceneControl -----------------------------
(****************************************************************************)
(* Scenes.  The worker of the Clowire reader adds rows to scene.txt and     *)
(* deletes them (scene_config_trans, scene_delete_trans).  The main loop    *)
(* applies a scene: it reads the scene's rows, sets lamps and sensors, and  *)
(* reads the rows again to tell the Clowire gateway what has changed        *)
(* (scene_control_trans, scene_control_feedback).  A sensor whose target is *)
(* a scene triggers it and switches it off (send_cmd, turn_off_dimmer).     *)
(*                                                                          *)
(* The file is empty while a deletion rewrites it, and is searched as text: *)
(* numbers that end or begin with one another can be taken for each other.  *)
(* A row may have a delay: the port's threads then send its command later,  *)
(* or send it at once and switch the lamp off later.                        *)
(****************************************************************************)
EXTENDS Translation, Filtering, SequencesExt

CONSTANTS
  Dial,        (* first address of addr.txt                                 *)
  DIMMER_CNT, PIR_NUM,
  Lamps,       (* the lamps and sensors that occur: device and subaddress   *)
  Sensors,
  Requests,    (* frames the Clowire gateway may send                       *)
  Events,      (* reports of the sensor with a target, TRUE for motion      *)
  Reporter,    (* that sensor                                               *)
  Target,      (* and the scene that is its target                          *)
  Stored,      (* the rows of scene.txt when the gateway starts             *)
  StoredLevel, (* dimmer.db at that time                                    *)
  MaxInputs, MaxDeletes, MaxEvents,  (* bounds: all, deletions, events      *)
  Garbage,     (* what an uninitialised byte may hold                       *)
  NoEntry

Devices == Lamps \cup Sensors
Values  == {r.value : r \in Requests} \cup {r.value : r \in Range(Stored)}
Delays  == {r.delay : r \in Requests} \cup {r.delay : r \in Range(Stored)}
Scenes  == {r.scene : r \in Requests} \cup {r.scene : r \in Range(Stored)} \cup {Target}

(* Addresses are bytes, as InstallationAssumption has them, and so are      *)
(* scene numbers.                                                           *)
ASSUME SceneAssumption ==
  /\ Dial \in 0 .. 240 /\ DIMMER_CNT \in 0 .. 63 /\ PIR_NUM \in 0 .. 31
  /\ Dial + DIMMER_CNT + PIR_NUM <= 256
  /\ Lamps \subseteq [dev : Dial .. Dial + DIMMER_CNT - 1, sub : LampSubs]
  /\ Sensors \subseteq [dev : Dial + DIMMER_CNT .. Dial + DIMMER_CNT + PIR_NUM - 1,
                        sub : SensorSubs]
  /\ Reporter \in Sensors
  /\ Requests \subseteq [cmd : {"configure", "delete", "control"}, scene : 0 .. 255,
                         device : Devices, value : 0 .. 100, delay : 0 .. 255]
  /\ Stored \in Seq([device : Devices, scene : 0 .. 255, value : 0 .. 100,
                     delay : 0 .. 255])
  /\ StoredLevel \in [Lamps -> 0 .. 100]
  /\ Events \subseteq BOOLEAN /\ Target \in 0 .. 255 /\ Garbage \subseteq 0 .. 255
  /\ MaxInputs \in Nat
  /\ NoEntry \notin 0 .. 255

Row == [device : Devices, scene : Scenes, value : Values, delay : Delays]

VARIABLES
  (* the reader's worker                                                    *)
  worker,       (* where it is                                              *)
  frame,        (* the frame it handles                                     *)
  kept,         (* the rows it copied to scene_tmp.txt                      *)
  (* the main loop                                                          *)
  main,         (* where it is                                              *)
  job,          (* the scene it handles, and whether it switches it off     *)
  para,         (* the rows it found                                        *)
  i,            (* the row it is at                                         *)
  pir_state,    (* a local variable that is not always set                  *)
  (* shared                                                                 *)
  scene_txt, truncated,
  photometric,  (* recorded brightness; its rewriting is in LightControl    *)
  dimmer_db,
  state,        (* remote.db: whether each sensor is enabled                *)
  queue_read, clo_write, qy_read, qy_write,
  asleep,       (* the commands that threads of the Qiyuan port delay       *)
  (* outside                                                                *)
  lamp,         (* level of each lamp, 0 .. 255                             *)
  shown,        (* brightness the Clowire gateway believes                  *)
  frames, deletes, events,
  (* history variables, which no step looks at                              *)
  unsettled,    (* lamps whose last command need not be their row's in the  *)
                (* database: see ApplyLamp and OffRow                       *)
  untold,       (* lamps that a scene set and did not report: MatchAgain    *)
  ended         (* lamps of which the last report is of the end of a delay  *)

workers == <<worker, frame, kept>>
mains   == <<main, job, para, i, pir_state>>
files   == <<scene_txt, truncated>>
lamp_db == <<dimmer_db, unsettled>>
dbs     == <<photometric, lamp_db, state>>
queues  == <<queue_read, clo_write, qy_read, qy_write, asleep>>
belief  == <<shown, ended, untold>>
outside == <<lamp, belief>>
counts  == <<frames, deletes, events>>
vars    == <<workers, mains, files, dbs, queues, outside, counts>>

IsDimmer(dev) == match_addr(dev, Dial, DIMMER_CNT)
IsPir(dev)    == match_addr(dev, Dial + DIMMER_CNT, PIR_NUM)

--------------------------------------------------------------------------------
(* scene.txt.                                                               *)

(* n, in decimal, ends with the digits of d, or has them somewhere.         *)
EndsWith(n, d) == n % (IF d < 10 THEN 10 ELSE IF d < 100 THEN 100 ELSE 1000) = d
HasDigits(n, d) == \E k \in {1, 10, 100} : (k = 1 \/ n \div k > 0) /\ EndsWith(n \div k, d)

(* strstr finds "dev sub #scene_id scene" in the row's text.                *)
Hits(row, device, scene) ==
  /\ EndsWith(row.device.dev, device.dev)
  /\ row.device.sub = device.sub
  /\ BeginsWith(row.scene, scene)

(* What match_dimmer_scene finds; the text that follows the number keeps    *)
(* scenes apart here.                                                       *)
Visible == IF truncated THEN <<>> ELSE scene_txt
RowsOf(text, scene) ==
  Filter(text, [device : Devices, scene : {scene}, value : Values, delay : Delays])

(* The arrays of match_dimmer_scene hold the twenty rows that a scene is    *)
(* taken to have at most: more would be written over other variables.       *)
HasRoom(text, scene) == Len(RowsOf(text, scene)) < 20
ASSUME StoredFits == \A s \in Scenes : Len(RowsOf(Stored, s)) <= 20

(* The entry of a device: the last of its rows.                             *)
LastOf(text, scene, d) ==
  LET last == SelectLastInSeq(text, LAMBDA row : row.device = d /\ row.scene = scene)
  IN  IF last = 0 THEN NoEntry ELSE text[last].value

Book(text) == [s \in Scenes |-> [d \in Devices |-> LastOf(text, s, d)]]

--------------------------------------------------------------------------------

Init ==
  /\ worker = "none" /\ frame = NoEntry /\ kept = <<>>
  /\ main = "clowire" /\ job = NoEntry /\ para = <<>> /\ i = 0 /\ pir_state = 0
  /\ scene_txt = Stored /\ truncated = FALSE
  /\ photometric = [l \in Lamps |-> NoEntry]
  /\ dimmer_db = StoredLevel
  /\ state = [p \in Sensors |-> 1]
  /\ queue_read = <<>> /\ clo_write = <<>> /\ qy_read = <<>> /\ qy_write = <<>>
  /\ asleep = <<>>
  /\ lamp = [l \in Lamps |-> clo_qy_trans(StoredLevel[l])]
  /\ shown = StoredLevel
  /\ frames = 0 /\ deletes = 0 /\ events = 0
  /\ unsettled = {} /\ untold = {} /\ ended = {}

--------------------------------------------------------------------------------
(* The reader and its worker (data_to_other_thread, clowire_to_qiyuan).     *)

BrokenNoWait ==
  /\ frames + events < MaxInputs
  /\ \E r \in Requests :
       /\ frame' = r
       /\ r.cmd = "configure" => HasRoom(scene_txt, r.scene)
       /\ r.cmd = "delete" => deletes < MaxDeletes
       /\ deletes' = IF r.cmd = "delete" THEN deletes + 1 ELSE deletes
       /\ worker' = IF r.cmd = "control" THEN "queue" ELSE r.cmd
  /\ frames' = frames + 1
  /\ UNCHANGED <<kept, mains, files, dbs, queues, outside, events>>

get_valid_cbus_data ==
  /\ worker = "none"
  /\ frames + events < MaxInputs
  /\ \E r \in Requests :
       /\ frame' = r
       /\ r.cmd = "configure" => HasRoom(scene_txt, r.scene)
       /\ r.cmd = "delete" => deletes < MaxDeletes
       /\ deletes' = IF r.cmd = "delete" THEN deletes + 1 ELSE deletes
       /\ worker' = IF r.cmd = "control" THEN "queue" ELSE r.cmd
  /\ frames' = frames + 1
  /\ UNCHANGED <<kept, mains, files, dbs, queues, outside, events>>

(* scene_config_trans: a lamp's brightness is also recorded, unless 0.      *)
RecordBrightness ==
  /\ worker = "configure"
  /\ photometric' = IF IsDimmer(frame.device.dev) /\ frame.value # 0
                    THEN [photometric EXCEPT ![frame.device] = frame.value]
                    ELSE photometric
  /\ worker' = "append"
  /\ UNCHANGED <<frame, kept, mains, files, lamp_db, state, queues, outside, counts>>

(* save_scene_para: a row more, even if the device has one for the scene.   *)
save_scene_para ==
  /\ worker = "append"
  /\ scene_txt' = Append(scene_txt, [device |-> frame.device, scene |-> frame.scene,
                                     value |-> frame.value, delay |-> frame.delay])
  /\ worker' = "queue"
  /\ UNCHANGED <<frame, kept, mains, truncated, dbs, queues, outside, counts>>

Staying(r) == {row \in Row : ~ Hits(row, r.device, r.scene)}

(* delete_scene_para copies the rows to keep; if one is to go it opens the  *)
(* file for "w" ...                                                         *)
BrokenDropsOneRow ==
  /\ worker = "delete"
  /\ LET Hit(row) == Hits(row, frame.device, frame.scene)
     IN  kept' = IF \E row \in Range(scene_txt) : Hit(row)
                 THEN RemoveFirstMatch(scene_txt, Hit) ELSE scene_txt
  /\ IF Len(kept') < Len(scene_txt)
     THEN truncated' = TRUE /\ worker' = "rewrite"
     ELSE UNCHANGED truncated /\ worker' = "queue"
  /\ UNCHANGED <<frame, mains, scene_txt, dbs, queues, outside, counts>>

CopyRows ==
  /\ worker = "delete"
  /\ kept' = Filter(scene_txt, Staying(frame))
  /\ IF Len(kept') < Len(scene_txt)
     THEN truncated' = TRUE /\ worker' = "rewrite"
     ELSE UNCHANGED truncated /\ worker' = "queue"
  /\ UNCHANGED <<frame, mains, scene_txt, dbs, queues, outside, counts>>

(* ... and copies them back; they are there when fclose flushes them.       *)
RewriteRows ==
  /\ worker = "rewrite"
  /\ scene_txt' = kept
  /\ truncated' = FALSE
  /\ kept' = <<>>
  /\ worker' = "queue"
  /\ UNCHANGED <<frame, mains, dbs, queues, outside, counts>>

(* The frame goes to the main loop, and a configuration or deletion is      *)
(* acknowledged; then the reader may go on.                                 *)
QueueFrame ==
  /\ worker = "queue"
  /\ queue_read' = Append(queue_read, frame)
  /\ worker' = IF frame.cmd = "control" THEN "none" ELSE "reply"
  /\ frame' = IF frame.cmd = "control" THEN NoEntry ELSE frame
  /\ UNCHANGED <<kept, mains, files, dbs, clo_write, qy_read, qy_write, asleep, outside,
                 counts>>

Reply ==
  /\ worker = "reply"
  /\ clo_write' = Append(clo_write, [what |-> "done"])
  /\ worker' = "none"
  /\ frame' = NoEntry
  /\ UNCHANGED <<kept, mains, files, dbs, queue_read, qy_read, qy_write, asleep, outside,
                 counts>>

data_to_other_thread ==
  RecordBrightness \/ save_scene_para \/ CopyRows \/ RewriteRows \/ QueueFrame \/ Reply

(* The sensor with a target reports.                                        *)
data_to_clo_thread ==
  /\ frames + events < MaxInputs
  /\ events < MaxEvents
  /\ \E motion \in Events : qy_read' = Append(qy_read, [motion |-> motion])
  /\ events' = events + 1
  /\ UNCHANGED <<workers, mains, files, dbs, queue_read, clo_write, qy_write, asleep,
                 outside, frames, deletes>>

--------------------------------------------------------------------------------
(* The main loop: the Clowire queue until it is empty, then the Qiyuan one. *)

(* event_handler has nothing to do for a configuration or deletion.         *)
TakeFrame ==
  /\ main = "clowire"
  /\ queue_read # <<>>
  /\ IF Head(queue_read).cmd = "control"
     THEN main' = "match" /\ job' = [scene |-> Head(queue_read).scene, off |-> FALSE]
     ELSE UNCHANGED <<main, job>>
  /\ queue_read' = Tail(queue_read)
  /\ UNCHANGED <<workers, para, i, pir_state, files, dbs, clo_write, qy_read, qy_write,
                 asleep, outside, counts>>

NoFrame ==
  /\ main = "clowire"
  /\ queue_read = <<>>
  /\ main' = "qiyuan"
  /\ UNCHANGED <<workers, job, para, i, pir_state, files, dbs, queues, outside, counts>>

(* pir_handler: a masked sensor is not heard; motion sends the scene's      *)
(* frame to both Clowire queues, its end goes to turn_off_dimmer.           *)
TakeEvent ==
  /\ main = "qiyuan"
  /\ qy_read # <<>>
  /\ qy_read' = Tail(qy_read)
  /\ IF state[Reporter] = 0
     THEN UNCHANGED <<main, job, queue_read, clo_write>>
     ELSE IF Head(qy_read).motion
     THEN /\ queue_read' = Append(queue_read, [cmd |-> "control", scene |-> Target])
          /\ clo_write' = Append(clo_write, [what |-> "scene"])
          /\ UNCHANGED <<main, job>>
     ELSE /\ main' = "match" /\ job' = [scene |-> Target, off |-> TRUE]
          /\ UNCHANGED <<queue_read, clo_write>>
  /\ UNCHANGED <<workers, para, i, pir_state, files, dbs, qy_write, asleep, outside, counts>>

NoEvent ==
  /\ main = "qiyuan"
  /\ qy_read = <<>>
  /\ main' = "clowire"
  /\ UNCHANGED <<workers, job, para, i, pir_state, files, dbs, queues, outside, counts>>

(* match_dimmer_scene.  Nothing sets pir_state before the first sensor row  *)
(* that masks.                                                              *)
match_dimmer_scene ==
  /\ main = "match"
  /\ para' = RowsOf(Visible, job.scene)
  /\ i' = 1
  /\ \E g \in Garbage : pir_state' = g
  /\ main' = IF job.off THEN "off" ELSE "apply"
  /\ UNCHANGED <<workers, job, files, dbs, queues, outside, counts>>

(* Of the commands on their way to lamp l, those that are delayed.          *)
Reaches(command, l) ==
  command.what = "dim" /\ addr_trans_qy(Dial, command.circuit, command.application) = l
DelayedFor(l) == \E command \in Range(qy_write) \cup Range(asleep) :
  Reaches(command, l) /\ command.delay > 0

Settle(l, certain) ==
  unsettled' = IF certain THEN unsettled \ {l} ELSE unsettled \cup ({l} \cap Lamps)

(* scene_control_trans, row by row: a lamp's value goes to dimmer.db.  Its  *)
(* command need not be the lamp's last if an older one is delayed, or if    *)
(* the lamp is to be switched off again.                                    *)
Certain ==
  /\ para[i].delay <= 127
  /\ ~ DelayedFor(para[i].device)
  /\ \A k \in 1 .. i - 1 : para[k].device = para[i].device => para[k].delay = 0

BrokenSkipsZero ==
  /\ main = "apply" /\ i <= Len(para)
  /\ IsDimmer(para[i].device.dev)
  /\ dimmer_db' = IF para[i].value = 0 THEN dimmer_db
                  ELSE [dimmer_db EXCEPT ![para[i].device] = para[i].value]
  /\ Settle(para[i].device, Certain)
  /\ i' = i + 1
  /\ UNCHANGED <<workers, main, job, para, pir_state, files, photometric, state, queues,
                 outside, counts>>

ApplyLamp ==
  /\ main = "apply" /\ i <= Len(para)
  /\ IsDimmer(para[i].device.dev)
  /\ dimmer_db' = [dimmer_db EXCEPT ![para[i].device] = para[i].value]
  /\ Settle(para[i].device, Certain)
  /\ i' = i + 1
  /\ UNCHANGED <<workers, main, job, para, pir_state, files, photometric, state, queues,
                 outside, counts>>

(* A sensor row of value 1 masks the sensor.  For 0 the code compares where *)
(* it means to assign, and saves what pir_state happens to hold; 2 toggles. *)
BrokenMaskEnables ==
  /\ main = "apply" /\ i <= Len(para)
  /\ ~ IsDimmer(para[i].device.dev)
  /\ pir_state' = IF para[i].value = 1 THEN 1 ELSE pir_state
  /\ state' = [state EXCEPT ![para[i].device] = 
                IF pir_state' # 2 THEN pir_state' ELSE IF @ = 0 THEN 1 ELSE 0]
  /\ i' = i + 1
  /\ UNCHANGED <<workers, main, job, para, files, photometric, lamp_db, queues, outside,
                 counts>>

ApplySensor ==
  /\ main = "apply" /\ i <= Len(para)
  /\ ~ IsDimmer(para[i].device.dev)
  /\ pir_state' = IF para[i].value = 1 THEN 0 ELSE pir_state
  /\ state' = [state EXCEPT ![para[i].device] = 
                IF pir_state' # 2 THEN pir_state' ELSE IF @ = 0 THEN 1 ELSE 0]
  /\ i' = i + 1
  /\ UNCHANGED <<workers, main, job, para, files, photometric, lamp_db, queues, outside,
                 counts>>

(* turn_off_dimmer takes every row for a lamp: the database has no row for  *)
(* a sensor's address, but its command reaches the lamp of some circuit.    *)
Addressed(device) ==
  addr_trans_qy(Dial, addr_trans(Dial, device.dev, device.sub), app(device.sub))

OffRow ==
  /\ main = "off" /\ i <= Len(para)
  /\ dimmer_db' = [l \in Lamps |-> IF l = para[i].device THEN 0 ELSE dimmer_db[l]]
  /\ LET l == Addressed(para[i].device)
     IN  Settle(l, l = para[i].device /\ ~ DelayedFor(l))
  /\ i' = i + 1
  /\ UNCHANGED <<workers, main, job, para, pir_state, files, photometric, state, queues,
                 outside, counts>>

(* The commands go to the lamps in one call.  A sensor row of a scene that  *)
(* is applied leaves an empty one.  A switch-off is not delayed.            *)
CommandOf(row) ==
  IF ~ job.off /\ ~ IsDimmer(row.device.dev) THEN [what |-> "empty", delay |-> 0]
  ELSE [what        |-> "dim",
        circuit     |-> addr_trans(Dial, row.device.dev, row.device.sub),
        application |-> app(row.device.sub),
        level       |-> IF job.off THEN 0 ELSE clo_qy_trans(row.value),
        delay       |-> IF job.off THEN 0 ELSE row.delay]

SendRows ==
  /\ main \in {"apply", "off"} /\ i > Len(para)
  /\ qy_write' = qy_write \o [k \in 1 .. Len(para) |-> CommandOf(para[k])]
  /\ main' = "again"
  /\ UNCHANGED <<workers, job, para, i, pir_state, files, dbs, queue_read, clo_write,
                 qy_read, asleep, outside, counts>>

(* scene_control_feedback reads the rows again.  A lamp will be reported if *)
(* it has a row there, and its module's number neither is part of one before*)
(* it nor begins that of a sensor module.                                   *)
WillBeTold(l, rows) ==
  /\ ~ IsPir(l.dev)
  /\ \E k \in DOMAIN rows :
       /\ rows[k].device.dev = l.dev
       /\ \A n \in 1 .. k - 1 :
            HasDigits(rows[n].device.dev, l.dev) => rows[n].device.dev = l.dev

MatchAgain ==
  /\ main = "again"
  /\ para' = RowsOf(Visible, job.scene)
  /\ untold' = {l \in Lamps : /\ ~ WillBeTold(l, para')
                              /\ l \in untold \/ \E row \in Range(para) : row.device = l}
  /\ main' = "feedback"
  /\ UNCHANGED <<workers, job, i, pir_state, files, dbs, queues, lamp, shown, ended,
                 counts>>

(* ... lists their modules (caculate_scene_module), beginning with the      *)
(* first row's, or with 0 when there is none, and leaving out those whose   *)
(* number it finds in one it has ...                                        *)
WithModule(list, dev) ==
  IF \E k \in DOMAIN list : HasDigits(list[k], dev) THEN list ELSE Append(list, dev)

BrokenFirstModuleOnly(rows) == IF rows = <<>> THEN <<0>> ELSE <<rows[1].device.dev>>
ModulesOf(rows) ==
  LET list[n \in 0 .. Len(rows)] ==
        IF n = 0 THEN IF rows = <<>> THEN <<0>> ELSE <<rows[1].device.dev>>
        ELSE WithModule(list[n - 1], rows[n].device.dev)
  IN  list[Len(rows)]

(* ... and reports each dimmer module's lamps as dimmer.db has them, and    *)
(* each sensor row.  The worker's replies may come between these frames.    *)
LampReports ==
  LET dimmers == Filter(ModulesOf(para), {dev \in 0 .. 255 : ~ IsPir(dev)})
  IN  [k \in 1 .. Len(dimmers) |->
         [what |-> "module", dev |-> dimmers[k], values |-> dimmer_db]]
SensorReports ==
  LET rows == Filter(para, {row \in Row : ~ IsDimmer(row.device.dev)})
  IN  [k \in 1 .. Len(rows) |-> [what |-> "sensor", of |-> rows[k].device]]

scene_control_feedback ==
  /\ main = "feedback"
  /\ clo_write' = clo_write \o LampReports \o SensorReports
  /\ main' = IF job.off THEN "qiyuan" ELSE "clowire"
  /\ job' = NoEntry /\ para' = <<>> /\ i' = 0 /\ pir_state' = 0
  /\ UNCHANGED <<workers, files, dbs, queue_read, qy_read, qy_write, asleep, outside, counts>>

get_handle ==
  \/ TakeFrame \/ NoFrame \/ TakeEvent \/ NoEvent
  \/ match_dimmer_scene \/ ApplyLamp \/ ApplySensor \/ OffRow \/ SendRows
  \/ MatchAgain \/ scene_control_feedback

--------------------------------------------------------------------------------
(* The write threads.                                                       *)

(* trans_serial_write drops an empty row, and starts a thread for a command *)
(* with a delay: up to 127 seconds it is written when they have passed,     *)
(* above that at once.  sleep takes any time here.                          *)
BrokenForgetsDelayed ==
  /\ qy_write # <<>>
  /\ LET row == Head(qy_write)
     IN  /\ lamp' = [l \in Lamps |->
              IF Reaches(row, l) /\ row.delay \notin 1 .. 127 THEN row.level ELSE lamp[l]]
         /\ asleep' = IF row.delay > 127 THEN Append(asleep, row) ELSE asleep
  /\ qy_write' = Tail(qy_write)
  /\ UNCHANGED <<workers, mains, files, dbs, queue_read, clo_write, qy_read, belief, counts>>

trans_serial_write ==
  /\ qy_write # <<>>
  /\ LET row == Head(qy_write)
     IN  /\ lamp' = [l \in Lamps |->
              IF Reaches(row, l) /\ row.delay \notin 1 .. 127 THEN row.level ELSE lamp[l]]
         /\ asleep' = IF row.delay > 0 THEN Append(asleep, row) ELSE asleep
  /\ qy_write' = Tail(qy_write)
  /\ UNCHANGED <<workers, mains, files, dbs, queue_read, clo_write, qy_read, belief, counts>>

(* The thread of a command that has waited.                                 *)
delay_sec(n) ==
  /\ asleep[n].delay \in 1 .. 127
  /\ qy_write' = Append(qy_write, [asleep[n] EXCEPT !.delay = 0])
  /\ asleep' = RemoveAt(asleep, n)
  /\ UNCHANGED clo_write

(* The thread of a lamp that has been on for a while sends 0 (the other     *)
(* values are compared, not assigned) ...                                   *)
wait_seconds(n) ==
  /\ asleep[n].delay > 127
  /\ qy_write' = Append(qy_write, [asleep[n] EXCEPT !.level = 0, !.delay = 0])
  /\ asleep' = [asleep EXCEPT ![n].delay = 0]
  /\ UNCHANGED clo_write

(* ... and then reports it, but does not touch dimmer.db.                   *)
feed_back(n) ==
  /\ asleep[n].delay = 0
  /\ clo_write' = Append(clo_write,
       [what |-> "lamp", of |-> addr_trans_qy(Dial, asleep[n].circuit, asleep[n].application)])
  /\ asleep' = RemoveAt(asleep, n)
  /\ UNCHANGED qy_write

Wake ==
  /\ \E n \in DOMAIN asleep : delay_sec(n) \/ wait_seconds(n) \/ feed_back(n)
  /\ UNCHANGED <<workers, mains, files, dbs, queue_read, qy_read, outside, counts>>

general_serial_write ==
  /\ clo_write # <<>>
  /\ LET report == Head(clo_write)
         Module(l) == report.what = "module" /\ l.dev = report.dev
         Ended(l)  == report.what = "lamp" /\ l = report.of
     IN  /\ shown' = [l \in Lamps |-> IF Module(l) THEN report.values[l]
                                     ELSE IF Ended(l) THEN 0 ELSE shown[l]]
         /\ ended' = {l \in Lamps : ~ Module(l) /\ (Ended(l) \/ l \in ended)}
  /\ clo_write' = Tail(clo_write)
  /\ UNCHANGED <<workers, mains, files, dbs, queue_read, qy_read, qy_write, asleep, lamp,
                 untold, counts>>

Next ==
  \/ get_valid_cbus_data
  \/ data_to_other_thread
  \/ data_to_clo_thread
  \/ get_handle
  \/ trans_serial_write
  \/ Wake
  \/ general_serial_write

Spec == Init /\ [][Next]_vars

--------------------------------------------------------------------------------
(* Properties.                                                              *)

(* Type invariant.  The file is empty only while a deletion rewrites it.    *)
TypeOK ==
  /\ worker \in {"none", "configure", "append", "delete", "rewrite", "queue", "reply"}
  /\ main \in {"clowire", "qiyuan", "match", "apply", "off", "again", "feedback"}
  /\ \A text \in {scene_txt, kept, para} : Range(text) \subseteq Row
  /\ truncated <=> worker = "rewrite"
  /\ photometric \in [Lamps -> (1 .. 100) \cup {NoEntry}]
  /\ dimmer_db \in [Lamps -> 0 .. 100]
  /\ state \in [Sensors -> 0 .. 255]
  /\ lamp \in [Lamps -> 0 .. 255] /\ shown \in [Lamps -> 0 .. 100]
  /\ \A lamps \in {unsettled, untold, ended} : lamps \subseteq Lamps

Quiescent ==
  /\ worker = "none"
  /\ main \in {"clowire", "qiyuan"}
  /\ \A q \in {queue_read, clo_write, qy_read, qy_write, asleep} : q = <<>>

(* The main loop has found the rows of its scene and not yet set them all.  *)
Rest == SubSeq(para, i, Len(para))
Final(l) ==
  LET entry == LastOf(Rest, job.scene, l)
  IN  IF main \notin {"apply", "off"} \/ entry = NoEntry THEN dimmer_db[l]
      ELSE IF main = "off" THEN 0 ELSE entry

(* Scenes do what the README promises: a configuration stores or replaces   *)
(* one entry, a deletion removes one, and a scene is applied as a whole, as *)
(* it was stored at one moment, whatever the worker does to the file        *)
(* meanwhile and however many rows a device has in it.  (A scene that is    *)
(* triggered during a rewrite has no effect.)                               *)
Promise == INSTANCE SceneBook WITH
  book   <- Book(scene_txt),
  level  <- [l \in Lamps |-> Final(l)],
  Stored <- Book(Stored)

ImplementsSceneBook == Promise!Spec

(* What is acknowledged is done: when the gateway is about to be told that  *)
(* a configuration or deletion succeeded, the entry a recall would use is   *)
(* the configured one, or there is none left, also if the device had been   *)
(* configured several times.                                                *)
AcknowledgedIsStored ==
  worker = "reply" =>
    LastOf(Visible, frame.scene, frame.device)
      = IF frame.cmd = "configure" THEN frame.value ELSE NoEntry

(* dimmer.db holds the current value of every lamp (README.md, "SQLite      *)
(* Tables"): at rest the lamps stand as the database says, after any        *)
(* sequence of scenes and switch-offs and in whatever order delays end,     *)
(* except for lamps that were set while an older command for them was       *)
(* delayed, that have been on for a while only, or that a sensor's row of a *)
(* switched-off scene has hit (serial.c:514, 546, data_handle.c:648).       *)
DbTracksDevice ==
  Quiescent => \A l \in Lamps \ unsettled : lamp[l] = clo_qy_trans(dimmer_db[l])

(* The same without the exceptions.                                         *)
DbTracksAlways ==
  Quiescent => \A l \in Lamps : lamp[l] = clo_qy_trans(dimmer_db[l])

(* The gateway is told of every lamp a scene has set (README.md, "Apply a   *)
(* stored scene and send device feedback"): at rest it believes what the    *)
(* database holds, or 0 if it was last told that a delay has ended, whatever*)
(* is stored and deleted meanwhile.  Except for lamps whose rows a deletion *)
(* took, or hid, before they were read again, or whose module's number is   *)
(* part of another's (data_handle.c:511, addr_req.c:632).                   *)
Believed(l) == shown[l] = IF l \in ended THEN 0 ELSE dimmer_db[l]

GatewaySeesScene == Quiescent => \A l \in Lamps \ untold : Believed(l)

(* The same without the exceptions.                                         *)
GatewaySeesSceneAlways == Quiescent => \A l \in Lamps : Believed(l)

(* When a scene has been applied, each sensor whose row masks it is masked, *)
(* also when other rows, of this or another sensor, follow or precede.      *)
SceneMasks ==
  main = "again" /\ ~ job.off =>
    \A p \in Sensors : LastOf(para, job.scene, p) = 1 => state[p] = 0

(* And each sensor whose row enables it is enabled (the comment on          *)
(* pir_control, data_handle.c:131: "off" turns a sensor on).                *)
SceneUnmasks ==
  main = "again" /\ ~ job.off =>
    \A p \in Sensors : LastOf(para, job.scene, p) = 0 => state[p] = 1

(* A triggered scene is found (README.md, "Apply a stored scene").          *)
SceneFound ==
  [][main = "match" /\ main' # "match" => para' = RowsOf(scene_txt, job.scene)]_vars

================================================================================
