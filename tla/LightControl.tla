----------------------------- MODULE LightControl ------------------------------
(****************************************************************************)
(* A lamp command on its way through the gateway.                           *)
(*                                                                          *)
(* The reader of the Clowire port hands a frame to a worker thread          *)
(* (data_to_other_thread), which saves the brightness, updates the dimmer   *)
(* database, queues the frame for the main loop and the translated command  *)
(* for the lamps.  The main loop (get_handle) answers the gateway with a    *)
(* feedback frame, and drives lamps itself when a PIR sensor asks for it.   *)
(* Two write threads empty the queues towards the ports.                    *)
(*                                                                          *)
(* The threads share photometric.txt, which save_dimmer_value rewrites in   *)
(* place and parse_dimmer_file reads in two passes, dimmer.db and the four  *)
(* queues.  SerialQueue shows that a queue's calls are atomic for the one   *)
(* row per call they bring here.                                            *)
(****************************************************************************)
EXTENDS Translation, Sequences

CONSTANTS
  Lamps,
  Levels,     (* brightness values the Clowire gateway sends, in 0 .. 100   *)
  Others,     (* value bytes that mean nothing                              *)
  Events,     (* what the PIR sensor reports: "on", "off" or nothing        *)
  MaxFrames,  (* bound: command frames                                      *)
  MaxEvents,  (* bound: sensor events                                       *)
  Garbage,    (* what an uninitialised byte may hold                        *)
  QUEUE_MAX,
  NoEntry

SWITCH_OFF == 154     (* 0x9A                                               *)
RESTORE    == 144     (* 0x90                                               *)

ASSUME LightAssumption ==
  /\ Levels \subseteq 0 .. 100
  /\ Others \subseteq (101 .. 255) \ {SWITCH_OFF, RESTORE}
  /\ Events \subseteq {"on", "off"}
  /\ MaxFrames \in Nat /\ MaxEvents \in Nat
  /\ QUEUE_MAX \in Nat \ {0, 1}
  /\ Garbage \subseteq 0 .. 255
  /\ NoEntry \notin 0 .. 255

VARIABLES
  (* the reader and its worker                                              *)
  p_flag,       (* 1 while a worker handles buf_final                       *)
  buf_final,    (* the frame: lamp and value byte                           *)
  worker,       (* where the worker is                                      *)
  dimmer_value, (* its local variable                                       *)
  (* the main loop                                                          *)
  main,         (* where the main loop is                                   *)
  job,          (* the frame or event it handles                            *)
  first_pass,   (* the text parse_dimmer_file saw in its first pass         *)
  dim_value,    (* the brightness it found                                  *)
  (* shared                                                                 *)
  photometric,  (* the lines of photometric.txt, complete                   *)
  truncated,    (* the file is open for "w" and nothing is flushed yet      *)
  dimmer_db,
  queue_read,   (* frames from the Clowire port for the main loop           *)
  clo_write,    (* feedback for the Clowire port                            *)
  qy_read,      (* sensor events for the main loop                          *)
  qy_write,     (* commands for the Qiyuan port                             *)
  (* outside                                                                *)
  lamp,         (* level of each lamp, 0 .. 255                             *)
  shown,        (* brightness the Clowire gateway believes, 0 .. 100        *)
  frames, answered, events,
  (* history                                                                *)
  db_by,        (* the thread that wrote a lamp's row of dimmer_db last     *)
  strayed       (* lamps whose last command is not what dimmer_db has       *)

reader   == <<p_flag, buf_final>>
workers  == <<worker, dimmer_value>>
mains    == <<main, job, first_pass, dim_value>>
files    == <<photometric, truncated>>
database == <<dimmer_db, db_by, strayed>>
queues   == <<queue_read, clo_write, qy_read, qy_write>>
outside  == <<lamp, shown, frames, answered, events>>
vars     == <<reader, workers, mains, files, database, queues, outside>>

(* cbus_enqueue, and qy_enqueue with one row: a full queue refuses it.      *)
Enqueue(q, line) == IF Len(q) = QUEUE_MAX - 1 THEN q ELSE Append(q, line)

--------------------------------------------------------------------------------
(* photometric.txt.                                                         *)

(* What fopen for reading finds.                                            *)
Visible == IF truncated THEN <<>> ELSE photometric

Places(file, l) == {i \in 1 .. Len(file) : file[i].lamp = l}
HasLine(file, l) == Places(file, l) # {}
LineOf(file, l) == file[CHOOSE i \in Places(file, l) : TRUE].level
Recorded(file, l) == IF HasLine(file, l) THEN LineOf(file, l) ELSE NoEntry
OrDefault(entry) == IF entry = NoEntry THEN 100 ELSE entry

Digits(v) == IF v < 10 THEN 1 ELSE IF v < 100 THEN 2 ELSE 3

(* By how many characters the line of l moved since the first pass, when    *)
(* the lines before it were rewritten.                                      *)
Moved(before, now, l) ==
  LET Width[i \in 0 .. Len(before)] ==
        IF i = 0 THEN 0 ELSE Width[i - 1] + Digits(now[i].level) - Digits(before[i].level)
      place == CHOOSE i \in Places(before, l) : TRUE
  IN  Width[place - 1]

(* The second pass seeks to the offset the first one counted and takes the  *)
(* second word from there: nothing, and an uninitialised byte, when the     *)
(* file is empty by then; the next line's name, which atoi makes 0, when    *)
(* the offset lies two characters or more before the line.                  *)
SecondPass(before, now, l) ==
  IF now = <<>> THEN Garbage
  ELSE IF Moved(before, now, l) >= 2 THEN {0}
  ELSE {LineOf(now, l)}

--------------------------------------------------------------------------------

Init ==
  /\ p_flag = 0 /\ buf_final = NoEntry
  /\ worker = "none" /\ dimmer_value = 0
  /\ main = "clowire" /\ job = NoEntry /\ first_pass = <<>> /\ dim_value = 0
  /\ photometric = <<>> /\ truncated = FALSE
  /\ dimmer_db = [l \in Lamps |-> 0]
  /\ queue_read = <<>> /\ clo_write = <<>> /\ qy_read = <<>> /\ qy_write = <<>>
  /\ lamp = [l \in Lamps |-> 0] /\ shown = [l \in Lamps |-> 0]
  /\ frames = 0 /\ answered = 0 /\ events = 0
  /\ db_by = [l \in Lamps |-> "nobody"] /\ strayed = {}

Set(f, l, v) == [f EXCEPT ![l] = v]

(* A command for l is queued, which other means that the row of dimmer_db   *)
(* was last written for another command.                                    *)
Stray(l, other) == IF other THEN strayed \cup {l} ELSE strayed \ {l}

(* The bytes that go to a lamp.                                             *)
LampLine(l, percent) == [lamp |-> l, level |-> clo_qy_trans(percent)]

--------------------------------------------------------------------------------
(* The reader and its worker.                                               *)

(* get_valid_cbus_data: a complete frame, once the last worker is done.     *)
get_valid_cbus_data ==
  /\ frames < MaxFrames
  /\ p_flag = 0
  /\ \E l \in Lamps, v \in Levels \cup Others \cup {SWITCH_OFF, RESTORE} :
       buf_final' = [lamp |-> l, value |-> v]
  /\ p_flag' = 1
  /\ worker' = "translate"
  /\ frames' = frames + 1
  /\ UNCHANGED <<dimmer_value, mains, files, database, queues, lamp, shown, answered, events>>

(* single_control_trans.  A value byte that means nothing leaves file and   *)
(* database alone, and the lamp is sent 0 ...                               *)
Unknown ==
  /\ worker = "translate"
  /\ buf_final.value \in Others
  /\ dimmer_value' = 0
  /\ worker' = "answer"
  /\ UNCHANGED <<reader, mains, files, database, queues, outside>>

(* ... and there are three kinds of value that do.                          *)
Off ==
  /\ worker = "translate"
  /\ buf_final.value \in {0, SWITCH_OFF}
  /\ dimmer_value' = 0
  /\ worker' = "update"
  /\ UNCHANGED <<reader, mains, files, database, queues, outside>>

Restore ==
  /\ worker = "translate"
  /\ buf_final.value = RESTORE
  /\ dimmer_value' = OrDefault(Recorded(Visible, buf_final.lamp))
  /\ worker' = "update"
  /\ UNCHANGED <<reader, mains, files, database, queues, outside>>

(* save_dimmer_value: a first brightness is appended to the file.           *)
SaveNew ==
  /\ worker = "translate"
  /\ buf_final.value \in 1 .. 100
  /\ ~ HasLine(photometric, buf_final.lamp)
  /\ photometric' = Append(photometric, [lamp |-> buf_final.lamp, level |-> buf_final.value])
  /\ dimmer_value' = buf_final.value
  /\ worker' = "update"
  /\ UNCHANGED <<reader, mains, truncated, database, queues, outside>>

(* A later one goes to a copy first; then the file is opened for "w" ...    *)
SaveTruncate ==
  /\ worker = "translate"
  /\ buf_final.value \in 1 .. 100
  /\ HasLine(photometric, buf_final.lamp)
  /\ truncated' = TRUE
  /\ worker' = "rewrite"
  /\ UNCHANGED <<reader, dimmer_value, mains, photometric, database, queues, outside>>

(* ... and gets its text when fclose flushes the buffer.                    *)
BrokenRewriteKeeps ==
  /\ worker = "rewrite"
  /\ photometric' = photometric
  /\ truncated' = FALSE
  /\ dimmer_value' = buf_final.value
  /\ worker' = "update"
  /\ UNCHANGED <<reader, mains, database, queues, outside>>

BrokenSaveConverted ==
  /\ worker = "rewrite"
  /\ photometric' = [i \in 1 .. Len(photometric) |->
                       IF photometric[i].lamp = buf_final.lamp
                       THEN LampLine(buf_final.lamp, buf_final.value)
                       ELSE photometric[i]]
  /\ truncated' = FALSE
  /\ dimmer_value' = buf_final.value
  /\ worker' = "update"
  /\ UNCHANGED <<reader, mains, database, queues, outside>>

SaveRewrite ==
  /\ worker = "rewrite"
  /\ photometric' = [i \in 1 .. Len(photometric) |->
                       IF photometric[i].lamp = buf_final.lamp
                       THEN [photometric[i] EXCEPT !.level = buf_final.value]
                       ELSE photometric[i]]
  /\ truncated' = FALSE
  /\ dimmer_value' = buf_final.value
  /\ worker' = "update"
  /\ UNCHANGED <<reader, mains, database, queues, outside>>

UpdateDb ==
  /\ worker = "update"
  /\ dimmer_db' = Set(dimmer_db, buf_final.lamp, dimmer_value)
  /\ db_by' = Set(db_by, buf_final.lamp, "worker")
  /\ worker' = "answer"
  /\ UNCHANGED <<reader, dimmer_value, mains, files, strayed, queues, outside>>

(* The frame goes to the main loop ...                                      *)
QueueFrame ==
  /\ worker = "answer"
  /\ queue_read' = Enqueue(queue_read, buf_final)
  /\ worker' = "drive"
  /\ UNCHANGED <<reader, dimmer_value, mains, files, database, clo_write, qy_read, qy_write,
                 outside>>

(* ... and the command to the lamp; then the reader may go on.              *)
BrokenFlagKept ==
  /\ worker = "drive"
  /\ qy_write' = Enqueue(qy_write, LampLine(buf_final.lamp, dimmer_value))
  /\ strayed' = Stray(buf_final.lamp,
                      buf_final.value \in Others \/ db_by[buf_final.lamp] # "worker")
  /\ worker' = "none"
  /\ UNCHANGED <<reader, dimmer_value, mains, files, dimmer_db, db_by, queue_read, clo_write,
                 qy_read, outside>>

QueueCommand ==
  /\ worker = "drive"
  /\ qy_write' = Enqueue(qy_write, LampLine(buf_final.lamp, dimmer_value))
  /\ strayed' = Stray(buf_final.lamp,
                      buf_final.value \in Others \/ db_by[buf_final.lamp] # "worker")
  /\ p_flag' = 0
  /\ worker' = "none"
  /\ UNCHANGED <<buf_final, dimmer_value, mains, files, dimmer_db, db_by, queue_read, clo_write,
                 qy_read, outside>>

data_to_other_thread ==
  \/ Unknown \/ Off \/ Restore \/ SaveNew \/ SaveTruncate \/ SaveRewrite
  \/ UpdateDb \/ QueueFrame \/ QueueCommand

(* A sensor event reaches the main loop's queue (data_to_clo_thread).       *)
data_to_clo_thread ==
  /\ events < MaxEvents
  /\ \E l \in Lamps, e \in Events : qy_read' = Enqueue(qy_read, [lamp |-> l, event |-> e])
  /\ events' = events + 1
  /\ UNCHANGED <<reader, workers, mains, files, database, queue_read, clo_write, qy_write,
                 lamp, shown, frames, answered>>

--------------------------------------------------------------------------------
(* The main loop.  get_handle empties the Clowire queue, then the Qiyuan    *)
(* queue, and starts again.                                                 *)

(* event_handler for a lamp command: the feedback is 0 after a switch-off,  *)
(* and otherwise the brightness that photometric.txt holds.                 *)
TakeFrame ==
  /\ main = "clowire"
  /\ queue_read # <<>>
  /\ LET frame == Head(queue_read)
     IN  /\ job' = [lamp |-> frame.lamp, task |-> "feedback", from |-> "clowire"]
         /\ IF frame.value = SWITCH_OFF
            THEN main' = "report" /\ dim_value' = 0
            ELSE main' = "find" /\ UNCHANGED dim_value
  /\ queue_read' = Tail(queue_read)
  /\ UNCHANGED <<reader, workers, first_pass, files, database, clo_write, qy_read, qy_write,
                 outside>>

NoFrame ==
  /\ main = "clowire"
  /\ queue_read = <<>>
  /\ main' = "qiyuan"
  /\ UNCHANGED <<reader, workers, job, first_pass, dim_value, files, database, queues, outside>>

(* pir_handler for a sensor whose target is a lamp: send_cmd restores the   *)
(* brightness, turn_off_dimmer switches off.                                *)
TakeEvent ==
  /\ main = "qiyuan"
  /\ qy_read # <<>>
  /\ LET report == Head(qy_read)
     IN  IF report.event = "on"
         THEN /\ job' = [lamp |-> report.lamp, task |-> "restore", from |-> "qiyuan"]
              /\ main' = "find" /\ UNCHANGED dim_value
         ELSE /\ job' = [lamp |-> report.lamp, task |-> "switch off", from |-> "qiyuan"]
              /\ main' = "mark" /\ dim_value' = 0
  /\ qy_read' = Tail(qy_read)
  /\ UNCHANGED <<reader, workers, first_pass, files, database, queue_read, clo_write, qy_write,
                 outside>>

NoEvent ==
  /\ main = "qiyuan"
  /\ qy_read = <<>>
  /\ main' = "clowire"
  /\ UNCHANGED <<reader, workers, job, first_pass, dim_value, files, database, queues, outside>>

(* parse_dimmer_file.                                                       *)
Parsed == IF job.task = "feedback" THEN "report" ELSE "mark"

Find ==
  /\ main = "find"
  /\ IF HasLine(Visible, job.lamp)
     THEN main' = "fetch" /\ first_pass' = Visible /\ UNCHANGED dim_value
     ELSE main' = Parsed /\ dim_value' = 100 /\ UNCHANGED first_pass
  /\ UNCHANGED <<reader, workers, job, files, database, queues, outside>>

Fetch ==
  /\ main = "fetch"
  /\ \E v \in SecondPass(first_pass, Visible, job.lamp) : dim_value' = v
  /\ first_pass' = <<>>
  /\ main' = Parsed
  /\ UNCHANGED <<reader, workers, job, files, database, queues, outside>>

(* single_control_trans in the main loop: the database, then the lamp.      *)
BrokenMarkConverted ==
  /\ main = "mark"
  /\ dimmer_db' = Set(dimmer_db, job.lamp, clo_qy_trans(dim_value))
  /\ db_by' = Set(db_by, job.lamp, "main")
  /\ main' = "drive"
  /\ UNCHANGED <<reader, workers, job, first_pass, dim_value, files, strayed, queues, outside>>

Mark ==
  /\ main = "mark"
  /\ dimmer_db' = Set(dimmer_db, job.lamp, dim_value)
  /\ db_by' = Set(db_by, job.lamp, "main")
  /\ main' = "drive"
  /\ UNCHANGED <<reader, workers, job, first_pass, dim_value, files, strayed, queues, outside>>

Drive ==
  /\ main = "drive"
  /\ qy_write' = Enqueue(qy_write, LampLine(job.lamp, dim_value))
  /\ strayed' = Stray(job.lamp, db_by[job.lamp] # "main")
  /\ job' = [job EXCEPT !.task = "feedback"]
  /\ main' = IF job.task = "restore" THEN "find" ELSE "report"
  /\ UNCHANGED <<reader, workers, first_pass, dim_value, files, dimmer_db, db_by, queue_read,
                 clo_write, qy_read, outside>>

BrokenFeedbackLost ==
  /\ main = "report"
  /\ main' = job.from
  /\ UNCHANGED <<reader, workers, job, first_pass, dim_value, files, database, queues, outside>>

Report ==
  /\ main = "report"
  /\ clo_write' = Enqueue(clo_write, [lamp |-> job.lamp, level |-> dim_value])
  /\ main' = job.from
  /\ UNCHANGED <<reader, workers, job, first_pass, dim_value, files, database, queue_read,
                 qy_read, qy_write, outside>>

get_handle ==
  \/ TakeFrame \/ NoFrame \/ TakeEvent \/ NoEvent
  \/ Find \/ Fetch \/ Mark \/ Drive \/ Report

--------------------------------------------------------------------------------
(* The write threads.                                                       *)

trans_serial_write ==
  /\ qy_write # <<>>
  /\ lamp' = Set(lamp, Head(qy_write).lamp, Head(qy_write).level)
  /\ qy_write' = Tail(qy_write)
  /\ UNCHANGED <<reader, workers, mains, files, database, queue_read, clo_write, qy_read,
                 shown, frames, answered, events>>

general_serial_write ==
  /\ clo_write # <<>>
  /\ shown' = Set(shown, Head(clo_write).lamp, Head(clo_write).level)
  /\ answered' = answered + 1
  /\ clo_write' = Tail(clo_write)
  /\ UNCHANGED <<reader, workers, mains, files, database, queue_read, qy_read, qy_write,
                 lamp, frames, events>>

Next ==
  \/ get_valid_cbus_data
  \/ data_to_other_thread
  \/ data_to_clo_thread
  \/ get_handle
  \/ trans_serial_write
  \/ general_serial_write

(* Every thread of the gateway keeps running; nobody has to send anything.  *)
Fairness ==
  /\ WF_vars(data_to_other_thread)
  /\ WF_vars(get_handle)
  /\ WF_vars(trans_serial_write)
  /\ WF_vars(general_serial_write)

Spec == Init /\ [][Next]_vars /\ Fairness

--------------------------------------------------------------------------------
(* Properties.                                                              *)

Line == [lamp : Lamps, level : 1 .. 100]
Byte == 0 .. 255

(* Type invariant.  photometric.txt holds percentages and never more than   *)
(* one line for a lamp; the text is missing only while the worker rewrites  *)
(* it, and the worker exists only while its reader waits.                   *)
TypeOK ==
  /\ p_flag \in {0, 1}
  /\ buf_final \in [lamp : Lamps, value : Byte] \cup {NoEntry}
  /\ worker \in {"none", "translate", "rewrite", "update", "answer", "drive"}
  /\ (p_flag = 0) <=> (worker = "none")
  /\ dimmer_value \in 0 .. 100
  /\ main \in {"clowire", "qiyuan", "find", "fetch", "mark", "drive", "report"}
  /\ dim_value \in Byte
  /\ \A i \in DOMAIN photometric : photometric[i] \in Line
  /\ \A i, j \in DOMAIN photometric : photometric[i].lamp = photometric[j].lamp => i = j
  /\ truncated <=> worker = "rewrite"
  /\ dimmer_db \in [Lamps -> Byte] /\ lamp \in [Lamps -> Byte] /\ shown \in [Lamps -> Byte]
  /\ \A q \in {queue_read, clo_write, qy_read, qy_write} : Len(q) < QUEUE_MAX
  /\ db_by \in [Lamps -> {"nobody", "worker", "main"}] /\ strayed \subseteq Lamps

(* Nothing is under way.                                                    *)
Quiescent ==
  /\ p_flag = 0
  /\ main \in {"clowire", "qiyuan"}
  /\ \A q \in {queue_read, clo_write, qy_read, qy_write} : q = <<>>

(* dimmer.db holds the current value of every lamp (README.md, "SQLite      *)
(* Tables"): whenever the gateway is at rest, the lamp stands at the level  *)
(* the database has for it, whatever order the worker and the main loop     *)
(* wrote and queued in.  Only two lamps may not: one whose last command     *)
(* had a value byte that means nothing, and one whose row the other thread  *)
(* changed for a command it had queued before.                              *)
DbTracksDevice ==
  Quiescent => \A l \in Lamps \ strayed : lamp[l] = clo_qy_trans(dimmer_db[l])

(* What README.md says, without these.                                      *)
DbTracksAlways ==
  Quiescent => \A l \in Lamps : lamp[l] = clo_qy_trans(dimmer_db[l])

(* The feedback carries the lamp's present brightness (the comment in       *)
(* singlcontrl_feedback): at rest the Clowire gateway believes of every     *)
(* lamp what the database holds.                                            *)
GatewaySeesLamp ==
  Quiescent => \A l \in Lamps : shown[l] = dimmer_db[l]

(* A lamp switched on without a brightness gets 100 only if photometric.txt *)
(* has none for it (README.md, "Supported Clowire Commands"): the main      *)
(* loop's parse_dimmer_file never misses a line the file has.               *)
RestoresRecorded ==
  [][main = "find" /\ main' = "mark" => ~ HasLine(photometric, job.lamp)]_vars

(* The threads together do what the README promises of a lamp: each command *)
(* dims, switches off or restores in one step, between the translation of   *)
(* the command and the update of the database; the file's rewrite is not    *)
(* seen, nor is a value byte that means nothing.                            *)
Promise == INSTANCE Lighting WITH
  level    <- IF worker = "update" THEN Set(dimmer_db, buf_final.lamp, dimmer_value)
              ELSE dimmer_db,
  recorded <- [l \in Lamps |-> Recorded(photometric, l)]

ImplementsLighting == Promise!Spec

(* Every command and every sensor event is answered: the Clowire gateway    *)
(* gets a feedback frame for each.                                          *)
EveryCommandAnswered ==
  \A n \in 1 .. MaxFrames + MaxEvents :
    (frames + events >= n) ~> (answered >= n)

(* The gateway comes to rest again and again: the reader, the worker, the   *)
(* main loop and the write threads never leave one another waiting.         *)
ComesToRest == []<>Quiescent

================================================================================
