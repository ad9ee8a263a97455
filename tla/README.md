# A verification of the Clowire-Qiyuan gateway

The program under `src/` is a gateway between two serial buses. On the Clowire
side (`/dev/ttyS1`) a home gateway sends lamp, scene and sensor commands and
expects feedback; on the Qiyuan side (`/dev/ttyS10`) are dimmers and motion
sensors (PIR). The gateway translates frames, keeps brightness values and scenes
in text files and states in two SQLite databases, and lets sensors switch lamps
by itself.

This directory holds TLA+ models of it, the configurations that TLC checks, and
proofs that TLAPS checks. Everything is translated from the C source; line
numbers below refer to it. `PROJECT.json` maps each definition to its lines.

## 1. Inventory

| Part | Source | State | Operations | Models |
|---|---|---|---|---|
| Serial queues | `interface/Serial/queue.c` | ring of 300 rows, `r_pointer`, `w_pointer`, mutex | `cbus_enqueue`, `qy_enqueue`, `cbus_dequeue`, `qy_dequeue` | `SerialQueue`, `LapFifo`, `Fifo` |
| Translation | `core/data_handle.c` 13-61, `request_addr/addr_req.c` | `addr.txt` | brightness and address conversions, `match_addr` | `Translation`, `Installation` |
| Lamp commands | `core/transform.c`, `core/data_handle.c`, `addr_req.c` 88-205 | `photometric.txt`, `dimmer.db` | `single_control_trans`, `save_dimmer_value`, `parse_dimmer_file`, `singlcontrl_feedback` | `LightControl`, `Lighting` |
| Motion sensors | `core/data_handle.c` 125-142, 283-309, 707-910, `core/remote.c` | `remote.db`: state, value, target of each sensor | `pir_control`, `delay_config_inf`, `pir_handler`, `send_cmd` | `PirControl` |
| Clowire framing | `interface/Serial/calculate.c`, `serial.c` 413-486 | `buf_tmp`, `p_index`, `len`, `p_flag`, `buf_final` of the reader | `ES_opt_send`, `read_to_tmp`, `ES_opt_recv`, `get_valid_cbus_data` | `Escape`, `FrameSender`, `FrameReceiver` |
| Qiyuan framing | `calculate.c` 185-250, `serial.c` 620-659 | the same of that port's reader | `trans_serial_read`, `get_valid_trans_data`, `data_to_clo_thread` | `FrameReceiver` |
| Qiyuan port | `serial.c` 420-430, 488-633 | `write_flag`, the `select` timeout, one thread per delayed command | `trans_serial_write`, `delay_sec`, `wait_seconds`, `feed_back` | `QiyuanPort`, `DelayedLamps` |
| Scenes | `addr_req.c` 397-531, 615-678, `data_handle.c` 145-280, 500-673 | `scene.txt` | configure, delete, control, switch off, feedback | `SceneControl`, `SceneBook` |
| Text files | `addr_req.c` 88-163, 457-531 | `photometric.txt`, `scene.txt`, their temporary copies | append, copy, rewrite, under power loss | `ConfigFiles` |
| Start-up | `main/main_qc.c`, `addr_req.c` 17-51, 207-361, `remote.c` 15-132, 262-297 | `addr.txt`, the dial, rows of both databases | `request_address`, `save_to_addr`, `remove_all_files`, table initialisation | `Startup` |
| Enrollment | `serial.c` 311-355, `data_handle.c` 364-438, `addr_req.c` 562-613 | button, LED, the module announced | `monitor_button`, `send_innet_cmd` | `Enrollment` |
| Interface registry, watchdog | `interface/` | a list filled once; a device file | | not modelled |

How the parts interact:

    Clowire port -> serial_read_thread -> buf_final -> worker (data_to_other_thread)
                                                         |  saves, updates dimmer.db
                    main loop (get_handle) <- queue_read <-+-> queue_write (Qiyuan)
                         |                                          |
       Clowire port <- write thread <- queue_write (Clowire)        v
                                             write thread -> Qiyuan port -> lamps
    Qiyuan port -> serial_read_thread -> data_to_clo_thread -> queue_read -> main loop

A reader starts a worker thread for each frame and waits in a busy loop on
`p_flag` before it touches `buf_final` again. The worker and the main loop share
`photometric.txt`, `dimmer.db`, `remote.db` and the queues. Only the queues have
a lock.

What is hard about this code: the two-phase rewrite of a text file that another
thread reads in two passes; pairs of steps (database, then queue) done by two
threads; reads that end anywhere in a frame; a ring whose room is looked at once
for several rows; database rows that are read, decided on and written in separate
statements; clocks that run out after newer commands; a text file rewritten in
four file operations with a power loss between any two; start-up threads that
write what others already read; and waits that end only if every other thread goes
on. The list of
hazards in `PROJECT.json` has each at its line.

What makes each part correct:

* queues: what goes in comes out once, in order, whatever threads call; a row is
  only written to a free slot;
* translation: a brightness survives the way there and back, order is kept, no
  two lamps or sensors share an address, and foreign frames are not taken;
* lamps: each command has the effect the README of the program promises; at rest
  lamp, database and the Clowire gateway's view agree; every command is answered;
* sensors: a target follows its sensor, masked or not; a group is not switched
  off while one of it sees motion; the stored values are current;
* framing: the receiver passes on what was sent, whole, once and in order;
* scenes: what is acknowledged is stored, a scene is applied as it stood at one
  moment, and the Clowire side is told of every lamp it has set;
* delays: rows leave in order, none early, none lost, and what was switched on for
  a while ends off and is reported;
* text files: after any stops a value is the newest or missing, never an old one;
* start-up: nothing is removed while the dial stays, no database row is doubled;
* enrollment: the LED goes out only when all modules have joined, and one press is
  enough when nothing is refused or lost.

## 2. Modules

**`SerialQueue`** is `queue.c` at the grain of single row copies and pointer
moves. A call is: take the mutex (`cbus_enqueue`, `qy_enqueue`, `Dequeue`), look
at the pointers (`Refuse`, `Accept`, `NothingThere`), then `CopyRow` and `Advance`
for each row, or `TakeRow`. **`Fifo`** is the bounded FIFO its callers expect;
**`LapFifo`** is what it really is: a put into a full ring makes it empty.
`ImplementsLapFifo` and `ImplementsFifo` are the refinements, with the waiting
rows read off the two pointers.

**`Translation`** holds the pure functions. `clo_qy_trans` multiplies by 2.55 in
floating point and rounds twice; it is written with integers, and the four bytes
for which the double product falls just short of a half are named (`FloatShort`).
Bytes wrap (`UCHAR`). **`Installation`** is a gateway with an address file and
one frame on the bus, and states what the translations must keep.

**`LightControl`** follows a lamp command: `get_valid_cbus_data` starts the
worker; `Off`, `Restore`, `SaveNew`, `SaveTruncate`/`SaveRewrite`, `UpdateDb`,
`QueueFrame`, `QueueCommand` are its steps in the order of the code; `TakeFrame`,
`TakeEvent`, `Find`, `Fetch`, `Mark`, `Drive`, `Report` are the main loop's, with
`parse_dimmer_file` as two separate reads of the file. A frame is a lamp and a
value byte, a line of the file a lamp and a percentage. Queue calls are atomic
here, as `SerialQueue` shows they are for one row. A value byte that means nothing
(`Others`: beyond 100, neither 0x90 nor 0x9A) goes through `Unknown`: the lamp is sent
0, file and database stay (`data_handle.c:91-118`). Two history variables say what the
two writers of `dimmer.db` do to each other: `db_by` has the thread that wrote a lamp's
row last, and `strayed` the lamps whose last command is not what their row has, because
the other thread's update came between, or because the value byte meant nothing.
**`Lighting`** is the promise of the program's README ("Supported Clowire Commands") in
three actions.

**`PirControl`** has a step for each SQL statement that worker and main loop send
to `remote.db`, and the two loops of `get_handle` around `pir_handler`. A target is a
lamp or a scene as a whole. The start of motion puts a scene into the Clowire queue
(`clo_read`), from which it is recalled when the waiting reports have been handled; its
end switches the scene off at once. The history variable `overtaken` has the scenes
that were last switched off while their recall still waited.

**`Escape`** has the byte-level functions of `calculate.c`, **`FrameSender`** and
**`FrameReceiver`** their use. The receiver is the reader of either port (`port`),
which differ in the head, the length and the check of a frame and in the escapes;
it reads any number of bytes at a time, and what precedes the frames on the line is
`Noise` or `Strays`. C arrays are sequences: position `i` is index `i - 1`. The loop of
`ES_opt_send` is a recursive function over the bytes, `ES_opt_recv` and `XOR_check` are
written without one. The `memcpy` of `ES_opt_send` works on overlapping areas: `Copies`
says in which places its blocks (bytes, words, anything) start in each round, the
history variable `copied` which way it was, and `Intact` which bytes survive it. At the
end of `FrameReceiver` stands `Readable`, which says what the
bytes must be like for a reader to find the frames among them.

The specifications of `FrameSender` and `Installation` are `SenderSpec` and
`InstallationSpec`: `BusProofs` extends both and `FrameReceiver`.

**`SceneControl`** has the worker (`get_valid_cbus_data`, `RecordBrightness`,
`save_scene_para`, `CopyRows`, `RewriteRows`, `QueueFrame`, `Reply`), the main loop
(`TakeFrame`, `match_dimmer_scene`, then a step for each row: `ApplyLamp`,
`ApplySensor` or, for the switch-off, `OffRow`; `SendRows`; the second reading
`MatchAgain`; `scene_control_feedback`), the write threads and the port's sleeping
threads (`trans_serial_write` sends a row or starts one, `asleep`; `delay_sec` ends by
queueing it, `wait_seconds` by sending 0 and a report through `feed_back`). A sleep
takes any time here; how long it is, is the matter of `QiyuanPort`. A row of
`scene.txt` is a device, a scene, a value and a delay; which rows a deletion takes is
decided on the digits, as `strstr` does (`Hits`). Three history variables name the
lamps for which the code does not keep its promise: `unsettled` (whose last command
need not be their row's: an older one is delayed, the lamp is on for a while only, or
a sensor's row of a switched-off scene has hit its circuit), `untold` (set by a scene
and not reported) and `ended` (last reported off, at the end of a delay).
**`SceneBook`** is what the README of the program
promises: a book of entries that are stored, replaced, removed and applied as a
whole. `ImplementsSceneBook` maps a main loop in the middle of a scene to the scene
already applied (`Final`).

**`ConfigFiles`** is the two text files at the grain of their file operations:
`AppendLine`, or `WriteCopy`, `ReadBack` (the truncation), `RemoveCopy`, `Flush`;
`DropCopy` for a deletion that found nothing. `Crash` may come between any two; what
it leaves in the files and their copies is what the next call finds. A line is a
key and a value; `Gap` is the line that a deletion's broken `memset` may leave.

**`QiyuanPort`** is the port's reader, its writer and the threads of delayed rows,
with the bus: `Arrive`, `Pass` (time), `TimeOut`, `trans_serial_read`, `Collect`;
`qy_dequeue`, `AwaitFlag`, then `SendNow`, `SendLater` or `SendForAWhile`;
`delay_sec`, `wait_seconds`, `feed_back`. `timeout` is the `timeval` that `select`
counts down and the loop reuses. The comparisons written for assignments
(`serial.c:510`, `512`, `519`) are in `BackValue`. **`DelayedLamps`** is a line of
commands and a set of clocks.

**`Startup`** has `main` starting the threads `read_addr` (dial, `match_addr_flag`,
`save_to_addr` from truncation to flush, the four removals) and
`remote_init_thread` (waiting for `addr.txt`, then the two tables, row by row), with
`Stop` anywhere and `Turn` of the dial. A database file that is removed while it is
open is a handle on a removed file. **`Enrollment`** extends it by the button thread
(`Press`, `cbus_enqueue`, `Light`), `send_innet_cmd` (`TakeAnswer`, `SendNext`) and a
network that accepts, declines, loses, and answers modules of others. Which line of
`addr.txt` an answer belongs to is decided on digits (`match_innet_dev`).

**`Filtering`** is the loop that goes through rows and copies some of them, which
`SceneControl` (`RowsOf`, `CopyRows`, the reports) and `QiyuanPort` (`Commands`) use.
Like `ModulesOf` it is a recursive function, so that it can be proved about.

`MC*` modules instantiate these for TLC; `...Proofs` modules hold the theorems.

How they compose: `Installation` extends `Translation`, `SceneControl` uses its
conversions as `LightControl` does, `Enrollment` extends `Startup`, and both framing
modules extend `Escape`. `SerialQueue` justifies the atomic queue calls of the
others, `FrameReceiver` the atomic frames, `QiyuanPort` the write threads that
`LightControl` and `SceneControl` assume to be fair, and `ConfigFiles` says what is
left of the files that these two only see while the gateway runs.

Operators named `Broken...` are plausible mistakes in the operator that follows
them; they are used only to make sure that the properties can fail.

## 3. Runs

| Run | Configuration | Shows |
|---|---|---|
| `queue` | 2 producers, 1 consumer, ring of 4, up to 3 rows a call | `TypeOK`, `LockInv`, `ImplementsLapFifo` |
| `translation` | all levels 0..100; dials 2, 16, 100, 240; 0, 2, 8 dimmer and 0..2 sensor modules; 17 addresses | `LevelRoundTrip`, `LevelOrder`, `LampRoundTrip`, `SensorRows`, `KindsApart` |
| `lamp_commands` | 2 lamps, 3 commands, levels 30 and 80, the meaningless byte 200 | `TypeOK`, `ImplementsLighting` |
| `lamp_sensor` | 1 lamp, 2 commands, 1 sensor event, level 80, the meaningless byte 200 | `DbTracksDevice`, `EveryCommandAnswered`, `ComesToRest` |
| `escape_send` | payloads of up to 3 bytes from {0, 1, 2, 14, FA, FE}; copies whole, in words of four at each offset, byte by byte | `LineIsEscaped`, `LineReadsBack` |
| `frames` | 2 Clowire frames after up to 25 stray bytes, or 2 Qiyuan frames; reads of 1..12 bytes, buffer of 32 | `TypeOK`, `Genuine`, `IndexInBuffer`, `AllDelivered` |
| `pir_rules` | 4 sensors, 3 targets of which 1 a scene, 2 commands, 4 reports | `TypeOK`, `LightFollowsSensor`, `ValuesCurrent`, `AcceptedMotionLights` |
| `pir_group` | 2 sensors of 1 target, 4 reports | `GroupCoordinated` fails: section 4 |
| `scenes` | lamps of modules 2 and 12, 2 sensors of module 14, 2 scenes; delays 0, 1 and 129; 3 inputs of which at most 1 deletion and 1 sensor event | `TypeOK`, `AcknowledgedIsStored`, `DbTracksDevice`, `GatewaySeesScene`, `SceneMasks`, `ImplementsSceneBook` |
| `config_files` | 2 lamps, 2 scene entries, 2 values; 6 calls, 2 stops | `TypeOK`, `NeverStale`, `BrightnessKept` |
| `port` | 1 lamp, values 0 and 1, delays 0, 1 and 129; 2 sleeping threads; 2 rows, 2 arrivals, a silence of 2 | `TypeOK`, `ImplementsDelayedLamps`, `EveryRowHandled`, `SwitchOffReported` |
| `startup` | dial at 15 or 16, 1 dimmer and 1 sensor module with 2 rows each, 1 stop, 1 press, 1 foreign answer | `RowsInOrder`, `KeptUnlessDialChanged`, `LedOffMeansEnrolled`, `EnrollmentCompletes` |

Inputs are bounded by constants of each module: `MaxFrames`, `MaxEvents`, `MaxRead`,
`PayloadMax`, `MaxCommands`, `MaxReports`, `MaxInputs`, `MaxDeletes`, `MaxOps`,
`MaxCrashes`, `MaxRows`, `MaxBytes`, `MaxStops`, `MaxPresses`, `MaxForeign`.

Why the bounds are enough to be interesting:

* A ring of four rows is filled, wrapped and lapped by calls of three rows; two
  producers contend for the mutex.
* Three commands for two lamps include a first brightness, its change and a
  restore while the other lamp's line is rewritten. Levels 30 and 80 have the
  same number of digits: lines do not move. The case that they do is in `Moved`
  and concerns only the feedback.
* A frame has 9 bytes and reads take up to 12, so a read ends in every place of a
  frame and can hold the end of one and the beginning of another. The noise of 14
  and 25 bytes fills the buffer before and in the middle of a frame. The real
  buffer has `BUF_MAX` = 512 bytes; only its being full matters.
* Four sensors are the least with a lamp and a scene that one has alone and two in a
  group; two reports are a start and an end of motion that wait together.
* In `lamp_sensor` a command and a sensor event for the same lamp are the two writers
  of its row in `dimmer.db`, in every order of their updates and their enqueues.
* In `scenes` one scene has two lamps, one of them delayed; the other, which sensors
  switch, has both kinds of sensor rows and a lamp that is on for a while. The row of
  the sensor P14 is taken for the lamp of module 12 when the scene is switched off, and
  module 2 is a part of module 12. Three inputs are a change, a trigger and a deletion
  in the middle of it, or two scenes whose commands pass each other.
* In `config_files` the second stop can hit the call that finds what the first has
  left, and two calls are left to see it.
* In `port` the delays 0, 1 and 129 are the three kinds, with the least time; two
  rows are one that is delayed and one that overtakes it.
* In `startup` dials 15 and 16 make the second module's old address the first's new
  one. One stop is one restart with whatever files the first start left.

Deadlock is checked in every run but `config_files`, `port` and `startup`, whose
inputs are used up at the end. `FrameReceiver` has a step `Done`
in which all threads wait for input, so a deadlock is a state in which a thread
waits for something that cannot come; for `port` and `startup` the liveness
properties say the same.

Further configurations are here for the reader; TLC refutes the property each of
them names, except in the one marked. Where no configuration is named, the constants
are those of the run given, with the property in place of its own.

| Configuration | Module | Property | Observation |
|---|---|---|---|
| `queue_single` (holds) | `MCSerialQueue` | `RoomForEveryRow`, `ImplementsFifo` and others | with one row per call the ring is a FIFO |
| as `queue` | `MCSerialQueue` | `RoomForEveryRow` | a call with several rows looks at the room once and overwrites rows that wait; the full ring then reads as empty (`queue.c:85`) |
| `address_filter` | `MCInstallation` | `OnlyOwnAddresses` | a frame for device 1 passes as one for our dimmer 16 (`addr_req.c:387`, `strstr` on decimal text) |
| `feedback_race` | `MCLightControl` | `GatewaySeesLamp` | the main loop reads `photometric.txt` during a rewrite for the other lamp and reports a brightness the lamp does not have (`addr_req.c:146`) |
| as `lamp_commands`, with a level 0 | `MCLightControl` | `GatewaySeesLamp` | brightness 0 is not saved, so its feedback reports the old one (`data_handle.c:96`, `466`) |
| `sensor_database` | `MCLightControl` | `DbTracksAlways` | a command and a sensor event update `dimmer.db` in one order and queue their commands in the other (`data_handle.c:684`) |
| as `sensor_database` | `MCLightControl` | `RestoresRecorded` | a sensor's "on" during a rewrite restores 100 in place of the recorded value (`addr_req.c:146`, `190`) |
| `frames_unescaped_twice` | `MCFrameReceiver` | `AllDelivered` | each read unescapes the whole buffer again: FE that was FE 02 and is followed by 01 becomes FA, and its frame is lost (`calculate.c:78`) |
| `frames_qiyuan_stray` | `MCFrameReceiver` | `Genuine` | two stray bytes stay counted in `len` for ever; a sensor's report that comes in two reads is then cut before its value has come, and "motion" is passed on as "no motion" (`calculate.c:204`) |
| as `escape_send` | `MCFrameSender` | `LineIsEscaped` without `Intact` | `memcpy` on overlapping areas (`calculate.c:112`): undefined, and a forward copy in blocks changes the bytes behind an escape |
| as `pir_rules` | `MCPirControl` | `LightFollowsSensor` without `overtaken` | the end of motion at a scene overtakes its start, and the scene stays on with the value 0 saved (`data_handle.c:732`) |
| as `scenes` | `MCSceneControl` | `SceneUnmasks` | `pir_state == 0x01` compares where it should assign: a scene that enables a sensor gives it a stray state (`data_handle.c:229`) |
| as `scenes` | `MCSceneControl` | `SceneFound` | a scene triggered while a deletion rewrites `scene.txt` has no effect (`addr_req.c:510`) |
| as `scenes` | `MCSceneControl` | `GatewaySeesSceneAlways` | a deletion between applying a scene and its feedback leaves the gateway uninformed (`data_handle.c:511`) |
| as `scenes` | `MCSceneControl` | `DbTracksAlways` | a delayed command of a scene comes after a newer one; the end of a reverse delay switches the lamp off and reports it, and `dimmer.db` keeps the value (`serial.c:514`, `546`) |
| as `scenes`, `Stored` = `AtOnce` | `MCSceneControl` | `DbTracksAlways` | also without delays: the switch-off of a scene sends sensor rows as if they were lamps, and a lamp that shares the circuit number goes off (`data_handle.c:648-661`) |
| `scene_prefix` | `MCSceneControl` | `ImplementsSceneBook` | deleting device 1 of scene 1 also deletes device 11 of scene 12 (`addr_req.c:493-497`) |
| `files_persist` | `MCConfigFiles` | `BrightnessPersists` | a stop after `fopen("w")` loses the brightness values until the next change reads the copy (`addr_req.c:146`) |
| as `files_persist` | `MCConfigFiles` | `DeletedStaysDeleted` | a leftover copy brings a deleted scene entry back (`addr_req.c:488`) |
| as `files_persist` | `MCConfigFiles` | `ScenesKept` | a deletion that finds nothing removes the copy that held the scenes (`addr_req.c:529`) |
| as `port` | `MCQiyuanPort` | `QuietBeforeSend` | after the first timeout `select` returns at once and the port sends into a frame under way (`serial.c:579`, `630`) |
| as `startup` | `MCEnrollment` | `TablesComplete` | the tables thread reads the old `addr.txt` after the dial was turned: no rows for the new modules (`remote.c:286`); the same follows from `remote.c:117` |
| `startup_torn` | `MCEnrollment` | `KeptThroughStops` | a stop while `addr.txt` is empty makes the next start remove everything (`addr_req.c:252`) |
| as `startup` | `MCEnrollment` | `LedNeverMisleads` | a press before the dial is read announces an old address; the LED goes out all the same (`serial.c:338`) |
| as `startup`, `Foreign` = `OneDigit` | `MCEnrollment` | `LedOffMeansEnrolled` | with a foreign module 1, its answer is taken for ours by `strstr` (`addr_req.c:601`) |
| as `startup`, `PIR_NUM` = 0 | `MCEnrollment` | `LedGoesOut` | with one module the answer can be handled before the LED is lit, which then stays on (`serial.c:343`) |

## 4. Finding

*A group is switched off while a sensor sees motion* (`addr_req.c:739`, run
`pir_group`): the group's values are looked at in the place after the last of them.
The comment at `data_handle.c:895` and the program's README (line 22) say otherwise;
its line 326 says that the group logic should be reviewed. `PROJECT.json` has the
quotations.

The table above has the other disagreements between what the code does and what
its comments or its README say. They stay out of the checked runs and are kept as
configurations that anyone can repeat.

## 5. Fairness

* `LightControl`: the worker, the main loop and both write threads loop or run to
  their end without waiting for input once they have work, so each has weak
  fairness. The port reader and the sensors have none: nobody has to send.
  For the write threads this includes that `write_flag` is set again and again,
  which `EveryRowHandled` of `QiyuanPort` shows.
* `FrameReceiver`: the reader and the worker; the line delivers what was sent.
  All the liveness here is about what happens to bytes that are on the line.
* `PirControl`: the main loop, and the second statement of a toggle.
* `QiyuanPort`: time passes, bytes that are on the bus are read, the reader, the
  worker, the writer and each sleeping thread go on. Arrivals are bounded, so the
  bus does fall silent: nobody is obliged to send, or to stop.
* `Enrollment`: the button thread, the main loop, and the network, which answers
  or loses what it gets. Neither the start-up threads nor the user have fairness:
  `EnrollmentCompletes` starts from an announcement.

The other specifications have no fairness, and no liveness is claimed of them.

## 6. Proofs

`SerialQueueProofs` (for every ring size of at least 2, every disjoint sets of
producers and consumers, every set of rows and every `MaxLines`):

* `Inductive`: `IInv` is an invariant. It is `TypeOK`, `LockInv`, `CallInv` (a
  call never holds more than `MaxLines` rows, and a call that has copied a row
  still holds it) and `RowInv` (between the copy of a row and the step of the
  write index, the slot under the index holds that row). Without `CallInv` and
  `RowInv` the step `Advance` could publish a row other than the caller's.
* `TypeCorrect`, `MutexWorks` follow from it.
* `LapRefinement`: each step of the ring is a step of `LapFifo` or none. `Advance`
  is the put, or the lap when it fills the last slot; `TakeRow` is the take. The
  proof needs how the waiting rows change when a pointer moves by one modulo
  `QUEUE_MAX`, which is stated in lemmas of its own.
* `RoomForSingleRows`, `FifoRefinement`: with the assumption `MaxLines = 1`, no
  call ever fills more than it saw room for, and the ring is a `Fifo`.

`BusProofs`, on `Installation` (for every dial value up to 240, at most 63 dimmer and
31 sensor modules whose addresses fit in a byte):

* `LevelsSurvive`, `LevelsOrdered` from a closed form of `clo_qy_trans`;
* `LampsRoundTrip`, `SensorsHaveRows` by writing an address as module and place;
* `FilterTellsKindsApart`: a number that starts with the digits of another is the
  same or at least ten times as large, which nine modules in a row do not span.

`BusProofs`, on `FrameSender` (for any payload bytes, and whatever blocks `memcpy`
copies in):

* `LineEscaped`: a line has one head, and FE only in pairs, however `memcpy` copies:
  after each round of the loop (`SendPasses`) what it has passed is escaped, with as
  many bytes still to come as the frame has left. As far as bytes are `Intact`, because
  no FA or FE had to be moved before them or all are brought whole, what it has passed
  is the frame escaped. The invariant is `SentAs`: the line was made from the frame by
  the way of `copied`.
* `LineIsReadBack`: a line *carries* bytes `X` if each of its bytes stands for itself,
  begins a pair or ends one, with a count `c` of how many bytes of `X` are through
  (`Holds`). What is written carries the frame, and what `ES_opt_recv` makes of a buffer
  that carries bytes is those bytes, as long as its scan reaches every pair
  (`AllReached`). For a frame that is not intact the number of bytes still comes back.
  That needs payloads without twenty zeros in a row: `PayloadMax <= 19`.
  The program's longest frame has 16 bytes (`data_handle.c:528`), 9 of them payload.

`BusProofs`, on `FrameReceiver` (for any frames and bytes before them, any buffer, any
size of reads, and threads whose creation may fail):

* `ReceiverTypeCorrect`: with no condition on the bytes. `ReceiverTypes` is `TypeOK` with
  the arrays as sequences of bytes; `len` stays a count because a frame is cut only when
  as many bytes have been counted.
* `DeliveredGenuine` and `IndexStaysInBuffer`, if the bytes are `Readable`. Their
  invariant `ReaderInv` relates the reader's state to the stream of bytes that was sent.
  On the Clowire port (`ClowireInv`), `b + s` bytes of the stream have been taken; the
  last `s` of them are in the buffer, perhaps with the first half of an escape behind
  them, zeros follow, and the line carries the rest (`Holding`). What is in the buffer
  is unescaped again with each read; `ReadUnescape` says that this leaves it as it was
  and undoes what came, also when a pair is split between two reads. A buffer thrown
  away between the halves of a pair leaves a 1 or 2 in the place of the byte. The frames
  passed on, with the one the worker has, are among those that begin in the first `b`
  bytes, in their order (`Handed`). `len` does not occur: a count that is too high only
  makes the reader try sooner, and what is not all there does not pass for a frame.
  On the Qiyuan port (`QiyuanInv`) `len` is all there is to go by: it equals `p_index`,
  and the buffer begins with a frame that is not all there when the next read comes.

`Readable` is a condition on the constants, which TLC evaluates for those of `frames`
(`MCFrameReceiver`). It is needed, and says where the protocol itself is weak:

* `CheckTells`: no part of the Clowire stream, nor the end of what has been read with the
  zeros behind it, passes for a frame by head, length and XOR unless it is one that is
  all there. A check byte of 0 is not told from a byte that has not come (section 7).
* `Escapable`: FE is not followed by 01 or 02 within the frames themselves
  (`frames_unescaped_twice`; `UnescapedUnreadable` has TLC confirm that this condition is
  what its frames lack), and twenty zeros in a row do not occur.
* `Report`, and `Strays` empty: a Qiyuan frame has its head nowhere else in it and a
  circuit number, and nothing but frames is on that line (`frames_qiyuan_stray`). A read
  never fills that port's buffer: of its 512 bytes a read takes at most 484 beside a
  frame of up to 28. A buffer thrown away would leave its bytes counted in `len`, with
  the same effect as stray bytes. The Clowire port has no such bound.

`ConfigFilesProofs` (for any lamps, scene entries, values and numbers of calls and
stops):

* `Inductive`: `IInv` is `TypeOK`, `OpInv` (the call under way and its key),
  `RewriteInv` (what copy and buffer hold at each place of a rewrite), `CurrentInv`
  (after the current call's line nothing older of its key follows), `AskedInv` (which
  values calls cut short may have left) and `KeptInv` (where the brightness values
  are). `NeverStale` is not inductive alone: a stop leaves a copy whose lines come
  first in the next rewrite, so that one must know of every copy that what follows in
  it is at least as new.
* `NeverStaleHolds`, `BrightnessKeptHolds` and `TypeCorrect` follow from it.

`StartupProofs` (for every set of dial positions, at most sixteen modules, any
numbers of rows and stops; of `StartupSpec`, whose variables nothing else in
`Enrollment` changes):

* `Inductive`: `IInv` is the types, `OffInv` (what a stopped gateway looks like),
  `AddrInv` and `FlagInv` (what `addr.txt` holds at each place of `read_addr`, and
  that the removals are reached only with a turned dial or an `addr.txt` torn by a
  stop), `RemoteInv` and
  `DimmerInv` (which rows the loops of the two tables have seen or filled in).
* `RowsStayInOrder`: the rows of a module are there in order and once, because a
  table whose first row of a module is there is never filled again, and a stop in the
  middle of a module leaves a prefix.
* `FilesKept`: nothing is removed while the dial is where it was, unless `addr.txt`
  was torn by a stop.

`LightControlProofs` (for any lamps, levels, numbers of frames and sizes of the
queues):

* `Inductive`, `TypeCorrect`: `IInv` is `TypeOK` and `ShapeInv`, what each step of the
  worker and of the main loop hands to the next (the rewrite is of a file that has
  the lamp's line; the second pass is for a line the first one saw). These hold with
  sensor events too.
* `LightingRefinement`, without sensor events, which the promise does not speak of:
  each step of the threads is a step of `Lighting` or none. The step that sets the
  worker's local variable is the one that takes effect; `Appended` and `Rewritten` say
  that the file then records the new value for that lamp and nothing else for the others.
* `DbTracksLamps`, with sensor events, if a queue has more places than there are
  frames and events (`MaxFrames + MaxEvents < QUEUE_MAX`; with a queue that can be full
  it would be false, `queue.c:69`): `RoomInv` counts what each frame and event has
  brought, and `SentInv` says of every lamp that what is on its way to it ends at the
  level of its row (`Settles`), or the thread that wrote the row is still between
  database and queue (`WorkerOwes`, `MainOwes`), or the lamp is in `strayed`. Without
  the last it is false (`sensor_database`).

`PirControlProofs` (for any finite set of sensors, any targets, commands and numbers
of commands and reports):

* `Inductive`: `IInv` is `TypeOK`, `ShapeInv`, `ValuesInv` (the last report of a
  sensor that is on its way says what the sensor sees; if there is none, the stored
  value does) and `LightInv` (the handler knows the target of a sensor that has it
  alone only for that sensor's reports, finds no group, and the light is ahead of the
  stored value only between `send_cmd` and `save_pir_value`). A scene counts as lit
  while its recall waits in `clo_read`; one in `overtaken` is lit whatever is stored.
* `TypeCorrect`, `LightFollows`, `ValuesStayCurrent` follow from it.

`SceneControlProofs` (for any dimmer and sensor modules whose addresses fit in a byte,
any scenes, stored rows, requests and sensor events, and any numbers of them; a scene
has at most twenty rows, `HasRoom`):

* First what the loops compute, for sequences of any length: what `Filter` keeps, the
  last row of an entry after an append, a copy or a deletion, and the list of
  `ModulesOf`. These are inductions over the length, by well-foundedness of `<`.
* `Inductive`: `IInv` is `TypeOK`; `QueueInv` and `WorkerInv` (what is in the queues,
  and what the worker hands from step to step: before the rewrite `kept` is the file
  without the entry); `MainInv` (the rows in hand are of the scene in hand);
  `StoredInv` (from the write to the acknowledgement, the entry is as asked for);
  `MaskInv` (the rows handled so far have masked their sensors). Without `kept` in
  `WorkerInv` nothing would say what a rewrite leaves.
* `TypeCorrect`, `AcknowledgedStored`, `ScenesMask` follow from it.
* `DbTracksLamps`, with any delays, and any rows in the scene that sensors switch:
  `DbInv` says of every lamp not in `unsettled` that the commands of the rows already
  handled (`Handled`), those in the queue and those asleep agree with the database
  (`Agrees`): none is to be delayed for another value (`Prompt`), and either one that
  carries the value of the row sleeps (`Waits`) or the commands end at it (`Settles`).
  Without the exceptions it is false (`DbTracksAlways` in section 3).
* `GatewayHears`, with any deletions: `HeardInv` says of every lamp not in `untold`
  that it is one of those the main loop has yet to report (`Concerned`), or that the
  reports on their way and what is believed already tell (`Tells`) the value of its
  row, or 0 for a lamp in `ended`.
* `GatewayHearsFew`: with at most nine modules in all, and while nothing has been
  deleted, `untold` is empty, so that `GatewaySeesSceneAlways` holds. The rows in hand
  then stay in the file, and the second reading finds every lamp that the first one
  set; and no module's number is part of another's (`NumbersApart`), for which the
  `strstr` of `caculate_scene_module` leaves a module 1 out after a module 11.
* `SceneBookRefinement`, if a deletion finds only its own rows (`EntriesApart`): each
  step is a step of `SceneBook` or none. The step that takes effect is the append, the
  truncation and copy together, or the reading of the rows; what the loop over the
  rows still has to do is in `Final`. `scene_prefix` shows what happens without the
  condition.

`QiyuanPortProofs` (for any lamps and values, delays of a byte, any number of rows,
lengths of silence and threads, of which there is one for each row):

* `FilterAppend`, `FilterTail`: what filtering the blank rows out of the queue gives
  when a row is put in or taken out. Both are inductions over the queue.
* `Inductive`, `TypeCorrect`: `IInv` is `TypeOK` and `RowsHeld` (a thread that delays
  has a row). `TypeOK` alone allows a sleeping thread without one, which could put
  no row into the queue.
* `DelayedLampsRefinement`: a row that the writer holds is the first of the line of
  `DelayedLamps`, so that `qy_dequeue` is not seen (or drops a blank), and `SendNow`,
  `SendLater` and `SendForAWhile` take effect; reader and bus are not seen at all.

`StartupProofs`, on `Enrollment` (for any number of presses, of answers of whatever
kind, and of modules that are not ours):

* `StartupRefinement`: `Spec => StartupSpec`, so that what is proved of the start-up
  holds of it.
* `LedTellsTruth`: when the LED goes out, all modules have been accepted. Its
  invariant (`EnrollmentInductive`) is `DialInv` (what `addr.txt` holds once
  `read_addr` has settled) and `TurnInv`: whoever is about to announce a module (the
  button, a row of the queue, the main loop in its sleep), all before it have been
  accepted, and a positive answer in the queue is of an accepted module or a foreign
  one. The condition `ForeignApart`, that no foreign module's number begins one of
  ours, is needed: see `startup` with `Foreign` = `OneDigit` in section 3.

Only model-checked: all liveness (`EveryCommandAnswered`, `ComesToRest`,
`AllDelivered`, `AcceptedMotionLights`, `EveryRowHandled`, `SwitchOffReported`,
`EnrollmentCompletes`), which needs fairness and `ENABLED`. Of the framing that is: what
is passed on is proved to be genuine, that all of it is passed on is checked. Every
invariant and refinement of the passing runs is a theorem.

## 7. Assumptions about undefined behaviour and the platform

* `parse_dimmer_file` closes its file, opens it again without taking the result
  and reads through the closed pointer (`addr_req.c:194-197`). The C library hands
  out the same structure, so it is taken as the reopened file.
* It reads a word into one byte (`addr_req.c:197`); the digits that follow in
  memory are taken to be there for `atoi`. When nothing is read the byte is
  uninitialised: `Garbage`.
* The receiver looks past the end of `buf_tmp`: such bytes read as 0. (A Clowire
  frame whose check byte is 0 can be cut before that byte has come; the index then
  goes below 0, and what is written before the buffer is taken as lost.)
* `p_flag` and `write_flag` are plain variables that one thread waits for and another
  sets. The Makefile builds without optimisation, so each look is a read.
* A thread's creation succeeds in the runs. If it fails after a frame was cut,
  `p_flag` stays 1 and the port is deaf (`Created` may be {TRUE, FALSE}).
* `memcpy` on overlapping areas brings the bytes as they were, or copies forward in
  blocks of whatever sizes, so that a block may read what an earlier one has written.
  This is so for `ES_opt_send`, which moves bytes up; `ES_opt_recv` moves them down,
  where a forward copy in blocks is right.
* A text file's content becomes visible when `fclose` flushes it (files are
  shorter than a stdio buffer). An SQL statement is atomic.
* A stop keeps what was flushed; SQLite's journal makes a statement happen or not.
  What was on the buses is gone after it.
* `scene.txt` exists when a scene is triggered (`match_dimmer_scene` opens it for "r"
  and does not look at the result). `addr.txt` exists when the first Clowire frame
  is handled, for the same reason (`addr_req.c:382`).
* A database file removed under an open connection takes further statements and
  leaves no trace of them.
* There is at least one dimmer module and there are at most sixteen modules. (With
  none, `match_addr_flag` never finds its line and every start removes everything.)
* In `LightControl` a sensor event comes from an enabled sensor that shares its
  target, a lamp, with no other.

## 8. Not modelled

Logging; opening and setting up ports (`termios`); the watchdog, whose resets are
stops; the interface list; failures of SQLite and of file operations, which the code
prints and ignores; the reply of `delay_config_feedback`, which says "done" whatever
was done; `remote_enqueue`, `remote_dequeue`, `qiyuan_to_clowire` and
`dimmer_feedback`, which nothing calls; arrays that overflow (a scene is
taken to have at most 20 rows, `addr_req.c:401`, though nothing in the code sees to
it), statements and files that are opened and never closed
(`remote.c:153`, `addr_req.c:659`): the program's end of memory or of file handles is
out of these models.

## 9. Plan

Done: everything in section 2, with the proofs of section 6. What is left, in order:

1. A bounded ring in `LightControl` and `SceneControl`, to see what a refused
   enqueue (`queue.c:69`) leaves behind.
2. `SceneControl` with a group of sensors as in `PirControl`.
