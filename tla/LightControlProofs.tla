--------------------------- MODULE LightControlProofs --------------------------
(****************************************************************************)
(* Proofs about LightControl, for any lamps, brightness values, sensor      *)
(* events, queue size and numbers of frames and events.                     *)
(*                                                                          *)
(* That the threads implement Lighting holds without sensor events; that    *)
(* dimmer.db tracks the lamps needs a queue that no burst of commands can   *)
(* fill, since a refused command is lost without a word.                    *)
(****************************************************************************)
EXTENDS LightControl, TLAPS

USE DEF database

(* Frames, rows for the port, sensor events and the main loop's tasks.      *)
Frame  == [lamp : Lamps, value : Levels \cup Others \cup {SWITCH_OFF, RESTORE}]
Row    == [lamp : Lamps, level : Byte]
Sensed == [lamp : Lamps, event : Events]
Job    == [lamp : Lamps, task : {"feedback", "restore", "switch off"},
           from : {"clowire", "qiyuan"}]

(* What the steps of the worker and of the main loop hand to the next one.  *)
ShapeInv ==
  /\ worker # "none" => buf_final \in Frame
  /\ worker = "rewrite" =>
       buf_final.value \in 1 .. 100 /\ HasLine(photometric, buf_final.lamp)
  /\ photometric \in Seq(Line)
  /\ main \notin {"clowire", "qiyuan"} => job \in Job
  /\ main = "fetch" => HasLine(photometric, job.lamp)
  /\ queue_read \in Seq(Frame) /\ qy_read \in Seq(Sensed)
  /\ clo_write \in Seq(Row) /\ qy_write \in Seq(Row)

(* The inductive invariant.                                                 *)
IInv == TypeOK /\ ShapeInv

--------------------------------------------------------------------------------
(* Queues and lines of photometric.txt.                                     *)

(* A queue keeps its type and its bound.                                    *)
LEMMA EnqueueType ==
  ASSUME NEW R, NEW q \in Seq(R), NEW row \in R, Len(q) < QUEUE_MAX
  PROVE  Enqueue(q, row) \in Seq(R) /\ Len(Enqueue(q, row)) < QUEUE_MAX
<1>1. QUEUE_MAX \in Nat \ {0, 1} /\ Len(q) \in Nat
  BY LightAssumption DEF LightAssumption
<1>2. Append(q, row) \in Seq(R) /\ Len(Append(q, row)) = Len(q) + 1
  OBVIOUS
<1> QED BY <1>1, <1>2 DEF Enqueue

(* What is taken from it is a row, and it gets shorter.                     *)
LEMMA HeadTailType ==
  ASSUME NEW R, NEW q \in Seq(R), q # <<>>, Len(q) < QUEUE_MAX
  PROVE  Head(q) \in R /\ Tail(q) \in Seq(R) /\ Len(Tail(q)) = Len(q) - 1
         /\ Len(Tail(q)) < QUEUE_MAX
<1>1. QUEUE_MAX \in Nat \ {0, 1} /\ Len(q) \in Nat
  BY LightAssumption DEF LightAssumption
<1>2. Head(q) \in R /\ Tail(q) \in Seq(R) /\ Len(Tail(q)) = Len(q) - 1
  OBVIOUS
<1> QED BY <1>1, <1>2

(* A lamp is sent a byte.                                                   *)
LEMMA LampLineType ==
  ASSUME NEW l \in Lamps, NEW v \in Byte
  PROVE  LampLine(l, v) \in Row
BY DEF LampLine, Row, Byte, clo_qy_trans, UCHAR, FloatShort

(* No lamp has two lines.                                                   *)
Distinct(file) == \A i, j \in DOMAIN file : file[i].lamp = file[j].lamp => i = j

(* The value of the only line a lamp has is what is recorded for it.        *)
LEMMA RecordedIs ==
  ASSUME NEW file \in Seq(Line), Distinct(file), NEW l \in Lamps,
         NEW i \in 1 .. Len(file), file[i].lamp = l
  PROVE  HasLine(file, l) /\ Recorded(file, l) = file[i].level
<1>1. Places(file, l) = {i}
  BY DEF Places, Distinct
<1>2. (CHOOSE k \in Places(file, l) : TRUE) = i
  BY <1>1
<1> QED BY <1>1, <1>2 DEF HasLine, Recorded, LineOf

(* A file records percentages.                                              *)
LEMMA RecordedType ==
  ASSUME NEW file \in Seq(Line), Distinct(file), NEW l \in Lamps
  PROVE  /\ HasLine(file, l) => LineOf(file, l) \in 1 .. 100
         /\ OrDefault(Recorded(file, l)) \in 1 .. 100
<1>1. CASE HasLine(file, l)
  <2>1. PICK i \in 1 .. Len(file) : file[i].lamp = l
    BY <1>1 DEF HasLine, Places
  <2>2. file[i].level \in 1 .. 100
    <3>1. file[i] \in Line
      BY <2>1
    <3> QED BY <3>1 DEF Line
  <2>3. Recorded(file, l) = LineOf(file, l) /\ LineOf(file, l) = file[i].level
    BY <1>1, <2>1, RecordedIs DEF Recorded
  <2>4. NoEntry \notin 0 .. 255
    BY LightAssumption DEF LightAssumption
  <2> QED BY <2>2, <2>3, <2>4 DEF OrDefault
<1>2. CASE ~ HasLine(file, l)
  BY <1>2 DEF Recorded, OrDefault
<1> QED BY <1>1, <1>2

(* What a change of a brightness makes of the file.                         *)
WithLine(file, l, v) == Append(file, [lamp |-> l, level |-> v])

(* The rewrite, for a lamp that has a line ...                              *)
WithLevel(file, l, v) ==
  [i \in 1 .. Len(file) |->
     IF file[i].lamp = l THEN [file[i] EXCEPT !.level = v] ELSE file[i]]

(* ... and of what is recorded for a lamp k.                                *)
After(file, l, v, k) == IF k = l THEN v ELSE Recorded(file, k)

(* A first brightness: the new line is the lamp's only one.                 *)
LEMMA Appended ==
  ASSUME NEW file \in Seq(Line), Distinct(file),
         NEW l \in Lamps, NEW v \in 1 .. 100, ~ HasLine(file, l)
  PROVE  LET new == WithLine(file, l, v) IN
         /\ new \in Seq(Line) /\ Distinct(new)
         /\ \A k \in Lamps : HasLine(file, k) => HasLine(new, k)
         /\ \A k \in Lamps : Recorded(new, k) = After(file, l, v, k)
<1> DEFINE new == WithLine(file, l, v)
<1>1. /\ new \in Seq(Line) /\ Len(new) = Len(file) + 1 /\ Len(file) \in Nat
      /\ DOMAIN new = 1 .. Len(file) + 1 /\ DOMAIN file = 1 .. Len(file)
      /\ \A i \in 1 .. Len(file) : new[i] = file[i]
      /\ new[Len(file) + 1] = [lamp |-> l, level |-> v]
  BY DEF Line, WithLine
<1> HIDE DEF new
<1>2. \A i \in 1 .. Len(file) : file[i].lamp # l
  BY DEF HasLine, Places
<1>3. Distinct(new)
  BY <1>1, <1>2 DEF Distinct
<1>4. ASSUME NEW k \in Lamps PROVE HasLine(file, k) => HasLine(new, k)
  BY <1>1 DEF HasLine, Places
<1>5. ASSUME NEW k \in Lamps PROVE Recorded(new, k) = After(file, l, v, k)
  <2>1. CASE k = l
    <3>1. Len(file) + 1 \in 1 .. Len(new) /\ new[Len(file) + 1].lamp = k
      BY <1>1, <2>1
    <3>2. Recorded(new, k) = new[Len(file) + 1].level
      BY <1>1, <1>3, <3>1, RecordedIs
    <3> QED BY <1>1, <2>1, <3>2 DEF After
  <2>2. CASE k # l /\ HasLine(file, k)
    <3>1. PICK i \in 1 .. Len(file) : file[i].lamp = k
      BY <2>2 DEF HasLine, Places
    <3>2. i \in 1 .. Len(new) /\ new[i].lamp = k
      BY <1>1, <3>1
    <3>3. Recorded(file, k) = file[i].level /\ Recorded(new, k) = new[i].level
      BY <1>1, <1>3, <3>1, <3>2, RecordedIs
    <3> QED BY <1>1, <2>2, <3>3 DEF After
  <2>3. CASE k # l /\ ~ HasLine(file, k)
    <3>1. ~ HasLine(new, k)
      BY <1>1, <2>3 DEF HasLine, Places
    <3> QED BY <2>3, <3>1 DEF Recorded, After
  <2> QED BY <2>1, <2>2, <2>3
<1> QED BY <1>1, <1>3, <1>4, <1>5 DEF new

(* A later one: the line changes its value and stays where it is.           *)
LEMMA Rewritten ==
  ASSUME NEW file \in Seq(Line), Distinct(file),
         NEW l \in Lamps, NEW v \in 1 .. 100, HasLine(file, l)
  PROVE  LET new == WithLevel(file, l, v) IN
         /\ new \in Seq(Line) /\ Distinct(new)
         /\ \A k \in Lamps : HasLine(file, k) => HasLine(new, k)
         /\ \A k \in Lamps : Recorded(new, k) = After(file, l, v, k)
<1> DEFINE new == WithLevel(file, l, v)
<1>1. \A i \in 1 .. Len(file) :
        /\ file[i] \in Line /\ new[i] \in Line
        /\ new[i].lamp = file[i].lamp
        /\ new[i].level = IF file[i].lamp = l THEN v ELSE file[i].level
  <2> SUFFICES ASSUME NEW i \in 1 .. Len(file)
               PROVE  /\ file[i] \in Line /\ new[i] \in Line
                      /\ new[i].lamp = file[i].lamp
                      /\ new[i].level = IF file[i].lamp = l THEN v ELSE file[i].level
    OBVIOUS
  <2>1. file[i] \in Line
    OBVIOUS
  <2>2. new[i] = IF file[i].lamp = l THEN [file[i] EXCEPT !.level = v] ELSE file[i]
    BY DEF WithLevel
  <2> QED BY <2>1, <2>2 DEF Line
<1>2. \A n \in Nat : \A f \in [1 .. n -> Line] : f \in Seq(Line) /\ Len(f) = n
  OBVIOUS
<1>3. /\ new \in Seq(Line) /\ Len(new) = Len(file) /\ Len(file) \in Nat
      /\ DOMAIN new = 1 .. Len(file) /\ DOMAIN file = 1 .. Len(file)
  <2>1. new \in [1 .. Len(file) -> Line] /\ Len(file) \in Nat
    BY <1>1 DEF WithLevel
  <2> QED BY <1>2, <2>1
<1> HIDE DEF new
<1>4. Distinct(new)
  BY <1>1, <1>3 DEF Distinct
<1>5. ASSUME NEW k \in Lamps PROVE HasLine(new, k) <=> HasLine(file, k)
  BY <1>1, <1>3 DEF HasLine, Places
<1>6. ASSUME NEW k \in Lamps PROVE Recorded(new, k) = After(file, l, v, k)
  <2>1. CASE HasLine(file, k)
    <3>1. PICK i \in 1 .. Len(file) : file[i].lamp = k
      BY <2>1 DEF HasLine, Places
    <3>2. i \in 1 .. Len(new) /\ new[i].lamp = k
      BY <1>1, <1>3, <3>1
    <3>3. Recorded(file, k) = file[i].level /\ Recorded(new, k) = new[i].level
      BY <1>3, <1>4, <3>1, <3>2, RecordedIs
    <3> QED BY <1>1, <3>1, <3>3 DEF After
  <2>2. CASE ~ HasLine(file, k)
    BY <1>5, <2>2 DEF Recorded, After
  <2> QED BY <2>1, <2>2
<1> QED BY <1>3, <1>4, <1>5, <1>6 DEF new

--------------------------------------------------------------------------------
(* Types.                                                                   *)

(* At the start.                                                             *)
LEMMA InitTypes == Init => IInv
<1> SUFFICES ASSUME Init PROVE IInv
  OBVIOUS
<1>1. QUEUE_MAX \in Nat \ {0, 1}
  BY LightAssumption DEF LightAssumption
<1>2. TypeOK
  BY <1>1 DEF Init, TypeOK, Byte
<1>3. ShapeInv
  BY DEF Init, ShapeInv
<1> QED BY <1>2, <1>3 DEF IInv

(* What the invariant says of the worker, for one frame it handles.         *)
LEMMA WorkerTypes ==
  ASSUME TypeOK, ShapeInv, worker # "none"
  PROVE  /\ buf_final.lamp \in Lamps
         /\ buf_final.value \in Levels \cup Others \cup {SWITCH_OFF, RESTORE}
         /\ p_flag = 1
         /\ truncated <=> worker = "rewrite"
         /\ photometric \in Seq(Line) /\ Distinct(photometric)
         /\ dimmer_value \in 0 .. 100 /\ dimmer_value \in Byte
BY DEF TypeOK, ShapeInv, Frame, Distinct, Byte

(* The reader and its worker.                                               *)
LEMMA WorkerKeepsTypes ==
  ASSUME TypeOK, ShapeInv, get_valid_cbus_data \/ data_to_other_thread
  PROVE  TypeOK' /\ ShapeInv'
<1>1. CASE get_valid_cbus_data
  <2>1. PICK l \in Lamps, v \in Levels \cup Others \cup {SWITCH_OFF, RESTORE} :
          buf_final' = [lamp |-> l, value |-> v]
    BY <1>1 DEF get_valid_cbus_data
  <2>2. v \in Byte
    BY LightAssumption DEF LightAssumption, SWITCH_OFF, RESTORE, Byte
  <2>3. worker = "none" /\ ~ truncated
    BY <1>1 DEF get_valid_cbus_data, TypeOK
  <2>4. TypeOK'
    BY <1>1, <2>1, <2>2, <2>3 DEF get_valid_cbus_data, TypeOK, mains, files, queues
  <2>5. ShapeInv'
    BY <1>1, <2>1 DEF get_valid_cbus_data, ShapeInv, mains, files, queues, Frame
  <2> QED BY <2>4, <2>5
<1>2. CASE Off \/ Unknown \/ SaveTruncate
  <2>1. ASSUME Off PROVE TypeOK'
    BY <2>1 DEF Off, TypeOK, reader, mains, files, queues, outside
  <2>3. ASSUME SaveTruncate PROVE TypeOK'
    BY <2>3 DEF SaveTruncate, TypeOK, reader, mains, files, queues, outside
  <2>4. ASSUME Unknown PROVE TypeOK'
    BY <2>4 DEF Unknown, TypeOK, reader, mains, files, queues, outside
  <2>2. ShapeInv'
    BY <1>2 DEF Off, Unknown, SaveTruncate, ShapeInv, TypeOK, reader, mains, files, queues, outside
  <2> QED BY <1>2, <2>1, <2>2, <2>3, <2>4
<1>3. CASE Restore
  <2>1. dimmer_value' \in 0 .. 100
    <3>1. worker = "translate"
          /\ dimmer_value' = OrDefault(Recorded(Visible, buf_final.lamp))
      BY <1>3 DEF Restore
    <3>2. /\ Visible = photometric /\ buf_final.lamp \in Lamps
          /\ photometric \in Seq(Line) /\ Distinct(photometric)
      BY <3>1, WorkerTypes DEF Visible
    <3>3. OrDefault(Recorded(photometric, buf_final.lamp)) \in 1 .. 100
      BY <3>2, RecordedType
    <3> QED BY <3>1, <3>2, <3>3
  <2>2. TypeOK'
    BY <1>3, <2>1 DEF Restore, TypeOK, reader, mains, files, queues, outside
  <2>3. ShapeInv'
    BY <1>3 DEF Restore, ShapeInv, reader, mains, files, queues, outside
  <2> QED BY <2>2, <2>3
<1>4. CASE SaveNew
  <2>1. photometric' \in Seq(Line) /\ Distinct(photometric')
        /\ \A k \in Lamps : HasLine(photometric, k) => HasLine(photometric', k)
    <3>1. /\ worker = "translate" /\ buf_final.value \in 1 .. 100
          /\ ~ HasLine(photometric, buf_final.lamp)
          /\ photometric' = WithLine(photometric, buf_final.lamp, buf_final.value)
      BY <1>4 DEF SaveNew, WithLine
    <3>2. buf_final.lamp \in Lamps /\ photometric \in Seq(Line) /\ Distinct(photometric)
      BY <3>1, WorkerTypes
    <3> QED BY <3>1, <3>2, Appended
  <2>2. \A i \in DOMAIN photometric' : photometric'[i] \in Line
    BY <2>1
  <2>3. TypeOK'
    BY <1>4, <2>1, <2>2 DEF SaveNew, TypeOK, Distinct, reader, mains, queues, outside
  <2>4. ShapeInv'
    BY <1>4, <2>1 DEF SaveNew, ShapeInv, Job, reader, mains, queues, outside
  <2> QED BY <2>3, <2>4
<1>5. CASE SaveRewrite
  <2>1. photometric' \in Seq(Line) /\ Distinct(photometric')
        /\ \A k \in Lamps : HasLine(photometric, k) => HasLine(photometric', k)
    <3>1. /\ worker = "rewrite" /\ buf_final.value \in 1 .. 100
          /\ HasLine(photometric, buf_final.lamp)
          /\ photometric' = WithLevel(photometric, buf_final.lamp, buf_final.value)
      BY <1>5 DEF SaveRewrite, ShapeInv, WithLevel
    <3>2. buf_final.lamp \in Lamps /\ photometric \in Seq(Line) /\ Distinct(photometric)
      BY <3>1, WorkerTypes
    <3> QED BY <3>1, <3>2, Rewritten
  <2>2. \A i \in DOMAIN photometric' : photometric'[i] \in Line
    BY <2>1
  <2>3. TypeOK'
    BY <1>5, <2>1, <2>2 DEF SaveRewrite, TypeOK, ShapeInv, Distinct, reader, mains, queues, outside
  <2>4. ShapeInv'
    BY <1>5, <2>1 DEF SaveRewrite, ShapeInv, Job, reader, mains, queues, outside
  <2> QED BY <2>3, <2>4
<1>6. CASE UpdateDb
  <2>1. /\ dimmer_db' \in [Lamps -> Byte]
        /\ db_by' \in [Lamps -> {"nobody", "worker", "main"}]
    BY <1>6, WorkerTypes DEF UpdateDb, Set, TypeOK
  <2>2. TypeOK'
    BY <1>6, <2>1 DEF UpdateDb, TypeOK, reader, mains, files, queues, outside
  <2>3. ShapeInv'
    BY <1>6 DEF UpdateDb, ShapeInv, reader, mains, files, queues, outside
  <2> QED BY <2>2, <2>3
<1>7. CASE QueueFrame
  <2>1. queue_read' \in Seq(Frame) /\ Len(queue_read') < QUEUE_MAX
    BY <1>7, EnqueueType DEF QueueFrame, TypeOK, ShapeInv
  <2>2. TypeOK'
    BY <1>7, <2>1 DEF QueueFrame, TypeOK, reader, mains, files, outside
  <2>3. ShapeInv'
    BY <1>7, <2>1 DEF QueueFrame, ShapeInv, reader, mains, files, outside
  <2> QED BY <2>2, <2>3
<1>8. CASE QueueCommand
  <2>1. LampLine(buf_final.lamp, dimmer_value) \in Row
    BY <1>8, WorkerTypes, LampLineType DEF QueueCommand
  <2>2. qy_write' \in Seq(Row) /\ Len(qy_write') < QUEUE_MAX
    BY <1>8, <2>1, EnqueueType DEF QueueCommand, TypeOK, ShapeInv
  <2>5. strayed' \subseteq Lamps
    BY <1>8, WorkerTypes DEF QueueCommand, Stray, TypeOK
  <2>3. TypeOK'
    BY <1>8, <2>2, <2>5 DEF QueueCommand, TypeOK, mains, files, outside
  <2>4. ShapeInv'
    BY <1>8, <2>2 DEF QueueCommand, ShapeInv, mains, files, outside
  <2> QED BY <2>3, <2>4
<1> QED
  BY <1>1, <1>2, <1>3, <1>4, <1>5, <1>6, <1>7, <1>8 DEF data_to_other_thread

(* The main loop.                                                           *)
LEMMA MainKeepsTypes ==
  ASSUME TypeOK, ShapeInv, get_handle
  PROVE  TypeOK' /\ ShapeInv'
<1>0. main \notin {"clowire", "qiyuan"} =>
        /\ job.lamp \in Lamps /\ job.from \in {"clowire", "qiyuan"}
        /\ job.task \in {"feedback", "restore", "switch off"}
  BY DEF ShapeInv, Job
<1>a. dim_value \in Byte /\ 0 \in Byte
  BY DEF TypeOK, Byte
<1>1. CASE TakeFrame
  <2>1. /\ Head(queue_read) \in Frame
        /\ queue_read' \in Seq(Frame) /\ Len(queue_read') < QUEUE_MAX
    BY <1>1, HeadTailType DEF TakeFrame, TypeOK, ShapeInv
  <2>2. job' \in Job
    BY <1>1, <2>1 DEF TakeFrame, Frame, Job
  <2>3. main' \in {"report", "find"} /\ dim_value' \in Byte
    <3>1. \/ main' = "report" /\ dim_value' = 0
          \/ main' = "find" /\ dim_value' = dim_value
      BY <1>1 DEF TakeFrame
    <3> QED BY <1>a, <3>1
  <2>4. TypeOK'
    BY <1>1, <2>1, <2>3 DEF TakeFrame, TypeOK, reader, workers, files, outside
  <2>5. ShapeInv'
    BY <1>1, <2>1, <2>2, <2>3 DEF TakeFrame, ShapeInv, reader, workers, files, outside
  <2> QED BY <2>4, <2>5
<1>2. CASE NoFrame \/ NoEvent
  <2>1. TypeOK'
    <3>1. /\ main' \in {"clowire", "qiyuan"}
          /\ UNCHANGED <<reader, workers, dim_value, files, database, queues, outside>>
      BY <1>2 DEF NoFrame, NoEvent
    <3> QED BY <3>1 DEF TypeOK, reader, workers, files, queues, outside
  <2>2. ShapeInv'
    BY <1>2 DEF NoFrame, NoEvent, ShapeInv, reader, workers, files, queues, outside
  <2> QED BY <2>1, <2>2
<1>3. CASE TakeEvent
  <2>1. /\ Head(qy_read) \in Sensed
        /\ qy_read' \in Seq(Sensed) /\ Len(qy_read') < QUEUE_MAX
    BY <1>3, HeadTailType DEF TakeEvent, TypeOK, ShapeInv
  <2>a. \/ /\ job' = [lamp |-> Head(qy_read).lamp, task |-> "restore", from |-> "qiyuan"]
           /\ main' = "find" /\ dim_value' = dim_value
        \/ /\ job' = [lamp |-> Head(qy_read).lamp, task |-> "switch off", from |-> "qiyuan"]
           /\ main' = "mark" /\ dim_value' = 0
    BY <1>3 DEF TakeEvent
  <2>2. job' \in Job
    <3>1. Head(qy_read).lamp \in Lamps
      BY <2>1 DEF Sensed
    <3>2. CASE job' = [lamp |-> Head(qy_read).lamp, task |-> "restore", from |-> "qiyuan"]
      BY <3>1, <3>2 DEF Job
    <3>3. CASE job' = [lamp |-> Head(qy_read).lamp, task |-> "switch off", from |-> "qiyuan"]
      BY <3>1, <3>3 DEF Job
    <3> QED BY <2>a, <3>2, <3>3
  <2>3. main' \in {"mark", "find"} /\ dim_value' \in Byte
    BY <1>a, <2>a
  <2>4. TypeOK'
    BY <1>3, <2>1, <2>3 DEF TakeEvent, TypeOK, reader, workers, files, outside
  <2>5. ShapeInv'
    BY <1>3, <2>1, <2>2, <2>3 DEF TakeEvent, ShapeInv, reader, workers, files, outside
  <2> QED BY <2>4, <2>5
<1>4. CASE Find
  <2>1. /\ main' \in {"fetch", "report", "mark"} /\ dim_value' \in Byte
        /\ main' = "fetch" => HasLine(photometric, job.lamp)
    <3>1. CASE HasLine(Visible, job.lamp)
      <4>1. Visible = photometric
        BY <3>1 DEF Visible, HasLine, Places
      <4> QED BY <1>4, <3>1, <4>1 DEF Find, TypeOK
    <3>2. CASE ~ HasLine(Visible, job.lamp)
      <4>1. main' = Parsed /\ dim_value' = 100
        BY <1>4, <3>2 DEF Find
      <4> QED BY <4>1 DEF Parsed, Byte
    <3> QED BY <3>1, <3>2
  <2>2. TypeOK'
    BY <1>4, <2>1 DEF Find, TypeOK, reader, workers, files, queues, outside
  <2>3. ShapeInv'
    BY <1>4, <2>1 DEF Find, ShapeInv, reader, workers, files, queues, outside
  <2> QED BY <2>2, <2>3
<1>5. CASE Fetch
  <2>1. Distinct(photometric) /\ photometric \in Seq(Line) /\ HasLine(photometric, job.lamp)
    BY <1>5 DEF Fetch, TypeOK, Distinct, ShapeInv
  <2>2. LineOf(photometric, job.lamp) \in 1 .. 100
    BY <1>0, <1>5, <2>1, RecordedType DEF Fetch
  <2>3. SecondPass(first_pass, Visible, job.lamp) \subseteq Byte
    <3>1. Garbage \subseteq Byte
      BY LightAssumption DEF LightAssumption, Byte
    <3>2. CASE Visible = <<>>
      BY <3>1, <3>2 DEF SecondPass
    <3>3. CASE Visible # <<>>
      <4>1. Visible = photometric
        BY <3>3 DEF Visible
      <4>2. \/ SecondPass(first_pass, Visible, job.lamp) = {0}
            \/ SecondPass(first_pass, Visible, job.lamp) = {LineOf(photometric, job.lamp)}
        BY <3>3, <4>1 DEF SecondPass
      <4> QED BY <2>2, <4>2 DEF Byte
    <3> QED BY <3>2, <3>3
  <2>4. main' \in {"report", "mark"} /\ dim_value' \in Byte
    BY <1>5, <2>3 DEF Fetch, Parsed
  <2>5. TypeOK'
    BY <1>5, <2>4 DEF Fetch, TypeOK, reader, workers, files, queues, outside
  <2>6. ShapeInv'
    BY <1>5, <2>4 DEF Fetch, ShapeInv, reader, workers, files, queues, outside
  <2> QED BY <2>5, <2>6
<1>6. CASE Mark
  <2>1. /\ dimmer_db' \in [Lamps -> Byte]
        /\ db_by' \in [Lamps -> {"nobody", "worker", "main"}]
    BY <1>0, <1>6 DEF Mark, Set, TypeOK
  <2>2. TypeOK'
    BY <1>6, <2>1 DEF Mark, TypeOK, reader, workers, files, queues, outside
  <2>3. ShapeInv'
    BY <1>6 DEF Mark, ShapeInv, reader, workers, files, queues, outside
  <2> QED BY <2>2, <2>3
<1>7. CASE Drive
  <2>1. LampLine(job.lamp, dim_value) \in Row
    BY <1>0, <1>7, LampLineType DEF Drive, TypeOK
  <2>2. qy_write' \in Seq(Row) /\ Len(qy_write') < QUEUE_MAX
    BY <1>7, <2>1, EnqueueType DEF Drive, TypeOK, ShapeInv
  <2>3. job' \in Job /\ main' \in {"find", "report"}
    BY <1>7 DEF Drive, ShapeInv, Job
  <2>6. strayed' \subseteq Lamps
    BY <1>0, <1>7 DEF Drive, Stray, TypeOK
  <2>4. TypeOK'
    BY <1>7, <2>2, <2>3, <2>6 DEF Drive, TypeOK, reader, workers, files, outside
  <2>5. ShapeInv'
    BY <1>7, <2>2, <2>3 DEF Drive, ShapeInv, reader, workers, files, outside
  <2> QED BY <2>4, <2>5
<1>8. CASE Report
  <2>1. [lamp |-> job.lamp, level |-> dim_value] \in Row
    BY <1>0, <1>8 DEF Report, Row, TypeOK
  <2>2. clo_write' \in Seq(Row) /\ Len(clo_write') < QUEUE_MAX
    BY <1>8, <2>1, EnqueueType DEF Report, TypeOK, ShapeInv
  <2>3. main' \in {"clowire", "qiyuan"}
    BY <1>0, <1>8 DEF Report
  <2>4. TypeOK'
    BY <1>8, <2>2, <2>3 DEF Report, TypeOK, reader, workers, files, outside
  <2>5. ShapeInv'
    BY <1>8, <2>2, <2>3 DEF Report, ShapeInv, reader, workers, files, outside
  <2> QED BY <2>4, <2>5
<1> QED BY <1>1, <1>2, <1>3, <1>4, <1>5, <1>6, <1>7, <1>8 DEF get_handle

(* The ports.                                                               *)
LEMMA PortsKeepTypes ==
  ASSUME TypeOK, ShapeInv,
         data_to_clo_thread \/ trans_serial_write \/ general_serial_write
  PROVE  TypeOK' /\ ShapeInv'
<1>1. CASE data_to_clo_thread
  <2>1. PICK l \in Lamps, e \in Events :
          qy_read' = Enqueue(qy_read, [lamp |-> l, event |-> e])
    BY <1>1 DEF data_to_clo_thread
  <2>2. qy_read' \in Seq(Sensed) /\ Len(qy_read') < QUEUE_MAX
    <3>1. qy_read \in Seq(Sensed) /\ Len(qy_read) < QUEUE_MAX /\ [lamp |-> l, event |-> e] \in Sensed
      BY DEF TypeOK, ShapeInv, Sensed
    <3> QED BY <2>1, <3>1, EnqueueType
  <2>3. TypeOK'
    BY <1>1, <2>2 DEF data_to_clo_thread, TypeOK, reader, workers, mains, files
  <2>4. ShapeInv'
    BY <1>1, <2>2 DEF data_to_clo_thread, ShapeInv, reader, workers, mains, files
  <2> QED BY <2>3, <2>4
<1>2. CASE trans_serial_write
  <2>1. /\ Head(qy_write) \in Row
        /\ qy_write' \in Seq(Row) /\ Len(qy_write') < QUEUE_MAX
    BY <1>2, HeadTailType DEF trans_serial_write, TypeOK, ShapeInv
  <2>2. lamp' \in [Lamps -> Byte]
    BY <1>2, <2>1 DEF trans_serial_write, Set, TypeOK, Row
  <2>3. TypeOK'
    BY <1>2, <2>1, <2>2 DEF trans_serial_write, TypeOK, reader, workers, mains, files
  <2>4. ShapeInv'
    BY <1>2, <2>1 DEF trans_serial_write, ShapeInv, reader, workers, mains, files
  <2> QED BY <2>3, <2>4
<1>3. CASE general_serial_write
  <2>1. /\ Head(clo_write) \in Row
        /\ clo_write' \in Seq(Row) /\ Len(clo_write') < QUEUE_MAX
    BY <1>3, HeadTailType DEF general_serial_write, TypeOK, ShapeInv
  <2>2. shown' \in [Lamps -> Byte]
    BY <1>3, <2>1 DEF general_serial_write, Set, TypeOK, Row
  <2>3. TypeOK'
    BY <1>3, <2>1, <2>2 DEF general_serial_write, TypeOK, reader, workers, mains, files
  <2>4. ShapeInv'
    BY <1>3, <2>1 DEF general_serial_write, ShapeInv, reader, workers, mains, files
  <2> QED BY <2>3, <2>4
<1> QED BY <1>1, <1>2, <1>3

(* Every step keeps the types.                                               *)
LEMMA NextTypes ==
  ASSUME TypeOK, ShapeInv, [Next]_vars
  PROVE  TypeOK' /\ ShapeInv'
<1>1. CASE UNCHANGED vars
  <2>1. TypeOK'
    BY <1>1 DEF vars, TypeOK, reader, workers, mains, files, queues, outside
  <2>2. ShapeInv'
    BY <1>1 DEF vars, ShapeInv, reader, workers, mains, files, queues, outside
  <2> QED BY <2>1, <2>2
<1> QED BY <1>1, WorkerKeepsTypes, MainKeepsTypes, PortsKeepTypes DEF Next

(* The inductive invariant.                                                 *)
THEOREM Inductive == Spec => []IInv
<1>1. IInv /\ [Next]_vars => IInv'
  BY NextTypes DEF IInv
<1> QED BY InitTypes, <1>1, PTL DEF Spec

(* The type invariant: percentages in photometric.txt and one line for a    *)
(* lamp, whatever frames and sensor events come.                            *)
THEOREM TypeCorrect == Spec => []TypeOK
<1>1. IInv => TypeOK
  BY DEF IInv
<1> QED BY Inductive, <1>1, PTL

--------------------------------------------------------------------------------
(* Without sensor events the main loop only gives feedback.                 *)

(* No sensor event waits or is being handled.                               *)
Unsensed ==
  /\ qy_read = <<>>
  /\ main \notin {"mark", "drive"}
  /\ main \in {"find", "fetch"} => job.task = "feedback"

(* No sensor event comes, so none is ever handled.                           *)
LEMMA NextUnsensed ==
  ASSUME Events = {}, ShapeInv, Unsensed, [Next]_vars
  PROVE  Unsensed'
<1>1. CASE get_valid_cbus_data \/ data_to_other_thread
  <2>1. UNCHANGED <<qy_read, main, job>>
    BY <1>1 DEF get_valid_cbus_data, data_to_other_thread, Unknown, Off, Restore, SaveNew, SaveTruncate,
                SaveRewrite, UpdateDb, QueueFrame, QueueCommand, mains, queues
  <2> QED BY <2>1 DEF Unsensed
<1>2. ~ data_to_clo_thread
  BY DEF data_to_clo_thread
<1>3. CASE get_handle
  <2>1. CASE TakeFrame
    <3>1. /\ main' \in {"report", "find"} /\ qy_read' = qy_read
          /\ job' = [lamp |-> Head(queue_read).lamp, task |-> "feedback", from |-> "clowire"]
      BY <2>1 DEF TakeFrame
    <3> QED BY <3>1 DEF Unsensed
  <2>2. CASE NoFrame \/ NoEvent \/ Report
    <3>1. /\ qy_read' = qy_read /\ main' \in {"clowire", "qiyuan"}
      BY <2>2 DEF NoFrame, NoEvent, Report, queues, ShapeInv, Job
    <3> QED BY <3>1 DEF Unsensed
  <2>3. ~ TakeEvent /\ ~ Mark /\ ~ Drive
    BY DEF TakeEvent, Mark, Drive, Unsensed
  <2>4. CASE Find \/ Fetch
    <3>1. /\ main \in {"find", "fetch"} /\ UNCHANGED <<qy_read, job>>
          /\ main' \in {"fetch", Parsed}
      BY <2>4 DEF Find, Fetch, queues
    <3>2. Parsed = "report"
      BY <3>1 DEF Parsed, Unsensed
    <3> QED BY <3>1, <3>2 DEF Unsensed
  <2> QED BY <1>3, <2>1, <2>2, <2>3, <2>4 DEF get_handle
<1>4. CASE trans_serial_write \/ general_serial_write \/ UNCHANGED vars
  <2>1. UNCHANGED <<qy_read, main, job>>
    BY <1>4 DEF trans_serial_write, general_serial_write, vars, mains, queues
  <2> QED BY <2>1 DEF Unsensed
<1> QED BY <1>1, <1>2, <1>3, <1>4 DEF Next

(* Then only the worker writes the file and the database, and only it and   *)
(* the port touch the commands.                                             *)
LEMMA OthersKeepFiles ==
  ASSUME Unsensed, get_handle \/ general_serial_write \/ UNCHANGED vars
  PROVE  UNCHANGED <<worker, buf_final, dimmer_value, photometric, dimmer_db, qy_write, lamp,
                     frames>>
<1>1. ~ TakeEvent /\ ~ Mark /\ ~ Drive
  BY DEF TakeEvent, Mark, Drive, Unsensed
<1>2. CASE get_handle
  BY <1>1, <1>2 DEF get_handle, TakeFrame, NoFrame, NoEvent, Find, Fetch, Report,
                    reader, workers, files, queues, outside
<1>3. CASE general_serial_write
  BY <1>3 DEF general_serial_write, reader, workers, files
<1>4. CASE UNCHANGED vars
  BY <1>4 DEF vars, reader, workers, files, queues, outside
<1> QED BY <1>2, <1>3, <1>4

--------------------------------------------------------------------------------
(* Lighting.                                                                *)

(* The state of Lighting: a level counts from the moment the worker has     *)
(* computed it, a record from the moment the file has it.                   *)
AbstractLevel ==
  IF worker = "update" THEN Set(dimmer_db, buf_final.lamp, dimmer_value) ELSE dimmer_db

AbstractRecorded == [l \in Lamps |-> Recorded(photometric, l)]

(* Every step is a step of Lighting, or is not seen.                         *)
LEMMA LightingStep ==
  ASSUME Events = {}, IInv, Unsensed, [Next]_vars
  PROVE  [Promise!Next]_Promise!vars
<1> USE DEF IInv
<1>0. /\ photometric \in Seq(Line) /\ Distinct(photometric)
      /\ dimmer_db \in [Lamps -> Byte]
  BY DEF TypeOK, ShapeInv, Distinct
<1>a. ASSUME UNCHANGED <<AbstractLevel, AbstractRecorded>> PROVE [Promise!Next]_Promise!vars
  BY <1>a DEF Promise!vars, AbstractLevel, AbstractRecorded
<1>1. CASE get_valid_cbus_data
  <2>1. /\ worker = "none" /\ worker' = "translate"
        /\ UNCHANGED <<dimmer_db, photometric>>
    BY <1>1 DEF get_valid_cbus_data, TypeOK, files
  <2> QED BY <1>a, <2>1 DEF AbstractLevel, AbstractRecorded
<1>2. CASE Off
  <2>1. /\ worker = "translate" /\ worker' = "update" /\ dimmer_value' = 0
        /\ UNCHANGED <<buf_final, dimmer_db, photometric>>
    BY <1>2 DEF Off, reader, files
  <2>2. buf_final.lamp \in Lamps
    BY <2>1, WorkerTypes
  <2>3. AbstractLevel = dimmer_db /\ AbstractLevel' = [dimmer_db EXCEPT ![buf_final.lamp] = 0]
    BY <2>1 DEF AbstractLevel, Set
  <2>4. AbstractRecorded' = AbstractRecorded
    BY <2>1 DEF AbstractRecorded
  <2>5. Promise!SwitchOff(buf_final.lamp)
    BY <2>3, <2>4 DEF Promise!SwitchOff, AbstractLevel, AbstractRecorded
  <2> QED BY <2>2, <2>5 DEF Promise!Next
<1>3. CASE Restore
  <2>1. /\ worker = "translate" /\ worker' = "update"
        /\ dimmer_value' = OrDefault(Recorded(Visible, buf_final.lamp))
        /\ UNCHANGED <<buf_final, dimmer_db, photometric>>
    BY <1>3 DEF Restore, reader, files
  <2>2. buf_final.lamp \in Lamps /\ Visible = photometric
    BY <2>1, WorkerTypes DEF Visible
  <2>3. /\ AbstractLevel = dimmer_db
        /\ AbstractLevel' = [dimmer_db EXCEPT ![buf_final.lamp] =
                               OrDefault(Recorded(photometric, buf_final.lamp))]
    BY <2>1, <2>2 DEF AbstractLevel, Set
  <2>4. /\ AbstractRecorded' = AbstractRecorded
        /\ AbstractRecorded[buf_final.lamp] = Recorded(photometric, buf_final.lamp)
    BY <2>1, <2>2 DEF AbstractRecorded
  <2>5. Promise!SwitchOn(buf_final.lamp)
    BY <2>3, <2>4 DEF Promise!SwitchOn, AbstractLevel, AbstractRecorded, OrDefault
  <2> QED BY <2>2, <2>5 DEF Promise!Next
<1>4. CASE SaveNew \/ SaveRewrite
  <2> DEFINE l == buf_final.lamp
             v == buf_final.value
  <2>1. /\ worker \in {"translate", "rewrite"} /\ worker' = "update" /\ dimmer_value' = v
        /\ UNCHANGED <<buf_final, dimmer_db>>
    BY <1>4 DEF SaveNew, SaveRewrite, reader
  <2>2. l \in Lamps /\ v \in Levels \cup Others \cup {SWITCH_OFF, RESTORE} /\ v \in 1 .. 100
    BY <1>4, <2>1, WorkerTypes DEF SaveNew, SaveRewrite, ShapeInv
  <2>3. v \in Levels \ {0}
    BY <2>2, LightAssumption DEF LightAssumption, SWITCH_OFF, RESTORE
  <2>4. \A k \in Lamps :
          Recorded(photometric', k) = After(photometric, l, v, k)
    <3>1. CASE SaveNew
      <4>1. /\ ~ HasLine(photometric, l)
            /\ photometric' = WithLine(photometric, l, v)
        BY <3>1 DEF SaveNew, WithLine
      <4>2. \A k \in Lamps : Recorded(WithLine(photometric, l, v), k) = After(photometric, l, v, k)
        BY <1>0, <2>2, <4>1, Appended
      <4> QED BY <4>1, <4>2
    <3>2. CASE SaveRewrite
      <4>1. /\ HasLine(photometric, l)
            /\ photometric' = WithLevel(photometric, l, v)
        BY <3>2 DEF SaveRewrite, ShapeInv, WithLevel
      <4>2. \A k \in Lamps : Recorded(WithLevel(photometric, l, v), k) = After(photometric, l, v, k)
        BY <1>0, <2>2, <4>1, Rewritten
      <4> QED BY <4>1, <4>2
    <3> QED BY <1>4, <3>1, <3>2
  <2>5. AbstractLevel = dimmer_db /\ AbstractLevel' = [dimmer_db EXCEPT ![l] = v]
    BY <2>1 DEF AbstractLevel, Set
  <2>6. AbstractRecorded' = [AbstractRecorded EXCEPT ![l] = v]
    BY <2>2, <2>4 DEF AbstractRecorded, After
  <2>7. Promise!Dim(l, v)
    BY <2>5, <2>6 DEF Promise!Dim, AbstractLevel, AbstractRecorded
  <2> QED BY <2>2, <2>3, <2>7 DEF Promise!Next
<1>5. CASE Unknown \/ SaveTruncate \/ QueueFrame \/ QueueCommand
  <2>1. /\ worker # "update" /\ worker' # "update"
        /\ UNCHANGED <<dimmer_db, photometric>>
    BY <1>5 DEF Unknown, SaveTruncate, QueueFrame, QueueCommand, files
  <2> QED BY <1>a, <2>1 DEF AbstractLevel, AbstractRecorded
<1>6. CASE UpdateDb
  <2>1. /\ worker = "update" /\ worker' = "answer"
        /\ dimmer_db' = Set(dimmer_db, buf_final.lamp, dimmer_value)
        /\ UNCHANGED photometric
    BY <1>6 DEF UpdateDb, files
  <2> QED BY <1>a, <2>1 DEF AbstractLevel, AbstractRecorded
<1>7. ~ data_to_clo_thread
  BY DEF data_to_clo_thread
<1>8. CASE trans_serial_write
  <2>1. UNCHANGED <<worker, buf_final, dimmer_value, dimmer_db, photometric>>
    BY <1>8 DEF trans_serial_write, reader, workers, files
  <2> QED BY <1>a, <2>1 DEF AbstractLevel, AbstractRecorded
<1>9. CASE get_handle \/ general_serial_write \/ UNCHANGED vars
  <2>1. UNCHANGED <<worker, buf_final, dimmer_value, dimmer_db, photometric>>
    BY <1>9, OthersKeepFiles
  <2> QED BY <1>a, <2>1 DEF AbstractLevel, AbstractRecorded
<1> QED
  BY <1>1, <1>2, <1>3, <1>4, <1>5, <1>6, <1>7, <1>8, <1>9 DEF Next, data_to_other_thread

(* Each command takes effect in one step, and the order of the commands is  *)
(* that in which the worker gets them; the rewrite of the file, the queues  *)
(* and the feedback are not seen.                                           *)
THEOREM LightingRefinement == Events = {} => (Spec => ImplementsLighting)
<1> SUFFICES ASSUME Events = {} PROVE Spec => ImplementsLighting
  OBVIOUS
<1>1. Init => Promise!Init /\ Unsensed
  <2> SUFFICES ASSUME Init PROVE Promise!Init /\ Unsensed
    OBVIOUS
  <2>1. \A l \in Lamps : Recorded(photometric, l) = NoEntry
    BY DEF Init, Recorded, HasLine, Places
  <2> QED BY <2>1 DEF Init, Promise!Init, Unsensed
<1>2. IInv /\ Unsensed /\ [Next]_vars => Unsensed'
  BY NextUnsensed DEF IInv
<1>3. IInv /\ Unsensed /\ [Next]_vars => [Promise!Next]_Promise!vars
  BY LightingStep
<1> QED BY <1>1, <1>2, <1>3, Inductive, PTL DEF Spec, ImplementsLighting, Promise!Spec

--------------------------------------------------------------------------------
(* The database and the lamps.                                              *)

(* When all of q has been sent to lamp l, which stands at `at', it stands   *)
(* at x.                                                                    *)
Settles(q, at, l, x) ==
  /\ \A i \in DOMAIN q :
       /\ q[i].lamp = l
       /\ \A j \in DOMAIN q : j > i => q[j].lamp # l
       => q[i].level = x
  /\ (\A i \in DOMAIN q : q[i].lamp # l) => at = x

(* A command for the lamp decides, one for another lamp does not matter.     *)
LEMMA SettlesAppend ==
  ASSUME NEW q \in Seq(Row), NEW row \in Row, NEW at, NEW l \in Lamps, NEW x
  PROVE  /\ row.lamp = l /\ row.level = x => Settles(Append(q, row), at, l, x)
         /\ row.lamp # l /\ Settles(q, at, l, x) => Settles(Append(q, row), at, l, x)
<1> DEFINE new == Append(q, row)
<1>1. /\ DOMAIN q = 1 .. Len(q) /\ Len(q) \in Nat
      /\ DOMAIN new = 1 .. Len(q) + 1
      /\ \A i \in 1 .. Len(q) : new[i] = q[i]
      /\ new[Len(q) + 1] = row
  OBVIOUS
<1> HIDE DEF new
<1>2. ASSUME row.lamp = l, row.level = x PROVE Settles(new, at, l, x)
  BY <1>1, <1>2 DEF Settles
<1>3. ASSUME row.lamp # l, Settles(q, at, l, x) PROVE Settles(new, at, l, x)
  BY <1>1, <1>3 DEF Settles
<1> QED BY <1>2, <1>3 DEF new

(* Sending the first command of the queue changes nothing about the end.     *)
LEMMA SettlesTail ==
  ASSUME NEW q \in Seq(Row), q # <<>>, NEW at, NEW l \in Lamps, NEW x,
         Settles(q, at, l, x)
  PROVE  Settles(Tail(q), IF Head(q).lamp = l THEN Head(q).level ELSE at, l, x)
<1> DEFINE rest == Tail(q)
<1>1. /\ DOMAIN q = 1 .. Len(q) /\ Len(q) \in Nat \ {0}
      /\ DOMAIN rest = 1 .. Len(q) - 1
      /\ \A i \in DOMAIN rest : i + 1 \in DOMAIN q /\ rest[i] = q[i + 1]
      /\ Head(q) = q[1]
  OBVIOUS
<1> HIDE DEF rest
<1>2. \A j \in DOMAIN q : j > 1 => j - 1 \in DOMAIN rest /\ rest[j - 1] = q[j]
  <2> SUFFICES ASSUME NEW j \in DOMAIN q, j > 1
               PROVE  j - 1 \in DOMAIN rest /\ rest[j - 1] = q[j]
    OBVIOUS
  <2>1. j - 1 \in DOMAIN rest /\ (j - 1) + 1 = j
    BY <1>1
  <2> QED BY <1>1, <2>1
<1>3. ASSUME NEW i \in DOMAIN rest, rest[i].lamp = l,
             \A j \in DOMAIN rest : j > i => rest[j].lamp # l
      PROVE  rest[i].level = x
  <2>1. i + 1 \in DOMAIN q /\ rest[i] = q[i + 1] /\ q[i + 1].lamp = l
    BY <1>1, <1>3
  <2>2. ASSUME NEW j \in DOMAIN q, j > i + 1 PROVE q[j].lamp # l
    <3>1. j > 1 /\ j - 1 > i
      BY <1>1, <2>2
    <3> QED BY <1>2, <1>3, <3>1
  <2> QED BY <2>1, <2>2 DEF Settles
<1>4. ASSUME \A i \in DOMAIN rest : rest[i].lamp # l
      PROVE  (IF Head(q).lamp = l THEN Head(q).level ELSE at) = x
  <2>1. \A j \in DOMAIN q : j > 1 => q[j].lamp # l
    BY <1>2, <1>4
  <2>2. 1 \in DOMAIN q
    BY <1>1
  <2>3. CASE q[1].lamp = l
    BY <1>1, <2>1, <2>2, <2>3 DEF Settles
  <2>4. CASE q[1].lamp # l
    <3>1. \A j \in DOMAIN q : q[j].lamp # l
      BY <1>1, <2>1, <2>4
    <3> QED BY <1>1, <2>4, <3>1 DEF Settles
  <2> QED BY <2>3, <2>4
<1> QED BY <1>3, <1>4 DEF Settles, rest

(* Between the update of the database and the command's entry in the queue  *)
(* the lamp's row is the worker's, if it has written it last ...            *)
WorkerOwes(l) ==
  /\ worker \in {"answer", "drive"} /\ buf_final.lamp = l
  /\ buf_final.value \notin Others /\ db_by[l] = "worker"

(* ... or the main loop's.                                                  *)
MainOwes(l) == main = "drive" /\ job.lamp = l /\ db_by[l] = "main"

(* The main loop handles a sensor event, whose command is still to come.    *)
Sensing == main \in {"find", "fetch", "mark", "drive"} /\ job.task # "feedback"

(* Each frame and each event brings one command, so that no queue is        *)
(* filled; and only a value that means something reaches the database.      *)
RoomInv ==
  /\ worker = "update" => buf_final.value \notin Others
  /\ frames \in Nat /\ frames <= MaxFrames /\ events \in Nat /\ events <= MaxEvents
  /\ main \in {"mark", "drive"} => job.task # "feedback"
  /\ Len(qy_write) + Len(qy_read) + (IF worker = "none" THEN 0 ELSE 1)
       + (IF Sensing THEN 1 ELSE 0) <= frames + events

(* A lamp ends at the level of the database, when what is queued for it has *)
(* been sent; or the thread that wrote its row is between database and      *)
(* queue; or it has strayed.                                                *)
SentFor(l) ==
  /\ WorkerOwes(l) => dimmer_db[l] = dimmer_value
  /\ MainOwes(l) => dimmer_db[l] = dim_value
  /\ \/ WorkerOwes(l) \/ MainOwes(l) \/ l \in strayed
     \/ Settles(qy_write, lamp[l], l, clo_qy_trans(dimmer_db[l]))

SentInv == \A l \in Lamps : SentFor(l)

(* The lengths and bounds are numbers.                                      *)
LEMMA Sizes ==
  ASSUME IInv
  PROVE  /\ qy_write \in Seq(Row) /\ Len(qy_write) \in Nat
         /\ qy_read \in Seq(Sensed) /\ Len(qy_read) \in Nat
         /\ lamp \in [Lamps -> Byte]
         /\ MaxFrames \in Nat /\ MaxEvents \in Nat /\ QUEUE_MAX \in Nat
<1>1. qy_write \in Seq(Row) /\ qy_read \in Seq(Sensed) /\ lamp \in [Lamps -> Byte]
  BY DEF IInv, ShapeInv, TypeOK
<1>2. Len(qy_write) \in Nat /\ Len(qy_read) \in Nat
  BY <1>1
<1>3. MaxFrames \in Nat /\ MaxEvents \in Nat /\ QUEUE_MAX \in Nat
  BY LightAssumption DEF LightAssumption
<1> QED BY <1>1, <1>2, <1>3

(* The reader, and the worker up to the queue.                              *)
LEMMA WorkerSent ==
  ASSUME IInv, RoomInv, SentInv, [Next]_vars,
         \/ get_valid_cbus_data \/ Unknown \/ Off \/ Restore \/ SaveNew \/ SaveTruncate
         \/ SaveRewrite \/ UpdateDb \/ QueueFrame
  PROVE  RoomInv' /\ SentInv'
<1> USE DEF IInv
<1>0. Len(qy_write) \in Nat /\ Len(qy_read) \in Nat /\ MaxFrames \in Nat
  BY Sizes
<1>1. CASE get_valid_cbus_data
  <2>1. /\ worker = "none" /\ worker' = "translate"
        /\ frames < MaxFrames /\ frames' = frames + 1
        /\ UNCHANGED <<database, qy_write, qy_read, lamp, mains, events>>
    BY <1>1 DEF get_valid_cbus_data, TypeOK, queues
  <2>2. RoomInv'
    BY <1>0, <2>1 DEF RoomInv, Sensing, mains
  <2>3. SentInv'
    BY <2>1 DEF SentInv, SentFor, WorkerOwes, MainOwes, mains
  <2> QED BY <2>2, <2>3
<1>2. CASE Unknown \/ Off \/ Restore \/ SaveNew \/ SaveTruncate \/ SaveRewrite
  <2>1. /\ worker \in {"translate", "rewrite"}
        /\ \/ worker' \in {"rewrite", "update"}
           \/ worker' = "answer" /\ buf_final.value \in Others
        /\ UNCHANGED <<buf_final, database, qy_write, qy_read, lamp, mains, frames, events>>
    <3>1. CASE Unknown
      BY <3>1 DEF Unknown, reader, queues, outside
    <3>2. CASE Off \/ Restore
      BY <3>2 DEF Off, Restore, reader, queues, outside
    <3>3. CASE SaveNew \/ SaveTruncate \/ SaveRewrite
      BY <3>3 DEF SaveNew, SaveTruncate, SaveRewrite, reader, queues, outside
    <3> QED BY <1>2, <3>1, <3>2, <3>3
  <2>4. worker' = "update" => buf_final'.value \notin Others
    <3>1. ASSUME worker' = "update"
          PROVE  buf_final.value \in 0 .. 100 \/ buf_final.value \in {SWITCH_OFF, RESTORE}
      BY <1>2, <3>1 DEF Unknown, Off, Restore, SaveNew, SaveTruncate, SaveRewrite, ShapeInv
    <3>2. \A o \in Others : o \notin 0 .. 100 /\ o # SWITCH_OFF /\ o # RESTORE
      <4>1. \A o \in Others : o \in 101 .. 255 /\ o \notin {SWITCH_OFF, RESTORE}
        BY LightAssumption DEF LightAssumption
      <4>2. \A o \in 101 .. 255 : o \notin 0 .. 100
        OBVIOUS
      <4> QED BY <4>1, <4>2
    <3> QED BY <2>1, <3>1, <3>2
  <2>2. RoomInv'
    BY <2>1, <2>4 DEF RoomInv, Sensing, mains
  <2>3. SentInv'
    BY <2>1 DEF SentInv, SentFor, WorkerOwes, MainOwes, mains
  <2> QED BY <2>2, <2>3
<1>3. CASE UpdateDb
  <2>1. /\ worker = "update" /\ worker' = "answer"
        /\ dimmer_db' = [dimmer_db EXCEPT ![buf_final.lamp] = dimmer_value]
        /\ db_by' = [db_by EXCEPT ![buf_final.lamp] = "worker"]
        /\ UNCHANGED <<buf_final, dimmer_value, strayed, qy_write, qy_read, lamp, mains,
                       frames, events>>
    BY <1>3 DEF UpdateDb, Set, reader, queues, outside
  <2>2. RoomInv'
    BY <2>1 DEF RoomInv, Sensing, mains
  <2>3. dimmer_db \in [Lamps -> Byte] /\ db_by \in [Lamps -> {"nobody", "worker", "main"}]
    BY DEF TypeOK
  <2>4. ASSUME NEW l \in Lamps PROVE SentFor(l)'
    <3>1. CASE buf_final.lamp = l
      <4>1. /\ worker' \in {"answer", "drive"} /\ buf_final'.lamp = l /\ db_by'[l] = "worker"
            /\ dimmer_db'[l] = dimmer_value'
        BY <2>1, <2>3, <3>1
      <4>2. buf_final.value \notin Others
        BY <2>1 DEF RoomInv
      <4> QED BY <2>1, <4>1, <4>2 DEF SentFor, WorkerOwes, MainOwes
    <3>2. CASE buf_final.lamp # l
      <4>1. dimmer_db'[l] = dimmer_db[l] /\ db_by'[l] = db_by[l]
        BY <2>1, <2>3, <3>2
      <4>2. SentFor(l)
        BY DEF SentInv
      <4> QED BY <2>1, <3>2, <4>1, <4>2 DEF SentFor, WorkerOwes, MainOwes, mains
    <3> QED BY <3>1, <3>2
  <2> QED BY <2>2, <2>4 DEF SentInv
<1>4. CASE QueueFrame
  <2>1. /\ worker = "answer" /\ worker' = "drive"
        /\ UNCHANGED <<buf_final, dimmer_value, database, qy_write, qy_read, lamp, mains,
                       frames, events>>
    BY <1>4 DEF QueueFrame, reader, outside
  <2>2. RoomInv'
    BY <2>1 DEF RoomInv, Sensing, mains
  <2>3. SentInv'
    BY <2>1 DEF SentInv, SentFor, WorkerOwes, MainOwes, mains
  <2> QED BY <2>2, <2>3
<1> QED BY <1>1, <1>2, <1>3, <1>4

(* A command enters the queue: the lamp agrees with its row if that was     *)
(* written for it, and has strayed otherwise.                               *)
LEMMA CommandSent ==
  ASSUME IInv, SentInv, Len(qy_write) < QUEUE_MAX - 1,
         NEW l \in Lamps, NEW v \in Byte, NEW other \in BOOLEAN,
         qy_write' = Enqueue(qy_write, LampLine(l, v)),
         strayed' = Stray(l, other), UNCHANGED <<dimmer_db, db_by, lamp>>,
         ~ other => dimmer_db[l] = v
  PROVE  /\ Len(qy_write') = Len(qy_write) + 1
         /\ l \in strayed' \/ Settles(qy_write', lamp'[l], l, clo_qy_trans(dimmer_db'[l]))
         /\ \A k \in Lamps \ {l} :
              /\ k \in strayed' <=> k \in strayed
              /\ Settles(qy_write, lamp[k], k, clo_qy_trans(dimmer_db[k])) =>
                   Settles(qy_write', lamp'[k], k, clo_qy_trans(dimmer_db'[k]))
<1> USE DEF IInv
<1> DEFINE row == LampLine(l, v)
<1>1. row \in Row /\ row.lamp = l /\ row.level = clo_qy_trans(v)
  BY LampLineType DEF LampLine
<1>2. qy_write \in Seq(Row) /\ Len(qy_write) \in Nat /\ QUEUE_MAX \in Nat
  BY Sizes
<1> HIDE DEF row
<1>3. qy_write' = Append(qy_write, row)
  BY <1>2 DEF Enqueue, row
<1>4. Len(qy_write') = Len(qy_write) + 1
  BY <1>1, <1>2, <1>3
<1>5. l \in strayed' \/ Settles(qy_write', lamp'[l], l, clo_qy_trans(dimmer_db'[l]))
  <2>1. CASE other
    BY <2>1 DEF Stray
  <2>2. CASE ~ other
    <3>1. row.level = clo_qy_trans(dimmer_db[l])
      BY <1>1, <2>2
    <3> QED BY <1>1, <1>2, <1>3, <3>1, SettlesAppend
  <2> QED BY <2>1, <2>2
<1>6. ASSUME NEW k \in Lamps \ {l}
      PROVE  /\ k \in strayed' <=> k \in strayed
             /\ Settles(qy_write, lamp[k], k, clo_qy_trans(dimmer_db[k])) =>
                  Settles(qy_write', lamp'[k], k, clo_qy_trans(dimmer_db'[k]))
  <2>1. row.lamp # k
    BY <1>1
  <2>2. k \in strayed' <=> k \in strayed
    BY DEF Stray
  <2> QED BY <1>1, <1>2, <1>3, <2>1, <2>2, SettlesAppend
<1> QED BY <1>4, <1>5, <1>6

(* The worker's command.                                                    *)
LEMMA QueueSent ==
  ASSUME MaxFrames + MaxEvents < QUEUE_MAX, IInv, RoomInv, SentInv, QueueCommand
  PROVE  RoomInv' /\ SentInv'
<1> USE DEF IInv
<1> DEFINE b == buf_final.lamp
           other == buf_final.value \in Others \/ db_by[b] # "worker"
<1>1. /\ worker = "drive" /\ worker' = "none"
      /\ qy_write' = Enqueue(qy_write, LampLine(b, dimmer_value))
      /\ strayed' = Stray(b, other)
      /\ UNCHANGED <<buf_final, dimmer_db, db_by, lamp, qy_read, mains, frames, events>>
  BY DEF QueueCommand, outside
<1>2. b \in Lamps /\ dimmer_value \in Byte
  BY <1>1, WorkerTypes
<1>0. /\ Len(qy_write) \in Nat /\ Len(qy_read) \in Nat /\ QUEUE_MAX \in Nat
      /\ MaxFrames \in Nat /\ MaxEvents \in Nat
  BY Sizes
<1>3. Len(qy_write) < QUEUE_MAX - 1
  BY <1>0, <1>1 DEF RoomInv
<1>4. ~ other => dimmer_db[b] = dimmer_value
  BY <1>1, <1>2 DEF SentInv, SentFor, WorkerOwes
<1>5. other \in BOOLEAN
  OBVIOUS
<1> HIDE DEF other, b
<1>6. /\ Len(qy_write') = Len(qy_write) + 1
      /\ b \in strayed' \/ Settles(qy_write', lamp'[b], b, clo_qy_trans(dimmer_db'[b]))
      /\ \A k \in Lamps \ {b} :
           /\ k \in strayed' <=> k \in strayed
           /\ Settles(qy_write, lamp[k], k, clo_qy_trans(dimmer_db[k])) =>
                Settles(qy_write', lamp'[k], k, clo_qy_trans(dimmer_db'[k]))
  BY <1>1, <1>2, <1>3, <1>4, <1>5, CommandSent DEF IInv
<1>7. RoomInv'
  BY <1>0, <1>1, <1>6 DEF RoomInv, Sensing, mains
<1>8. ASSUME NEW l \in Lamps PROVE SentFor(l)'
  <2>1. SentFor(l)
    BY DEF SentInv
  <2>2. ~ WorkerOwes(l)'
    BY <1>1 DEF WorkerOwes
  <2>3. MainOwes(l)' <=> MainOwes(l)
    BY <1>1 DEF MainOwes, mains
  <2>4. dimmer_db' = dimmer_db /\ dim_value' = dim_value
    BY <1>1 DEF mains
  <2>5. CASE l = b
    BY <1>6, <2>1, <2>2, <2>3, <2>4, <2>5 DEF SentFor
  <2>6. CASE l # b
    <3>1. ~ WorkerOwes(l)
      BY <2>6 DEF WorkerOwes, b
    <3> QED BY <1>6, <2>1, <2>2, <2>3, <2>4, <2>6, <3>1 DEF SentFor
  <2> QED BY <2>5, <2>6
<1> QED BY <1>7, <1>8 DEF SentInv

(* The main loop.                                                           *)
LEMMA MainSent ==
  ASSUME MaxFrames + MaxEvents < QUEUE_MAX, IInv, RoomInv, SentInv, get_handle
  PROVE  RoomInv' /\ SentInv'
<1> USE DEF IInv
<1>0. /\ Len(qy_write) \in Nat /\ Len(qy_read) \in Nat /\ QUEUE_MAX \in Nat
      /\ MaxFrames \in Nat /\ MaxEvents \in Nat
  BY Sizes
<1>a. main \notin {"clowire", "qiyuan"} => job \in Job
  BY DEF ShapeInv
<1>1. CASE TakeFrame \/ NoFrame \/ NoEvent \/ Report
  <2>1. /\ main \notin {"mark", "drive"} /\ main' \notin {"mark", "drive"}
        /\ ~ Sensing'
        /\ UNCHANGED <<workers, buf_final, database, qy_write, qy_read, lamp, frames, events>>
    <3>1. CASE TakeFrame
      <4>1. main' \in {"report", "find"} /\ job'.task = "feedback"
        BY <3>1 DEF TakeFrame
      <4> QED BY <3>1, <4>1 DEF TakeFrame, Sensing, reader, outside
    <3>2. CASE NoFrame \/ NoEvent \/ Report
      <4>1. main' \in {"clowire", "qiyuan"}
        BY <1>a, <3>2 DEF NoFrame, NoEvent, Report, Job
      <4> QED BY <3>2, <4>1 DEF NoFrame, NoEvent, Report, Sensing, reader, queues, outside
    <3> QED BY <1>1, <3>1, <3>2
  <2>2. RoomInv'
    BY <1>0, <2>1 DEF RoomInv, workers
  <2>3. SentInv'
    BY <2>1 DEF SentInv, SentFor, WorkerOwes, MainOwes, workers
  <2> QED BY <2>2, <2>3
<1>2. CASE TakeEvent
  <2>1. /\ main = "qiyuan" /\ main' \in {"find", "mark"} /\ job'.task # "feedback"
        /\ UNCHANGED <<workers, buf_final, database, qy_write, lamp, frames, events>>
        /\ qy_read # <<>> /\ qy_read' = Tail(qy_read)
    <3>1. \/ /\ job' = [lamp |-> Head(qy_read).lamp, task |-> "restore", from |-> "qiyuan"]
             /\ main' = "find"
          \/ /\ job' = [lamp |-> Head(qy_read).lamp, task |-> "switch off", from |-> "qiyuan"]
             /\ main' = "mark"
      BY <1>2 DEF TakeEvent
    <3>2. main' \in {"find", "mark"} /\ job'.task # "feedback"
      <4>1. CASE /\ job' = [lamp |-> Head(qy_read).lamp, task |-> "restore", from |-> "qiyuan"]
                 /\ main' = "find"
        BY <4>1
      <4>2. CASE /\ job' = [lamp |-> Head(qy_read).lamp, task |-> "switch off", from |-> "qiyuan"]
                 /\ main' = "mark"
        BY <4>2
      <4> QED BY <3>1, <4>1, <4>2
    <3>3. /\ main = "qiyuan" /\ qy_read # <<>> /\ qy_read' = Tail(qy_read)
          /\ UNCHANGED <<workers, buf_final, database, qy_write, lamp, frames, events>>
      BY <1>2 DEF TakeEvent, reader, outside
    <3> QED BY <3>2, <3>3
  <2>2. Len(qy_read') = Len(qy_read) - 1
    BY <1>0, <2>1, HeadTailType DEF ShapeInv, TypeOK
  <2>3. RoomInv'
    BY <1>0, <2>1, <2>2 DEF RoomInv, Sensing, workers
  <2>4. SentInv'
    BY <2>1 DEF SentInv, SentFor, WorkerOwes, MainOwes, workers
  <2> QED BY <2>3, <2>4
<1>3. CASE Find \/ Fetch
  <2>1. /\ main \in {"find", "fetch"} /\ main' \in {"fetch", Parsed}
        /\ UNCHANGED <<workers, buf_final, database, qy_write, qy_read, lamp, job, frames, events>>
    BY <1>3 DEF Find, Fetch, reader, queues, outside
  <2>2. /\ main' # "drive"
        /\ main' = "mark" => job.task # "feedback"
        /\ Sensing' <=> Sensing
    BY <2>1 DEF Parsed, Sensing
  <2>3. RoomInv'
    BY <2>1, <2>2 DEF RoomInv, workers
  <2>4. SentInv'
    BY <2>1, <2>2 DEF SentInv, SentFor, WorkerOwes, MainOwes, workers
  <2> QED BY <2>3, <2>4
<1>4. CASE Mark
  <2>1. /\ main = "mark" /\ main' = "drive"
        /\ dimmer_db' = [dimmer_db EXCEPT ![job.lamp] = dim_value]
        /\ db_by' = [db_by EXCEPT ![job.lamp] = "main"]
        /\ UNCHANGED <<workers, buf_final, strayed, qy_write, qy_read, lamp, job, dim_value,
                       frames, events>>
    BY <1>4 DEF Mark, Set, reader, queues, outside
  <2>2. RoomInv'
    BY <2>1 DEF RoomInv, Sensing, workers
  <2>3. dimmer_db \in [Lamps -> Byte] /\ db_by \in [Lamps -> {"nobody", "worker", "main"}]
    BY DEF TypeOK
  <2>4. ASSUME NEW l \in Lamps PROVE SentFor(l)'
    <3>1. CASE job.lamp = l
      <4>1. /\ main' = "drive" /\ job'.lamp = l /\ db_by'[l] = "main"
            /\ dimmer_db'[l] = dim_value'
        BY <2>1, <2>3, <3>1
      <4> QED BY <4>1 DEF SentFor, WorkerOwes, MainOwes
    <3>2. CASE job.lamp # l
      <4>1. dimmer_db'[l] = dimmer_db[l] /\ db_by'[l] = db_by[l]
        BY <2>1, <2>3, <3>2
      <4>2. SentFor(l)
        BY DEF SentInv
      <4> QED BY <2>1, <3>2, <4>1, <4>2 DEF SentFor, WorkerOwes, MainOwes, workers
    <3> QED BY <3>1, <3>2
  <2> QED BY <2>2, <2>4 DEF SentInv
<1>5. CASE Drive
  <2> DEFINE b == job.lamp
             other == db_by[b] # "main"
  <2>1. /\ main = "drive" /\ main' \in {"find", "report"} /\ job'.task = "feedback"
        /\ qy_write' = Enqueue(qy_write, LampLine(b, dim_value))
        /\ strayed' = Stray(b, other)
        /\ UNCHANGED <<workers, buf_final, dimmer_db, db_by, lamp, qy_read, frames, events>>
    BY <1>5, <1>a DEF Drive, reader, outside, Job
  <2>2. b \in Lamps /\ dim_value \in Byte
    BY <1>a, <2>1 DEF Job, TypeOK
  <2>3. Len(qy_write) < QUEUE_MAX - 1
    BY <1>0, <2>1 DEF RoomInv, Sensing
  <2>4. ~ other => dimmer_db[b] = dim_value
    BY <2>1, <2>2 DEF SentInv, SentFor, MainOwes
  <2>5. other \in BOOLEAN
    OBVIOUS
  <2> HIDE DEF other, b
  <2>6. /\ Len(qy_write') = Len(qy_write) + 1
        /\ b \in strayed' \/ Settles(qy_write', lamp'[b], b, clo_qy_trans(dimmer_db'[b]))
        /\ \A k \in Lamps \ {b} :
             /\ k \in strayed' <=> k \in strayed
             /\ Settles(qy_write, lamp[k], k, clo_qy_trans(dimmer_db[k])) =>
                  Settles(qy_write', lamp'[k], k, clo_qy_trans(dimmer_db'[k]))
    BY <2>1, <2>2, <2>3, <2>4, <2>5, CommandSent DEF IInv
  <2>7. RoomInv'
    BY <1>0, <2>1, <2>6 DEF RoomInv, Sensing, workers
  <2>8. ASSUME NEW l \in Lamps PROVE SentFor(l)'
    <3>1. SentFor(l)
      BY DEF SentInv
    <3>2. ~ MainOwes(l)'
      BY <2>1 DEF MainOwes
    <3>3. WorkerOwes(l)' <=> WorkerOwes(l)
      BY <2>1 DEF WorkerOwes, workers
    <3>4. dimmer_db' = dimmer_db /\ dimmer_value' = dimmer_value
      BY <2>1 DEF workers
    <3>5. CASE l = b
      BY <2>6, <3>1, <3>2, <3>3, <3>4, <3>5 DEF SentFor
    <3>6. CASE l # b
      <4>1. ~ MainOwes(l)
        BY <3>6 DEF MainOwes, b
      <4> QED BY <2>6, <3>1, <3>2, <3>3, <3>4, <3>6, <4>1 DEF SentFor
    <3> QED BY <3>5, <3>6
  <2> QED BY <2>7, <2>8 DEF SentInv
<1> QED BY <1>1, <1>2, <1>3, <1>4, <1>5 DEF get_handle

(* The ports.                                                               *)
LEMMA PortsSent ==
  ASSUME IInv, RoomInv, SentInv,
         \/ data_to_clo_thread \/ trans_serial_write \/ general_serial_write
         \/ UNCHANGED vars
  PROVE  RoomInv' /\ SentInv'
<1> USE DEF IInv
<1>0. /\ Len(qy_write) \in Nat /\ Len(qy_read) \in Nat /\ MaxEvents \in Nat
      /\ qy_write \in Seq(Row) /\ lamp \in [Lamps -> Byte]
  BY Sizes
<1>1. CASE data_to_clo_thread
  <2>1. PICK l \in Lamps, e \in Events :
          qy_read' = Enqueue(qy_read, [lamp |-> l, event |-> e])
    BY <1>1 DEF data_to_clo_thread
  <2>2. /\ events < MaxEvents /\ events' = events + 1
        /\ UNCHANGED <<reader, workers, mains, database, qy_write, lamp, frames>>
    BY <1>1 DEF data_to_clo_thread
  <2>3. Len(qy_read') <= Len(qy_read) + 1 /\ Len(qy_read') \in Nat
    <3>1. qy_read \in Seq(Sensed) /\ [lamp |-> l, event |-> e] \in Sensed
      BY DEF ShapeInv, Sensed
    <3> QED BY <2>1, <3>1 DEF Enqueue
  <2>4. RoomInv'
    BY <1>0, <2>2, <2>3 DEF RoomInv, Sensing, reader, workers, mains
  <2>5. SentInv'
    BY <2>2 DEF SentInv, SentFor, WorkerOwes, MainOwes, reader, workers, mains
  <2> QED BY <2>4, <2>5
<1>2. CASE trans_serial_write
  <2>1. /\ qy_write # <<>> /\ qy_write' = Tail(qy_write)
        /\ lamp' = [lamp EXCEPT ![Head(qy_write).lamp] = Head(qy_write).level]
        /\ UNCHANGED <<reader, workers, mains, database, qy_read, frames, events>>
    BY <1>2 DEF trans_serial_write, Set
  <2>2. Len(qy_write') = Len(qy_write) - 1
    BY <1>0, <2>1
  <2>3. RoomInv'
    BY <1>0, <2>1, <2>2 DEF RoomInv, Sensing, reader, workers, mains
  <2>4. ASSUME NEW l \in Lamps, Settles(qy_write, lamp[l], l, clo_qy_trans(dimmer_db[l]))
        PROVE  Settles(qy_write', lamp'[l], l, clo_qy_trans(dimmer_db[l]))
    <3>1. lamp'[l] = IF Head(qy_write).lamp = l THEN Head(qy_write).level ELSE lamp[l]
      BY <1>0, <2>1
    <3> QED BY <1>0, <2>1, <2>4, <3>1, SettlesTail
  <2>5. ASSUME NEW l \in Lamps PROVE SentFor(l)'
    <3>1. SentFor(l)
      BY DEF SentInv
    <3>2. (WorkerOwes(l)' <=> WorkerOwes(l)) /\ (MainOwes(l)' <=> MainOwes(l))
      BY <2>1 DEF WorkerOwes, MainOwes, reader, workers, mains
    <3> QED BY <2>1, <2>4, <3>1, <3>2 DEF SentFor, workers, mains
  <2> QED BY <2>3, <2>5 DEF SentInv
<1>3. CASE general_serial_write \/ UNCHANGED vars
  <2>1. UNCHANGED <<reader, workers, mains, database, qy_write, qy_read, lamp, frames, events>>
    BY <1>3 DEF general_serial_write, vars, queues, outside
  <2> QED BY <2>1 DEF RoomInv, Sensing, SentInv, SentFor, WorkerOwes, MainOwes, reader, workers,
                      mains
<1> QED BY <1>1, <1>2, <1>3

(* Every step keeps the queue, the database and the lamps in agreement.     *)
LEMMA NextSent ==
  ASSUME MaxFrames + MaxEvents < QUEUE_MAX, IInv, RoomInv, SentInv, [Next]_vars
  PROVE  RoomInv' /\ SentInv'
BY WorkerSent, QueueSent, MainSent, PortsSent DEF Next, data_to_other_thread

(* At rest every lamp stands at the level dimmer.db has for it, in whatever *)
(* order the worker, the main loop and the write threads ran, if its last   *)
(* command was one the database was written for.                            *)
THEOREM DbTracksLamps ==
  MaxFrames + MaxEvents < QUEUE_MAX => (Spec => []DbTracksDevice)
<1> SUFFICES ASSUME MaxFrames + MaxEvents < QUEUE_MAX PROVE Spec => []DbTracksDevice
  OBVIOUS
<1>1. Init => RoomInv /\ SentInv
  <2> SUFFICES ASSUME Init PROVE RoomInv /\ SentInv
    OBVIOUS
  <2>1. clo_qy_trans(0) = 0
    BY DEF clo_qy_trans, UCHAR, FloatShort
  <2>2. RoomInv
    BY LightAssumption DEF Init, Sensing, RoomInv, LightAssumption
  <2>3. SentInv
    BY <2>1 DEF Init, SentInv, SentFor, WorkerOwes, MainOwes, Settles
  <2> QED BY <2>2, <2>3
<1>2. IInv /\ RoomInv /\ SentInv /\ [Next]_vars => RoomInv' /\ SentInv'
  BY NextSent
<1>3. IInv /\ SentInv => DbTracksDevice
  <2> SUFFICES ASSUME IInv, SentInv, Quiescent, NEW l \in Lamps \ strayed
               PROVE  lamp[l] = clo_qy_trans(dimmer_db[l])
    BY DEF DbTracksDevice
  <2>1. qy_write = <<>> /\ worker = "none" /\ main # "drive"
    BY DEF Quiescent, IInv, TypeOK
  <2>2. Settles(qy_write, lamp[l], l, clo_qy_trans(dimmer_db[l]))
    BY <2>1 DEF SentInv, SentFor, WorkerOwes, MainOwes
  <2> QED BY <2>1, <2>2 DEF Settles
<1> QED BY <1>1, <1>2, <1>3, Inductive, PTL DEF Spec

================================================================================
