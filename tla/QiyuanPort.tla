------------------------------- MODULE QiyuanPort -------------------------------
(****************************************************************************)
(* The Qiyuan port (/dev/ttyS10) of interface/Serial/serial.c: the reader   *)
(* with its select, the hand-over of a frame, the write thread that waits   *)
(* for write_flag, and the threads that delay_sec and wait_seconds run in.  *)
(* The Clowire port is read and written under the same flag.                *)
(*                                                                          *)
(* Time has two scales: units of the select timeout (a Quiet-th of 80 ms),  *)
(* and seconds.  Neither is tied to the other or to the threads, which may  *)
(* be late for any of them.                                                 *)
(****************************************************************************)
EXTENDS Filtering, Integers, FiniteSets

CONSTANTS
  Lamps, Values, Delays,
  Threads,   (* the threads for delays                                      *)
  Quiet,     (* DELAYTIME, in units                                         *)
  Blank,     (* a row that is no command: scenes have them for sensors      *)
  NoRow,
  MaxRows,   (* bound: rows that are put into queue_write                   *)
  MaxBytes   (* bound: arrivals on the bus                                  *)

Rows == [lamp : Lamps, value : Values, delay : Delays]

ASSUME PortAssumption ==
  /\ 0 \in Values \cap Delays /\ Delays \subseteq 0 .. 255 /\ MaxRows <= Cardinality(Threads)
  /\ Blank \notin Rows /\ NoRow \notin Rows \cup {Blank}
  /\ Quiet \in Nat \ {0} /\ MaxRows \in Nat /\ MaxBytes \in Nat

VARIABLES
  level,        (* the value each lamp was last sent                        *)
  queue_write, rows,
  writer,       (* where the write thread is: dequeue, wait, send           *)
  data,         (* the row it has                                           *)
  thread,       (* a delay's thread: free, or asleep, or about to report    *)
  reported,     (* lamps whose switching off at the end was reported        *)
  write_flag,
  reader,       (* where the reader is: select, collect                     *)
  unread,       (* there are bytes to read                                  *)
  timeout,      (* what is left in the struct that select is given          *)
  silent,       (* for how long nothing has come                            *)
  p_flag,       (* a worker has a frame                                     *)
  bytes

lamps  == <<level, queue_write, rows, writer, data, thread, reported>>
bus    == <<write_flag, reader, unread, timeout, silent, p_flag, bytes>>
vars   == <<lamps, bus>>

Row(lamp, value, delay) == [lamp |-> lamp, value |-> value, delay |-> delay]

Free == [pc |-> "free", row |-> NoRow, left |-> 0]

Init ==
  /\ level = [l \in Lamps |-> 0]
  /\ queue_write = <<>> /\ rows = 0
  /\ writer = "dequeue" /\ data = NoRow
  /\ thread = [t \in Threads |-> Free]
  /\ reported = {}
  /\ write_flag = FALSE
  /\ reader = "select" /\ unread = FALSE /\ timeout = Quiet /\ silent = 0
  /\ p_flag = FALSE /\ bytes = 0

--------------------------------------------------------------------------------
(* The reader.                                                              *)

(* Something comes in on the bus.                                           *)
Arrive ==
  /\ bytes < MaxBytes
  /\ bytes' = bytes + 1
  /\ unread' = TRUE /\ silent' = 0
  /\ UNCHANGED <<lamps, write_flag, reader, timeout, p_flag>>

(* A unit of time.  select counts its struct down while it waits.           *)
Pass ==
  /\ silent' = IF silent < Quiet THEN silent + 1 ELSE Quiet
  /\ timeout' = IF reader = "select" /\ ~ unread /\ timeout > 0 THEN timeout - 1 ELSE timeout
  /\ UNCHANGED <<lamps, write_flag, reader, unread, p_flag, bytes>>

(* select returns 0.  Nothing sets the struct again: from the first time on *)
(* select does not wait.                                                    *)
TimeOut ==
  /\ reader = "select" /\ ~ unread /\ timeout = 0
  /\ write_flag' = TRUE
  /\ UNCHANGED <<lamps, reader, unread, timeout, silent, p_flag, bytes>>

(* select returns more than 0, and the bytes are read.                      *)
trans_serial_read ==
  /\ reader = "select" /\ unread
  /\ write_flag' = FALSE
  /\ unread' = FALSE
  /\ reader' = "collect"
  /\ UNCHANGED <<lamps, timeout, silent, p_flag, bytes>>

(* The busy loop on p_flag ends, and what was read completes a frame, whose *)
(* worker is started, or not.                                               *)
Collect ==
  /\ reader = "collect" /\ ~ p_flag
  /\ p_flag' \in BOOLEAN
  /\ reader' = "select"
  /\ UNCHANGED <<lamps, write_flag, unread, timeout, silent, bytes>>

BrokenKeepsFlag ==
  /\ p_flag
  /\ UNCHANGED vars

(* The worker queues the frame for the main loop.                           *)
data_to_clo_thread ==
  /\ p_flag
  /\ p_flag' = FALSE
  /\ UNCHANGED <<lamps, write_flag, reader, unread, timeout, silent, bytes>>

--------------------------------------------------------------------------------
(* The write thread and its helpers.                                        *)

(* The worker of the other port, or the main loop, queues a row.            *)
qy_enqueue ==
  /\ rows < MaxRows
  /\ rows' = rows + 1
  /\ \E row \in Rows \cup {Blank} : queue_write' = Append(queue_write, row)
  /\ UNCHANGED <<level, writer, data, thread, reported, bus>>

(* A row that is no command is dropped.                                     *)
qy_dequeue ==
  /\ writer = "dequeue" /\ queue_write # <<>>
  /\ queue_write' = Tail(queue_write)
  /\ IF Head(queue_write) = Blank
     THEN UNCHANGED <<writer, data>>
     ELSE writer' = "wait" /\ data' = Head(queue_write)
  /\ UNCHANGED <<level, rows, thread, reported, bus>>

(* Any row waits for the flag, also one that is only given to a thread.     *)
AwaitFlag ==
  /\ writer = "wait" /\ write_flag
  /\ writer' = "send"
  /\ UNCHANGED <<level, queue_write, rows, data, thread, reported, bus>>

(* pthread_create.                                                          *)
Sleep(seconds, pc, row) == \E t \in Threads :
  /\ thread[t] = Free
  /\ thread' = [thread EXCEPT ![t] = [pc |-> pc, row |-> row, left |-> seconds]]

Write == level' = [level EXCEPT ![data.lamp] = data.value]

SendNow ==
  /\ data.delay = 0
  /\ Write
  /\ UNCHANGED <<thread, reported>>

SendLater ==
  /\ data.delay \in 1 .. 127
  /\ Sleep(data.delay, "delay_sec", Row(data.lamp, data.value, 0))
  /\ UNCHANGED <<level, reported>>

BrokenBackValue(row) == row.value

(* The value of the second command, in wait_seconds.  The recorded value is *)
(* compared (==) where it should be assigned: off remains off.              *)
BackValue(row) == 0

BrokenSendForAWhile ==
  /\ data.delay > 127
  /\ Write
  /\ Sleep(data.delay, "wait_seconds", Row(data.lamp, BackValue(data), 0))
  /\ reported' = reported \ {data.lamp}

SendForAWhile ==
  /\ data.delay > 127
  /\ Write
  /\ Sleep(data.delay - 128, "wait_seconds", Row(data.lamp, BackValue(data), 0))
  /\ reported' = reported \ {data.lamp}

trans_serial_write ==
  /\ writer = "send"
  /\ writer' = "dequeue" /\ data' = NoRow
  /\ SendNow \/ SendLater \/ SendForAWhile
  /\ UNCHANGED <<queue_write, rows, bus>>

Sleeping(t) == thread[t].pc \in {"delay_sec", "wait_seconds"}

Second ==
  /\ \E t \in Threads : thread[t].left > 0
  /\ thread' = [t \in Threads |->
                  [thread[t] EXCEPT !.left = IF @ > 0 THEN @ - 1 ELSE 0]]
  /\ UNCHANGED <<level, queue_write, rows, writer, data, reported, bus>>

(* sleep has returned: the second command is queued.                        *)
delay_sec(t) ==
  /\ thread[t].pc = "delay_sec" /\ thread[t].left = 0
  /\ queue_write' = Append(queue_write, thread[t].row)
  /\ thread' = [thread EXCEPT ![t] = Free]
  /\ UNCHANGED <<level, rows, writer, data, reported, bus>>

BrokenEndsUnreported(t) ==
  /\ thread[t].pc = "wait_seconds" /\ thread[t].left = 0
  /\ queue_write' = Append(queue_write, thread[t].row)
  /\ thread' = [thread EXCEPT ![t] = Free]
  /\ UNCHANGED <<level, rows, writer, data, reported, bus>>

wait_seconds(t) ==
  /\ thread[t].pc = "wait_seconds" /\ thread[t].left = 0
  /\ queue_write' = Append(queue_write, thread[t].row)
  /\ thread' = [thread EXCEPT ![t].pc = "feed_back"]
  /\ UNCHANGED <<level, rows, writer, data, reported, bus>>

(* The report to the Clowire side; then the thread ends.                    *)
feed_back(t) ==
  /\ thread[t].pc = "feed_back"
  /\ reported' = reported \cup {thread[t].row.lamp}
  /\ thread' = [thread EXCEPT ![t] = Free]
  /\ UNCHANGED <<level, queue_write, rows, writer, data, bus>>

Reader == TimeOut \/ trans_serial_read \/ Collect
Writer == qy_dequeue \/ AwaitFlag \/ trans_serial_write
Helper(t) == delay_sec(t) \/ wait_seconds(t) \/ feed_back(t)

Next ==
  \/ Arrive \/ Pass \/ Reader \/ data_to_clo_thread
  \/ qy_enqueue \/ Writer \/ Second \/ \E t \in Threads : Helper(t)

(* Time passes, and no thread is stopped for ever.  Nobody has to send.     *)
Fairness ==
  /\ WF_vars(Pass) /\ WF_vars(Second)
  /\ WF_vars(Reader) /\ WF_vars(data_to_clo_thread) /\ WF_vars(Writer)
  /\ \A t \in Threads : WF_vars(Helper(t))

Spec == Init /\ [][Next]_vars /\ Fairness

--------------------------------------------------------------------------------
(* Properties.                                                              *)

(* Type invariant.                                                          *)
TypeOK ==
  /\ level \in [Lamps -> Values]
  /\ queue_write \in Seq(Rows \cup {Blank}) /\ rows \in 0 .. MaxRows
  /\ writer \in {"dequeue", "wait", "send"}
  /\ data \in Rows \cup {NoRow} /\ (writer = "dequeue" <=> data = NoRow)
  /\ thread \in [Threads -> [pc : {"free", "delay_sec", "wait_seconds", "feed_back"},
                             row : Rows \cup {NoRow}, left : 0 .. 127]]
  /\ reported \subseteq Lamps
  /\ write_flag \in BOOLEAN /\ unread \in BOOLEAN /\ p_flag \in BOOLEAN
  /\ reader \in {"select", "collect"}
  /\ timeout \in 0 .. Quiet /\ silent \in 0 .. Quiet
  /\ bytes \in 0 .. MaxBytes

(* What the lamps are sent is what DelayedLamps says: rows in the order of  *)
(* the queue, none lost, changed or sent early, and what was switched on    *)
(* for a while ends off.                                                    *)
Commands == Filter(queue_write, Rows)

Lamp == INSTANCE DelayedLamps WITH
  Clocks <- Threads,
  Off    <- NoRow,
  line   <- IF data = NoRow THEN Commands ELSE <<data>> \o Commands,
  clocks <- [t \in Threads |->
               IF Sleeping(t) THEN [next |-> thread[t].row, left |-> thread[t].left]
               ELSE [next |-> NoRow, left |-> 0]]

ImplementsDelayedLamps == Lamp!Spec

(* Rows do not stay in the queue or with a thread: the bus does fall silent *)
(* (arrivals are bounded), then write_flag is set, whatever the reader and  *)
(* its worker were doing, and every delay ends.                             *)
EveryRowHandled == []<>(
  /\ queue_write = <<>> /\ writer = "dequeue"
  /\ \A t \in Threads : thread[t] = Free)

(* The Clowire side is told of every switching off at the end of a while.   *)
SwitchOffReported == \A t \in Threads, l \in Lamps :
  thread[t].pc = "wait_seconds" /\ thread[t].row.lamp = l ~> l \in reported

(* "Make sure that nothing has been read on the bus for some time before    *)
(* sending" (serial.c:579, also 475): when write_flag is set, the bus has   *)
(* been silent for a time, however short.                                   *)
QuietBeforeSend == [][write_flag' /\ ~ write_flag => silent > 0]_vars

================================================================================
