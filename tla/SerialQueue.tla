------------------------------ MODULE SerialQueue ------------------------------
(****************************************************************************)
(* interface/Serial/queue.c: the circular buffer between a serial port and  *)
(* the rest of the gateway.  Every port has two of them (queue_read and     *)
(* queue_write), shared by its reader or writer thread, the frame handler   *)
(* threads, the main loop and the delayed-action threads.                   *)
(*                                                                          *)
(* A call takes the queue's mutex, looks at the two pointers, and copies    *)
(* one row (cbus_enqueue) or line_num rows (qy_enqueue), moving the write   *)
(* pointer after each row.  The copy and the move are steps of their own,   *)
(* so that what the mutex is for can be checked and not assumed.            *)
(****************************************************************************)
EXTENDS Naturals, Sequences

CONSTANTS
  Producers,  (* threads that enqueue                                       *)
  Consumers,  (* threads that dequeue: the write thread or the main loop    *)
  Lines,      (* the rows that can be queued                                *)
  QUEUE_MAX,  (* rows of the ring                                           *)
  MaxLines,   (* bound: the largest line_num a caller passes to qy_enqueue  *)
  NoThread, NoLine

ASSUME SerialQueueAssumption ==
  /\ QUEUE_MAX \in Nat \ {0, 1}
  /\ MaxLines \in Nat \ {0}
  /\ Producers \cap Consumers = {}
  /\ NoThread \notin Producers \cup Consumers
  /\ NoLine \notin Lines

VARIABLES
  data,         (* rows of the ring                                         *)
  r_pointer,    (* next row to take                                         *)
  w_pointer,    (* next row to fill                                         *)
  queue_mutex,  (* the thread that holds the mutex, or NoThread             *)
  pc,           (* how far each thread is in its call, "out" between calls  *)
  buf,          (* the caller's rows that are still to be copied            *)
  got           (* the row each consumer's last successful call handed out  *)

ring == <<data, r_pointer, w_pointer>>
vars == <<data, r_pointer, w_pointer, queue_mutex, pc, buf, got>>

Threads == Producers \cup Consumers
Slots   == 0 .. QUEUE_MAX - 1
Batches == UNION {[1 .. n -> Lines] : n \in 0 .. MaxLines}

(* The successor of a pointer.                                              *)
BrokenNextSlotNoWrap(p) == p + 1
NextSlot(p) == (p + 1) % QUEUE_MAX

(* The C functions return 0 for "yes": these are the answers they mean.     *)
is_queue_full  == NextSlot(w_pointer) = r_pointer
is_queue_empty == w_pointer = r_pointer

--------------------------------------------------------------------------------

(* queue_int, before any thread that uses the queue exists.                 *)
queue_int ==
  /\ data = [s \in Slots |-> NoLine]
  /\ r_pointer = 0
  /\ w_pointer = 0
  /\ queue_mutex = NoThread

Init ==
  /\ queue_int
  /\ pc = [t \in Threads |-> "out"]
  /\ buf = [p \in Producers |-> <<>>]
  /\ got = [c \in Consumers |-> NoLine]

BrokenLockIgnored(t) ==
  /\ pc[t] = "out"
  /\ queue_mutex' = t
  /\ pc' = [pc EXCEPT ![t] = "check"]

pthread_mutex_lock(t) ==
  /\ pc[t] = "out"
  /\ queue_mutex = NoThread
  /\ queue_mutex' = t
  /\ pc' = [pc EXCEPT ![t] = "check"]

pthread_mutex_unlock(t) ==
  /\ queue_mutex' = NoThread
  /\ pc' = [pc EXCEPT ![t] = "out"]

Goto(t, place) ==
  /\ pc' = [pc EXCEPT ![t] = place]
  /\ UNCHANGED queue_mutex

(* cbus_enqueue has one row to store, qy_enqueue has line_num of them; a    *)
(* scene nobody configured makes qy_enqueue's line_num 0.                   *)
cbus_enqueue(p) ==
  /\ pthread_mutex_lock(p)
  /\ \E line \in Lines : buf' = [buf EXCEPT ![p] = <<line>>]
  /\ UNCHANGED <<ring, got>>

qy_enqueue(p) ==
  /\ pthread_mutex_lock(p)
  /\ \E rows \in Batches : buf' = [buf EXCEPT ![p] = rows]
  /\ UNCHANGED <<ring, got>>

(* Full: the call returns -1 and nothing is stored.                         *)
Refuse(p) ==
  /\ pc[p] = "check"
  /\ is_queue_full
  /\ buf' = [buf EXCEPT ![p] = <<>>]
  /\ pthread_mutex_unlock(p)
  /\ UNCHANGED <<ring, got>>

(* The room is looked at once, before the first row.                        *)
Accept(p) ==
  /\ pc[p] = "check"
  /\ ~ is_queue_full
  /\ Goto(p, "copy")
  /\ UNCHANGED <<ring, buf, got>>

CopyRow(p) ==
  /\ pc[p] = "copy"
  /\ buf[p] # <<>>
  /\ data' = [data EXCEPT ![w_pointer] = Head(buf[p])]
  /\ Goto(p, "advance")
  /\ UNCHANGED <<r_pointer, w_pointer, buf, got>>

Advance(p) ==
  /\ pc[p] = "advance"
  /\ w_pointer' = NextSlot(w_pointer)
  /\ buf' = [buf EXCEPT ![p] = Tail(@)]
  /\ Goto(p, "copy")
  /\ UNCHANGED <<data, r_pointer, got>>

(* Every row is stored: the call returns 0.                                 *)
Return(p) ==
  /\ pc[p] = "copy"
  /\ buf[p] = <<>>
  /\ pthread_mutex_unlock(p)
  /\ UNCHANGED <<ring, buf, got>>

(* cbus_dequeue and qy_dequeue differ in how they find the row's length.    *)
Dequeue(c) ==
  /\ pthread_mutex_lock(c)
  /\ UNCHANGED <<ring, buf, got>>

NothingThere(c) ==
  /\ pc[c] = "check"
  /\ is_queue_empty
  /\ pthread_mutex_unlock(c)
  /\ UNCHANGED <<ring, buf, got>>

TakeRow(c) ==
  /\ pc[c] = "check"
  /\ ~ is_queue_empty
  /\ got' = [got EXCEPT ![c] = data[r_pointer]]
  /\ r_pointer' = NextSlot(r_pointer)
  /\ pthread_mutex_unlock(c)
  /\ UNCHANGED <<data, w_pointer, buf>>

Producer(p) ==
  \/ cbus_enqueue(p) \/ qy_enqueue(p)
  \/ Refuse(p) \/ Accept(p) \/ CopyRow(p) \/ Advance(p) \/ Return(p)

Consumer(c) == Dequeue(c) \/ NothingThere(c) \/ TakeRow(c)

Next ==
  \/ \E p \in Producers : Producer(p)
  \/ \E c \in Consumers : Consumer(c)

Spec == Init /\ [][Next]_vars

--------------------------------------------------------------------------------

(* The lines that wait, oldest first, as the two pointers delimit them.     *)
Count == IF r_pointer <= w_pointer
         THEN w_pointer - r_pointer
         ELSE w_pointer + QUEUE_MAX - r_pointer

Waiting == [k \in 1 .. Count |-> data[(r_pointer + k - 1) % QUEUE_MAX]]

TypeOK ==
  /\ data \in [Slots -> Lines \cup {NoLine}]
  /\ r_pointer \in Slots
  /\ w_pointer \in Slots
  /\ queue_mutex \in Threads \cup {NoThread}
  /\ pc \in [Threads -> {"out", "check", "copy", "advance"}]
  /\ buf \in [Producers -> Seq(Lines)]
  /\ got \in [Consumers -> Lines \cup {NoLine}]

(* The mutex does its work: a thread is inside a call exactly while it      *)
(* holds queue_mutex, so no two calls of one queue ever overlap, and only   *)
(* enqueuing threads are in the copy loop.                                  *)
LockInv ==
  /\ \A t \in Threads : pc[t] # "out" <=> queue_mutex = t
  /\ \A c \in Consumers : pc[c] \in {"out", "check"}

(* A row is copied only into a slot that is really free: the write pointer  *)
(* never runs into the read pointer, which would turn a full queue into an  *)
(* empty one.  queue.c looks at the room once per call, so this depends on  *)
(* how many rows a call brings.                                             *)
RoomForEveryRow ==
  \A p \in Producers :
    (pc[p] = "advance" \/ (pc[p] = "copy" /\ buf[p] # <<>>)) => ~ is_queue_full

(* What the ring does to the waiting lines, whatever the callers pass.      *)
Laps == INSTANCE LapFifo WITH queue <- Waiting, taken <- got

(* queue.c moves lines as LapFifo says: oldest first, each once, every row  *)
(* of a call in its order, and all of them forgotten when a call brings     *)
(* more rows than there is room for.                                        *)
ImplementsLapFifo == Laps!Spec

(* What callers of cbus_enqueue and of one-row qy_enqueue rely on.          *)
Promise == INSTANCE Fifo WITH queue <- Waiting, taken <- got

(* With one row per call the queue keeps the promise of a bounded FIFO:     *)
(* nothing accepted is lost, duplicated or reordered.                       *)
ImplementsFifo == Promise!Spec

================================================================================
