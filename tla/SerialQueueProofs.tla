--------------------------- MODULE SerialQueueProofs ---------------------------
(****************************************************************************)
(* What SerialQueue guarantees for every set of threads, every ring size    *)
(* and every batch size: the mutex works, the ring is the lapping queue of  *)
(* LapFifo, and with one row per call it is the bounded FIFO of Fifo.       *)
(****************************************************************************)
EXTENDS SerialQueue, SequenceTheorems, TLAPS

--------------------------------------------------------------------------------
(* Arithmetic of the pointers.                                              *)

(* The place k rows from a slot, counted from one, wraps at most once.      *)
LEMMA WrapOnce ==
  ASSUME NEW n \in Nat \ {0}, NEW s \in 0 .. n - 1, NEW k \in 1 .. n
  PROVE  /\ (s + k - 1) % n \in 0 .. n - 1
         /\ (s + k - 1) % n = IF s + k - 1 < n THEN s + k - 1 ELSE s + k - 1 - n
BY SMT

(* NextSlot stays in the ring and never stands still.                       *)
LEMMA NextSlotType ==
  ASSUME NEW s \in Slots
  PROVE  /\ NextSlot(s) \in Slots
         /\ NextSlot(s) = IF s + 1 = QUEUE_MAX THEN 0 ELSE s + 1
<1>1. QUEUE_MAX \in Nat \ {0, 1}  BY SerialQueueAssumption
<1> QED BY <1>1, SMT DEF NextSlot, Slots

--------------------------------------------------------------------------------
(* The inductive invariant.  RoomForEveryRow and the refinements need to    *)
(* know, beside the types and the mutex, what a producer has done in its    *)
(* call: it brings at most MaxLines rows, and between the copy of a row and *)
(* the move of the pointer that row is what lies in the slot at w_pointer.  *)

(* A call has at most MaxLines rows left, and one that it has just copied.  *)
CallInv ==
  \A p \in Producers :
    /\ Len(buf[p]) <= MaxLines
    /\ pc[p] = "advance" => buf[p] # <<>>

(* The copied row is still what the slot holds.                             *)
RowInv ==
  \A p \in Producers : pc[p] = "advance" => data[w_pointer] = Head(buf[p])

(* The inductive invariant.                                                 *)
IInv == TypeOK /\ LockInv /\ CallInv /\ RowInv

(* It holds of the empty ring.                                              *)
LEMMA InvInit == Init => IInv
<1> SUFFICES ASSUME Init PROVE IInv
  OBVIOUS
<1>1. TypeOK
  BY SerialQueueAssumption, SMT DEF Init, queue_int, TypeOK, Slots, Threads
<1>2. LockInv
  BY SerialQueueAssumption DEF Init, queue_int, LockInv, Threads
<1>3. CallInv
  <2>1. Len(<<>>) <= MaxLines
    BY SerialQueueAssumption, SMT
  <2>2. \A p \in Producers : buf[p] = <<>> /\ pc[p] = "out"
    BY DEF Init, Threads
  <2> QED BY <2>1, <2>2 DEF CallInv
<1>4. RowInv
  BY DEF Init, RowInv, Threads
<1> QED BY <1>1, <1>2, <1>3, <1>4 DEF IInv

(* A thread inside a call is the only one inside a call.                    *)
LEMMA Exclusive ==
  ASSUME LockInv, NEW t \in Threads, NEW u \in Threads, pc[t] # "out", u # t
  PROVE  queue_mutex = t /\ pc[u] = "out"
BY DEF LockInv

(* A batch of rows is a sequence of at most MaxLines lines.                 *)
LEMMA BatchType ==
  ASSUME NEW rows \in Batches
  PROVE  rows \in Seq(Lines) /\ Len(rows) <= MaxLines
<1>1. PICK n \in 0 .. MaxLines : rows \in [1 .. n -> Lines]
  BY DEF Batches
<1>2. n \in Nat /\ n <= MaxLines
  BY SerialQueueAssumption, <1>1
<1> QED BY <1>1, <1>2, SMT

(* A step of any thread keeps the pointers in the ring ...                  *)
LEMMA TypeStep == IInv /\ [Next]_vars => TypeOK'
<1> SUFFICES ASSUME IInv, [Next]_vars PROVE TypeOK'
  OBVIOUS
<1> USE DEF TypeOK, IInv
<1>1. ASSUME NEW p \in Producers, cbus_enqueue(p) PROVE TypeOK'
  BY <1>1 DEF cbus_enqueue, pthread_mutex_lock, ring, Threads
<1>2. ASSUME NEW p \in Producers, qy_enqueue(p) PROVE TypeOK'
  BY <1>2, BatchType DEF qy_enqueue, pthread_mutex_lock, ring, Threads
<1>3. ASSUME NEW p \in Producers, Refuse(p) PROVE TypeOK'
  BY <1>3 DEF Refuse, pthread_mutex_unlock, ring, Threads
<1>4. ASSUME NEW p \in Producers, Accept(p) PROVE TypeOK'
  BY <1>4 DEF Accept, Goto, ring, Threads
<1>5. ASSUME NEW p \in Producers, CopyRow(p) PROVE TypeOK'
  BY <1>5 DEF CopyRow, Goto, Threads
<1>6. ASSUME NEW p \in Producers, Advance(p) PROVE TypeOK'
  <2>1. NextSlot(w_pointer) \in Slots  BY NextSlotType
  <2>2. buf[p] # <<>>  BY <1>6 DEF Advance, CallInv
  <2>3. Tail(buf[p]) \in Seq(Lines)  BY <2>2, SMT
  <2> QED BY <1>6, <2>1, <2>3 DEF Advance, Goto, Threads
<1>7. ASSUME NEW p \in Producers, Return(p) PROVE TypeOK'
  BY <1>7 DEF Return, pthread_mutex_unlock, ring, Threads
<1>8. ASSUME NEW c \in Consumers, Dequeue(c) PROVE TypeOK'
  BY <1>8 DEF Dequeue, pthread_mutex_lock, ring, Threads
<1>9. ASSUME NEW c \in Consumers, NothingThere(c) PROVE TypeOK'
  BY <1>9 DEF NothingThere, pthread_mutex_unlock, ring, Threads
<1>10. ASSUME NEW c \in Consumers, TakeRow(c) PROVE TypeOK'
  BY <1>10, NextSlotType DEF TakeRow, pthread_mutex_unlock, Threads
<1>11. CASE UNCHANGED vars
  BY <1>11 DEF vars
<1> QED BY <1>1, <1>2, <1>3, <1>4, <1>5, <1>6, <1>7, <1>8, <1>9, <1>10, <1>11
        DEF Next, Producer, Consumer

(* Every action either takes the free mutex, keeps it or gives it back, and *)
(* moves the program counter of its own thread only.                        *)
LEMMA LockStep == IInv /\ [Next]_vars => LockInv'
<1> SUFFICES ASSUME TypeOK, LockInv, [Next]_vars PROVE LockInv'
  BY DEF IInv
<1> USE SerialQueueAssumption DEF TypeOK, LockInv, Threads
<1>1. ASSUME NEW p \in Producers, cbus_enqueue(p) \/ qy_enqueue(p) PROVE LockInv'
  BY <1>1 DEF cbus_enqueue, qy_enqueue, pthread_mutex_lock
<1>2. ASSUME NEW p \in Producers, Refuse(p) \/ Return(p) PROVE LockInv'
  BY <1>2 DEF Refuse, Return, pthread_mutex_unlock
<1>3. ASSUME NEW p \in Producers, Accept(p) \/ CopyRow(p) \/ Advance(p) PROVE LockInv'
  BY <1>3 DEF Accept, CopyRow, Advance, Goto
<1>4. ASSUME NEW c \in Consumers, Dequeue(c) PROVE LockInv'
  BY <1>4 DEF Dequeue, pthread_mutex_lock
<1>5. ASSUME NEW c \in Consumers, NothingThere(c) \/ TakeRow(c) PROVE LockInv'
  BY <1>5 DEF NothingThere, TakeRow, pthread_mutex_unlock
<1>6. CASE UNCHANGED vars
  BY <1>6 DEF vars
<1> QED BY <1>1, <1>2, <1>3, <1>4, <1>5, <1>6 DEF Next, Producer, Consumer

(* ... and what is known of the calls under way.                            *)
LEMMA CallStep == IInv /\ [Next]_vars => CallInv'
<1> SUFFICES ASSUME TypeOK, CallInv, [Next]_vars PROVE CallInv'
  BY DEF IInv
<1> USE DEF TypeOK, CallInv, Threads
<1>1. ASSUME NEW p \in Producers, cbus_enqueue(p) PROVE CallInv'
  <2>1. PICK line \in Lines : buf' = [buf EXCEPT ![p] = <<line>>]
    BY <1>1 DEF cbus_enqueue
  <2>2. Len(<<line>>) <= MaxLines
    BY SerialQueueAssumption, SMT
  <2> QED BY <1>1, <2>1, <2>2 DEF cbus_enqueue, pthread_mutex_lock
<1>2. ASSUME NEW p \in Producers, qy_enqueue(p) PROVE CallInv'
  BY <1>2, BatchType DEF qy_enqueue, pthread_mutex_lock
<1>3. ASSUME NEW p \in Producers, Refuse(p) PROVE CallInv'
  <2>1. Len(<<>>) <= MaxLines
    BY SerialQueueAssumption, SMT
  <2> QED BY <1>3, <2>1 DEF Refuse, pthread_mutex_unlock
<1>4. ASSUME NEW p \in Producers, Accept(p) \/ CopyRow(p) PROVE CallInv'
  BY <1>4 DEF Accept, CopyRow, Goto
<1>5. ASSUME NEW p \in Producers, Advance(p) PROVE CallInv'
  <2>1. Len(Tail(buf[p])) <= MaxLines
    BY <1>5, SerialQueueAssumption, SMT DEF Advance
  <2> QED BY <1>5, <2>1 DEF Advance, Goto
<1>6. ASSUME NEW p \in Producers, Return(p) PROVE CallInv'
  BY <1>6 DEF Return, pthread_mutex_unlock
<1>7. ASSUME NEW c \in Consumers, Consumer(c) PROVE CallInv'
  BY <1>7 DEF Consumer, Dequeue, NothingThere, TakeRow, pthread_mutex_lock,
              pthread_mutex_unlock
<1>8. CASE UNCHANGED vars
  BY <1>8 DEF vars
<1> QED BY <1>1, <1>2, <1>3, <1>4, <1>5, <1>6, <1>7, <1>8 DEF Next, Producer

(* The row between its copy and the move of the pointer: no other thread    *)
(* writes the slot or moves w_pointer, because of the mutex.                *)
LEMMA RowStep == IInv /\ [Next]_vars => RowInv'
<1> SUFFICES ASSUME TypeOK, LockInv, CallInv, RowInv, [Next]_vars PROVE RowInv'
  BY DEF IInv
<1> USE DEF TypeOK, Threads
<1>1. ASSUME NEW p \in Producers, cbus_enqueue(p) \/ qy_enqueue(p) \/ Refuse(p)
      PROVE RowInv'
  BY <1>1 DEF cbus_enqueue, qy_enqueue, Refuse, pthread_mutex_lock,
              pthread_mutex_unlock, RowInv, ring
<1>2. ASSUME NEW p \in Producers, Accept(p) \/ Return(p) PROVE RowInv'
  BY <1>2 DEF Accept, Return, Goto, pthread_mutex_unlock, RowInv, ring
<1>3. ASSUME NEW p \in Producers, CopyRow(p) PROVE RowInv'
  <2>1. \A u \in Producers : u # p => pc[u] = "out"
    BY <1>3, Exclusive DEF CopyRow
  <2>2. data'[w_pointer'] = Head(buf[p])
    BY <1>3 DEF CopyRow
  <2> QED BY <1>3, <2>1, <2>2 DEF CopyRow, Goto, RowInv
<1>4. ASSUME NEW p \in Producers, Advance(p) PROVE RowInv'
  <2>1. \A u \in Producers : u # p => pc[u] = "out"
    BY <1>4, Exclusive DEF Advance
  <2> QED BY <1>4, <2>1 DEF Advance, Goto, RowInv
<1>5. ASSUME NEW c \in Consumers, Consumer(c) PROVE RowInv'
  BY <1>5 DEF Consumer, Dequeue, NothingThere, TakeRow, pthread_mutex_lock,
              pthread_mutex_unlock, RowInv, ring
<1>6. CASE UNCHANGED vars
  BY <1>6 DEF vars, RowInv
<1> QED BY <1>1, <1>2, <1>3, <1>4, <1>5, <1>6 DEF Next, Producer

(* Whatever the threads do, their calls exclude each other, and the row that*)
(* the write pointer is about to publish is the caller's own.               *)
THEOREM Inductive == Spec => []IInv
<1>1. IInv /\ [Next]_vars => IInv'
  BY TypeStep, LockStep, CallStep, RowStep DEF IInv
<1> QED BY InvInit, <1>1, PTL DEF Spec

(* The pointers stay inside the ring, whatever the batches.                 *)
THEOREM TypeCorrect == Spec => []TypeOK
<1>1. IInv => TypeOK  BY DEF IInv
<1> QED BY Inductive, <1>1, PTL

(* queue_mutex keeps the calls of one queue apart, for any number of        *)
(* threads.                                                                 *)
THEOREM MutexWorks == Spec => []LockInv
<1>1. IInv => LockInv  BY DEF IInv
<1> QED BY Inductive, <1>1, PTL
--------------------------------------------------------------------------------
(* One row per call: the room that was seen before the copy is still there  *)
(* when the pointer moves, because the consumers are kept out meanwhile.    *)

(* A step keeps the room for the row that a call is about to write.         *)
LEMMA RoomStep ==
  MaxLines = 1 /\ IInv /\ RoomForEveryRow /\ [Next]_vars => RoomForEveryRow'
<1> SUFFICES ASSUME MaxLines = 1, TypeOK, LockInv, CallInv, RoomForEveryRow, [Next]_vars
             PROVE  RoomForEveryRow'
  BY DEF IInv
<1> USE DEF TypeOK, Threads, RoomForEveryRow, is_queue_full, NextSlot
<1>1. ASSUME NEW p \in Producers, cbus_enqueue(p) \/ qy_enqueue(p) \/ Refuse(p)
      PROVE RoomForEveryRow'
  BY <1>1 DEF cbus_enqueue, qy_enqueue, Refuse, pthread_mutex_lock,
              pthread_mutex_unlock, ring
<1>2. ASSUME NEW p \in Producers, Accept(p) \/ Return(p) PROVE RoomForEveryRow'
  BY <1>2 DEF Accept, Return, Goto, pthread_mutex_unlock, ring
<1>3. ASSUME NEW p \in Producers, CopyRow(p) PROVE RoomForEveryRow'
  BY <1>3 DEF CopyRow, Goto
<1>4. ASSUME NEW p \in Producers, Advance(p) PROVE RoomForEveryRow'
  <2>1. \A u \in Producers : u # p => pc[u] = "out"
    BY <1>4, Exclusive DEF Advance
  <2>2. buf[p] # <<>> /\ Len(buf[p]) <= 1 /\ buf[p] \in Seq(Lines)
    BY <1>4 DEF Advance, CallInv
  <2>3. Tail(buf[p]) = <<>>
    BY <2>2, SMT
  <2> QED BY <1>4, <2>1, <2>3 DEF Advance, Goto
<1>5. ASSUME NEW c \in Consumers, Dequeue(c) \/ NothingThere(c) PROVE RoomForEveryRow'
  BY <1>5 DEF Dequeue, NothingThere, pthread_mutex_lock, pthread_mutex_unlock, ring
<1>6. ASSUME NEW c \in Consumers, TakeRow(c) PROVE RoomForEveryRow'
  <2>1. \A u \in Producers : pc[u] = "out"
    BY <1>6, Exclusive, SerialQueueAssumption DEF TakeRow
  <2> QED BY <1>6, <2>1, SerialQueueAssumption DEF TakeRow, pthread_mutex_unlock
<1>7. CASE UNCHANGED vars
  BY <1>7 DEF vars
<1> QED BY <1>1, <1>2, <1>3, <1>4, <1>5, <1>6, <1>7 DEF Next, Producer, Consumer

(* While every caller brings one row, the write pointer never runs into the *)
(* read pointer.                                                            *)
THEOREM RoomForSingleRows == MaxLines = 1 => (Spec => []RoomForEveryRow)
<1> SUFFICES ASSUME MaxLines = 1 PROVE Spec => []RoomForEveryRow
  OBVIOUS
<1>1. Init => RoomForEveryRow
  BY DEF Init, RoomForEveryRow, Threads
<1>2. IInv /\ RoomForEveryRow /\ [Next]_vars => RoomForEveryRow'
  BY RoomStep
<1> QED BY <1>1, <1>2, Inductive, PTL DEF Spec

--------------------------------------------------------------------------------
(* The refinements.  First, what a move of a pointer does to Waiting.       *)

(* The number of waiting rows, and what the two tests of the code say of it.*)
LEMMA CountType ==
  ASSUME TypeOK
  PROVE  /\ Count \in 0 .. QUEUE_MAX - 1
         /\ Count = 0 <=> is_queue_empty
         /\ Count = QUEUE_MAX - 1 <=> is_queue_full
<1>1. QUEUE_MAX \in Nat \ {0, 1}  BY SerialQueueAssumption
<1>2. r_pointer \in Slots /\ w_pointer \in Slots  BY DEF TypeOK
<1>3. NextSlot(w_pointer) = IF w_pointer + 1 = QUEUE_MAX THEN 0 ELSE w_pointer + 1
  BY <1>2, NextSlotType
<1> QED BY <1>1, <1>2, <1>3, SMT DEF Count, is_queue_empty, is_queue_full, Slots

(* The slot of the k-th waiting line, without the remainder.                *)
LEMMA SlotOf ==
  ASSUME NEW s \in Slots, NEW k \in 1 .. QUEUE_MAX
  PROVE  /\ (s + k - 1) % QUEUE_MAX \in Slots
         /\ (s + k - 1) % QUEUE_MAX =
              IF s + k - 1 < QUEUE_MAX THEN s + k - 1 ELSE s + k - 1 - QUEUE_MAX
<1>1. QUEUE_MAX \in Nat \ {0}  BY SerialQueueAssumption
<1>2. s \in 0 .. QUEUE_MAX - 1  BY DEF Slots
<1> QED BY <1>1, <1>2, WrapOnce DEF Slots

(* Waiting is a sequence of Count lines.                                    *)
LEMMA WaitingType ==
  ASSUME TypeOK
  PROVE  /\ Waiting \in Seq(Lines \cup {NoLine})
         /\ Len(Waiting) = Count
         /\ Waiting = <<>> <=> is_queue_empty
<1>1. QUEUE_MAX \in Nat \ {0, 1}  BY SerialQueueAssumption
<1>2. Count \in Nat /\ Count <= QUEUE_MAX - 1  BY <1>1, CountType, SMT
<1>3. \A k \in 1 .. Count : data[(r_pointer + k - 1) % QUEUE_MAX] \in Lines \cup {NoLine}
  BY <1>1, <1>2, SlotOf, SMT DEF TypeOK
<1>4. Waiting \in [1 .. Count -> Lines \cup {NoLine}]
  BY <1>3 DEF Waiting
<1>5. Waiting \in Seq(Lines \cup {NoLine}) /\ Len(Waiting) = Count
  BY <1>2, <1>4, SMT
<1> QED BY <1>5, CountType, SMT

(* Copying a row leaves the waiting lines alone: the slot is free.          *)
LEMMA CopyKeeps ==
  ASSUME TypeOK, UNCHANGED <<r_pointer, w_pointer>>,
         NEW line, data' = [data EXCEPT ![w_pointer] = line]
  PROVE  Waiting' = Waiting
<1>1. QUEUE_MAX \in Nat \ {0, 1}  BY SerialQueueAssumption
<1>2. Count' = Count /\ Count \in Nat /\ Count <= QUEUE_MAX - 1
  BY <1>1, CountType, SMT DEF Count
<1>3. ASSUME NEW k \in 1 .. Count
      PROVE  (r_pointer + k - 1) % QUEUE_MAX # w_pointer
  <2>1. k \in 1 .. QUEUE_MAX /\ r_pointer \in Slots /\ w_pointer \in Slots
    BY <1>1, <1>2 DEF TypeOK
  <2>2. (r_pointer + k - 1) % QUEUE_MAX
          = IF r_pointer + k - 1 < QUEUE_MAX THEN r_pointer + k - 1
            ELSE r_pointer + k - 1 - QUEUE_MAX
    BY <2>1, SlotOf
  <2> QED BY <1>1, <1>2, <2>1, <2>2, SMT DEF Count, Slots
<1>4. \A k \in 1 .. Count : (r_pointer + k - 1) % QUEUE_MAX \in Slots
  BY <1>1, <1>2, SlotOf, SMT DEF TypeOK
<1>5. \A k \in 1 .. Count : data'[(r_pointer + k - 1) % QUEUE_MAX]
                              = data[(r_pointer + k - 1) % QUEUE_MAX]
  BY <1>3, <1>4 DEF TypeOK
<1> QED BY <1>2, <1>5 DEF Waiting

(* Moving the write pointer appends the row it passes, or, when the queue   *)
(* is full, forgets every waiting line.                                     *)
LEMMA AdvanceAppends ==
  ASSUME TypeOK, UNCHANGED <<data, r_pointer>>, w_pointer' = NextSlot(w_pointer)
  PROVE  Waiting' = IF Count = QUEUE_MAX - 1 THEN <<>>
                    ELSE Append(Waiting, data[w_pointer])
<1>1. QUEUE_MAX \in Nat \ {0, 1}  BY SerialQueueAssumption
<1>2. r_pointer \in Slots /\ w_pointer \in Slots  BY DEF TypeOK
<1>3. w_pointer' = IF w_pointer + 1 = QUEUE_MAX THEN 0 ELSE w_pointer + 1
  BY <1>2, NextSlotType
<1>4. CASE Count = QUEUE_MAX - 1
  <2>1. Count' = 0
    BY <1>1, <1>2, <1>3, <1>4, SMT DEF Count, Slots
  <2>2. Waiting' = <<>>
    BY <2>1, SMT DEF Waiting
  <2> QED BY <1>4, <2>2
<1>5. CASE Count # QUEUE_MAX - 1
  <2>1. Count \in Nat /\ Count < QUEUE_MAX - 1
    BY <1>1, <1>5, CountType, SMT
  <2>2. Count' = Count + 1
    BY <1>1, <1>2, <1>3, <1>5, <2>1, SMT DEF Count, Slots
  <2>3. (r_pointer + (Count + 1) - 1) % QUEUE_MAX = w_pointer
    <3>1. Count + 1 \in 1 .. QUEUE_MAX  BY <1>1, <2>1
    <3> QED BY <1>1, <1>2, <3>1, SlotOf, SMT DEF Count, Slots
  <2>4. Waiting' = [k \in 1 .. Count + 1 |-> data[(r_pointer + k - 1) % QUEUE_MAX]]
    BY <2>2 DEF Waiting
  <2>5. Append(Waiting, data[w_pointer])
          = [k \in 1 .. Count + 1 |-> IF k <= Count
                                      THEN data[(r_pointer + k - 1) % QUEUE_MAX]
                                      ELSE data[w_pointer]]
    BY <2>1, WaitingType, SMT DEF Waiting
  <2>6. \A k \in 1 .. Count + 1 : ~ (k <= Count) => k = Count + 1
    BY <2>1
  <2>7. Waiting' = Append(Waiting, data[w_pointer])
    BY <2>3, <2>4, <2>5, <2>6
  <2> QED BY <1>5, <2>7
<1> QED BY <1>4, <1>5

(* Moving the read pointer removes the oldest line, the one it passes.      *)
LEMMA TakeRemoves ==
  ASSUME TypeOK, UNCHANGED <<data, w_pointer>>, r_pointer' = NextSlot(r_pointer),
         ~ is_queue_empty
  PROVE  /\ Waiting # <<>>
         /\ Head(Waiting) = data[r_pointer]
         /\ Waiting' = Tail(Waiting)
<1>1. QUEUE_MAX \in Nat \ {0, 1}  BY SerialQueueAssumption
<1>2. r_pointer \in Slots /\ w_pointer \in Slots  BY DEF TypeOK
<1>3. r_pointer' = IF r_pointer + 1 = QUEUE_MAX THEN 0 ELSE r_pointer + 1
  BY <1>2, NextSlotType
<1>4. Count \in Nat /\ 1 <= Count /\ Count <= QUEUE_MAX - 1
  BY <1>1, CountType, SMT
<1>5. Count' = Count - 1
  BY <1>1, <1>2, <1>3, <1>4, SMT DEF Count, Slots
<1>6. Waiting # <<>> /\ Head(Waiting) = data[r_pointer]
  <2>1. (r_pointer + 1 - 1) % QUEUE_MAX = r_pointer
    BY <1>1, <1>2, SlotOf, SMT DEF Slots
  <2> QED BY <1>4, <2>1, WaitingType, SMT DEF Waiting
<1>7. \A k \in 1 .. Count - 1 :
        (r_pointer' + k - 1) % QUEUE_MAX = (r_pointer + (k + 1) - 1) % QUEUE_MAX
  <2> SUFFICES ASSUME NEW k \in 1 .. Count - 1
               PROVE  (r_pointer' + k - 1) % QUEUE_MAX
                        = (r_pointer + (k + 1) - 1) % QUEUE_MAX
    OBVIOUS
  <2>1. k \in 1 .. QUEUE_MAX /\ k + 1 \in 1 .. QUEUE_MAX  BY <1>1, <1>4
  <2>2. r_pointer' \in Slots  BY <1>1, <1>2, <1>3 DEF Slots
  <2>3. (r_pointer' + k - 1) % QUEUE_MAX
          = IF r_pointer' + k - 1 < QUEUE_MAX THEN r_pointer' + k - 1
            ELSE r_pointer' + k - 1 - QUEUE_MAX
    BY <2>1, <2>2, SlotOf
  <2>4. (r_pointer + (k + 1) - 1) % QUEUE_MAX
          = IF r_pointer + (k + 1) - 1 < QUEUE_MAX THEN r_pointer + (k + 1) - 1
            ELSE r_pointer + (k + 1) - 1 - QUEUE_MAX
    BY <1>2, <2>1, SlotOf
  <2> QED BY <1>1, <1>2, <1>3, <2>1, <2>3, <2>4, SMT DEF Slots
<1>8. Waiting' = [k \in 1 .. Count - 1 |-> data[(r_pointer' + k - 1) % QUEUE_MAX]]
  BY <1>5 DEF Waiting
<1>9. /\ Tail(Waiting) \in [1 .. Count - 1 -> Lines \cup {NoLine}]
      /\ \A k \in 1 .. Count - 1 : Tail(Waiting)[k] = Waiting[k + 1]
  <2>1. Waiting \in Seq(Lines \cup {NoLine}) /\ Len(Waiting) = Count
    BY WaitingType
  <2>2. /\ Tail(Waiting) \in Seq(Lines \cup {NoLine})
        /\ Len(Tail(Waiting)) = Count - 1
        /\ \A k \in 1 .. Len(Tail(Waiting)) : Tail(Waiting)[k] = Waiting[k + 1]
    BY <1>6, <2>1, HeadTailProperties
  <2> QED BY <2>2, LenProperties
<1>10. \A k \in 1 .. Count - 1 :
         Waiting[k + 1] = data[(r_pointer + (k + 1) - 1) % QUEUE_MAX]
  BY <1>4, SMT DEF Waiting
<1>11. Waiting' = Tail(Waiting)
  <2>1. \A k \in 1 .. Count - 1 :
          data[(r_pointer' + k - 1) % QUEUE_MAX] = Tail(Waiting)[k]
    BY <1>7, <1>9, <1>10
  <2>2. Waiting' = [k \in 1 .. Count - 1 |-> Tail(Waiting)[k]]
    BY <1>8, <2>1
  <2>3. Tail(Waiting) = [k \in 1 .. Count - 1 |-> Tail(Waiting)[k]]
    BY <1>9
  <2> QED BY <2>2, <2>3
<1> QED BY <1>6, <1>11

(* At first nothing waits and nobody has taken anything.                    *)
LEMMA EmptyAtFirst == Init => Waiting = <<>> /\ got = [c \in Consumers |-> NoLine]
<1> SUFFICES ASSUME Init PROVE Waiting = <<>>
  BY DEF Init
<1>1. TypeOK  BY InvInit DEF IInv
<1> QED BY <1>1, WaitingType DEF Init, queue_int, is_queue_empty

(* The three ways a step can look to the waiting lines.                     *)
LEMMA StepShapes ==
  ASSUME IInv, [Next]_vars
  PROVE  \/ Waiting' = Waiting /\ got' = got
         \/ \E p \in Producers : /\ pc[p] = "advance"
                                 /\ Waiting' = IF Count = QUEUE_MAX - 1 THEN <<>>
                                               ELSE Append(Waiting, Head(buf[p]))
                                 /\ Head(buf[p]) \in Lines
                                 /\ got' = got
         \/ \E c \in Consumers : /\ Waiting # <<>>
                                 /\ Waiting' = Tail(Waiting)
                                 /\ got' = [got EXCEPT ![c] = Head(Waiting)]
<1> TypeOK /\ LockInv /\ CallInv /\ RowInv
  BY DEF IInv
<1>1. ASSUME UNCHANGED <<ring, got>> PROVE Waiting' = Waiting /\ got' = got
  BY <1>1 DEF Waiting, Count, ring
<1>2. ASSUME NEW p \in Producers, CopyRow(p) PROVE Waiting' = Waiting /\ got' = got
  BY <1>2, CopyKeeps DEF CopyRow
<1>3. ASSUME NEW p \in Producers, Advance(p)
      PROVE  /\ pc[p] = "advance"
             /\ Waiting' = IF Count = QUEUE_MAX - 1 THEN <<>>
                           ELSE Append(Waiting, Head(buf[p]))
             /\ Head(buf[p]) \in Lines
             /\ got' = got
  <2>1. data[w_pointer] = Head(buf[p])
    BY <1>3 DEF Advance, RowInv
  <2>2. buf[p] \in Seq(Lines) /\ buf[p] # <<>>
    BY <1>3 DEF Advance, CallInv, TypeOK
  <2>3. Head(buf[p]) \in Lines
    BY <2>2, SMT
  <2> QED BY <1>3, <2>1, <2>3, AdvanceAppends DEF Advance
<1>4. ASSUME NEW c \in Consumers, TakeRow(c)
      PROVE  /\ Waiting # <<>>
             /\ Waiting' = Tail(Waiting)
             /\ got' = [got EXCEPT ![c] = Head(Waiting)]
  BY <1>4, TakeRemoves DEF TakeRow
<1>5. ASSUME NEW p \in Producers,
             cbus_enqueue(p) \/ qy_enqueue(p) \/ Refuse(p) \/ Accept(p) \/ Return(p)
      PROVE  UNCHANGED <<ring, got>>
  BY <1>5 DEF cbus_enqueue, qy_enqueue, Refuse, Accept, Return, ring
<1>6. ASSUME NEW c \in Consumers, Dequeue(c) \/ NothingThere(c)
      PROVE  UNCHANGED <<ring, got>>
  BY <1>6 DEF Dequeue, NothingThere, ring
<1>7. CASE UNCHANGED vars
  BY <1>1, <1>7 DEF vars, ring
<1> QED BY <1>1, <1>2, <1>3, <1>4, <1>5, <1>6, <1>7 DEF Next, Producer, Consumer

(* For any number of threads, rows and rows per call, queue.c is the queue  *)
(* of LapFifo: first in, first out, emptied by the row too many.            *)
THEOREM LapRefinement == Spec => ImplementsLapFifo
<1>1. Init => Laps!Init
  BY EmptyAtFirst DEF Laps!Init
<1>2. IInv /\ [Next]_vars => [Laps!Next]_Laps!vars
  <2> SUFFICES ASSUME IInv, [Next]_vars PROVE [Laps!Next]_Laps!vars
    OBVIOUS
  <2>1. Len(Waiting) = Count
    BY WaitingType DEF IInv
  <2>2. CASE Waiting' = Waiting /\ got' = got
    BY <2>2 DEF Laps!vars
  <2>3. ASSUME NEW p \in Producers, Head(buf[p]) \in Lines, got' = got,
               Waiting' = IF Count = QUEUE_MAX - 1 THEN <<>>
                          ELSE Append(Waiting, Head(buf[p]))
        PROVE  Laps!Put
    BY <2>1, <2>3 DEF Laps!Put, Laps!PutLine, Laps!Full, Laps!Capacity
  <2>4. ASSUME NEW c \in Consumers, Waiting # <<>>, Waiting' = Tail(Waiting),
               got' = [got EXCEPT ![c] = Head(Waiting)]
        PROVE  Laps!Take
    BY <2>4 DEF Laps!Take
  <2> QED BY <2>2, <2>3, <2>4, StepShapes DEF Laps!Next
<1> QED BY <1>1, <1>2, Inductive, PTL DEF Spec, ImplementsLapFifo, Laps!Spec

(* With one row per call it is the bounded FIFO its callers take it for.    *)
THEOREM FifoRefinement == MaxLines = 1 => (Spec => ImplementsFifo)
<1> SUFFICES ASSUME MaxLines = 1 PROVE Spec => ImplementsFifo
  OBVIOUS
<1>1. Init => Promise!Init
  BY EmptyAtFirst DEF Promise!Init
<1>2. IInv /\ RoomForEveryRow /\ [Next]_vars => [Promise!Next]_Promise!vars
  <2> SUFFICES ASSUME IInv, RoomForEveryRow, [Next]_vars
               PROVE  [Promise!Next]_Promise!vars
    OBVIOUS
  <2>1. /\ Len(Waiting) = Count
        /\ Count \in 0 .. QUEUE_MAX - 1
        /\ Count = QUEUE_MAX - 1 <=> is_queue_full
    BY WaitingType, CountType DEF IInv
  <2>2. CASE Waiting' = Waiting /\ got' = got
    BY <2>2 DEF Promise!vars
  <2>3. ASSUME NEW p \in Producers, pc[p] = "advance", Head(buf[p]) \in Lines,
               got' = got,
               Waiting' = IF Count = QUEUE_MAX - 1 THEN <<>>
                          ELSE Append(Waiting, Head(buf[p]))
        PROVE  Promise!Put
    <3>1. Count # QUEUE_MAX - 1
      BY <2>1, <2>3 DEF RoomForEveryRow
    <3>2. Len(Waiting) < QUEUE_MAX - 1
      BY <2>1, <3>1, SerialQueueAssumption
    <3> QED BY <2>3, <3>1, <3>2 DEF Promise!Put
  <2>4. ASSUME NEW c \in Consumers, Waiting # <<>>, Waiting' = Tail(Waiting),
               got' = [got EXCEPT ![c] = Head(Waiting)]
        PROVE  Promise!Take
    BY <2>4 DEF Promise!Take
  <2> QED BY <2>2, <2>3, <2>4, StepShapes DEF Promise!Next
<1> QED BY <1>1, <1>2, Inductive, RoomForSingleRows, PTL
        DEF Spec, ImplementsFifo, Promise!Spec
================================================================================
