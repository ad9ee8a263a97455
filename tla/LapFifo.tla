-------------------------------- MODULE LapFifo --------------------------------
(****************************************************************************)
(* What the serial queues of interface/Serial/queue.c really do, as a       *)
(* sequence: lines leave in the order in which they were put, and the line  *)
(* that would be number QUEUE_MAX makes the write pointer catch up with the *)
(* read pointer, which is how the code recognises an EMPTY queue.  A put    *)
(* into a full queue therefore forgets every line that was waiting.         *)
(*                                                                          *)
(* SerialQueue implements this specification, whatever its callers pass.    *)
(****************************************************************************)
EXTENDS Naturals, Sequences

CONSTANTS
  Lines,      (* what the queue transports: one row of data[QUEUE_MAX][DATA_MAX] *)
  QUEUE_MAX,  (* rows of the ring, 300 in include/queue.h                   *)
  Consumers,  (* the threads that take lines                                *)
  NoLine

VARIABLES
  queue,  (* the waiting lines, oldest first                                *)
  taken   (* the line each consumer took last                               *)

vars == <<queue, taken>>

(* One slot of the ring is always left empty: this many lines fit.          *)
Capacity == QUEUE_MAX - 1

Full(q) == Len(q) = Capacity

(* One line, put without a look at the room that is left.                   *)
PutLine(q, line) == IF Full(q) THEN <<>> ELSE Append(q, line)

--------------------------------------------------------------------------------

Init == /\ queue = <<>>
        /\ taken = [c \in Consumers |-> NoLine]

Put == /\ \E line \in Lines : queue' = PutLine(queue, line)
       /\ UNCHANGED taken

Take == /\ queue # <<>>
        /\ queue' = Tail(queue)
        /\ \E c \in Consumers : taken' = [taken EXCEPT ![c] = Head(queue)]

Next == Put \/ Take

Spec == Init /\ [][Next]_vars

================================================================================
