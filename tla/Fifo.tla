---------------------------------- MODULE Fifo ---------------------------------
(****************************************************************************)
(* What the rest of the gateway expects of a serial queue: a bounded queue  *)
(* that loses nothing.  A line is accepted only while there is room, and an *)
(* accepted line leaves only by being taken, in the order of the puts.      *)
(****************************************************************************)
EXTENDS Naturals, Sequences

CONSTANTS Lines, QUEUE_MAX, Consumers, NoLine

VARIABLES
  queue,  (* the waiting lines, oldest first                                *)
  taken   (* the line each consumer took last                               *)

vars == <<queue, taken>>

Init == /\ queue = <<>>
        /\ taken = [c \in Consumers |-> NoLine]

Put == /\ Len(queue) < QUEUE_MAX - 1
       /\ \E line \in Lines : queue' = Append(queue, line)
       /\ UNCHANGED taken

Take == /\ queue # <<>>
        /\ queue' = Tail(queue)
        /\ \E c \in Consumers : taken' = [taken EXCEPT ![c] = Head(queue)]

Next == Put \/ Take

Spec == Init /\ [][Next]_vars

================================================================================
