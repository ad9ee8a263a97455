------------------------------- MODULE FrameSender -----------------------------
(****************************************************************************)
(* What general_serial_write puts on the Clowire line for a queued frame.   *)
(****************************************************************************)
EXTENDS Escape

CONSTANTS
  PayloadBytes, (* the bytes a payload is made of                           *)
  PayloadMax,   (* bound: bytes between the length and the check byte       *)
  Copies,       (* what the overlapping memcpy of ES_opt_send may do: in    *)
                (* which places its blocks start, in each round             *)
  NoLine

(* A row of queue_write holds a frame of at most DATA_MAX = 30 bytes.       *)
ASSUME SenderAssumption ==
  /\ PayloadBytes \subseteq 0 .. 255
  /\ PayloadMax \in 0 .. 23
  /\ Copies \subseteq [2 .. 30 -> SUBSET (2 .. 30)]

VARIABLES
  data,     (* the frame taken from queue_write                             *)
  written,  (* the bytes written to the port, or NoLine                     *)
  copied    (* history: the way memcpy copied when they were escaped        *)

sender == <<data, written, copied>>

(* A frame of the gateway: head, broadcast address, length, payload, check. *)
Frame(payload) ==
  LET body == <<FA, 255, 255, 0, 0, 7 + Len(payload)>> \o payload
  IN  Append(body, XOR_check[body])

SenderInit ==
  /\ data = Frame(<<>>)
  /\ written = NoLine
  /\ copied \in Copies

(* cbus_dequeue brings the next frame ...                                   *)
cbus_dequeue ==
  /\ written # NoLine
  /\ \E n \in 0 .. PayloadMax : \E payload \in [1 .. n -> PayloadBytes] : data' = Frame(payload)
  /\ written' = NoLine
  /\ UNCHANGED copied

(* ... which is escaped and written.                                        *)
general_serial_write ==
  /\ written = NoLine
  /\ copied' \in Copies
  /\ written' = ES_opt_send(copied', data)
  /\ UNCHANGED data

SenderNext == cbus_dequeue \/ general_serial_write

SenderSpec == SenderInit /\ [][SenderNext]_sender

--------------------------------------------------------------------------------

(* Byte i of the frame is escaped as it was if memcpy brings all bytes      *)
(* whole, as memmove would, or if none is moved that the loop has yet to    *)
(* pass before it, but the first, which every copy brings.                  *)
Whole == [n \in 2 .. 30 |-> {}]

Intact(i) == copied = Whole \/ \A j \in 2 .. i - 2 : data[j] \notin {FA, FE}

(* However memcpy copies, a second head never appears inside a frame, and   *)
(* FE only before 1 or 2 (the comment above ES_opt_send); and the line is   *)
(* the frame with FA and FE escaped if its last byte is intact.             *)
LineIsEscaped ==
  written # NoLine =>
    /\ \A i \in 2 .. Len(written) :
         /\ written[i] # FA
         /\ written[i] = FE => i < Len(written) /\ written[i + 1] \in {1, 2}
    /\ Intact(Len(data)) => written = Escaped(data)

(* A receiver that collects the whole line in a clear buffer and undoes the *)
(* escapes as ES_opt_recv does has as many bytes as the frame again, and in *)
(* their places those that were intact, whatever the payload and however    *)
(* memcpy copies.                                                           *)
LineReadsBack ==
  written # NoLine =>
    LET got == ES_opt_recv(written \o [i \in 1 .. 20 |-> 0])
    IN  /\ Len(written) - got.removed = Len(data)
        /\ \A i \in DOMAIN data : Intact(i) => got.buf[i] = data[i]
================================================================================
