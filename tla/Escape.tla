--------------------------------- MODULE Escape --------------------------------
(****************************************************************************)
(* Escaping and check byte of the Clowire line (calculate.c).  A frame      *)
(* starts with FA; inside it FA travels as FE 01 and FE as FE 02.  Its      *)
(* sixth byte is its length and its last the XOR of the others.             *)
(*                                                                          *)
(* C arrays are sequences here: position i is C index i - 1.                *)
(****************************************************************************)
EXTENDS Integers, Sequences, FiniteSets, SequencesExt, FiniteSetsExt

FA == 250
FE == 254

(* Bit b of the XOR is set if it is set in an odd number of bytes.          *)
XOR_check[data \in Seq(0 .. 255)] ==
  LET Bit(w) == w * (Cardinality({i \in DOMAIN data : (data[i] \div w) % 2 = 1}) % 2)
  IN  Bit(1) + Bit(2) + Bit(4) + Bit(8) + Bit(16) + Bit(32) + Bit(64) + Bit(128)

(* A byte as the line must carry it, the head excepted.                     *)
EscapedByte(b) == IF b = FA THEN <<FE, 1>> ELSE IF b = FE THEN <<FE, 2>> ELSE <<b>>

(* A whole frame on the line.                                               *)
Escaped(frame) ==
  <<Head(frame)>> \o FlattenSeq([i \in 1 .. Len(frame) - 1 |-> EscapedByte(frame[i + 1])])

--------------------------------------------------------------------------------
(* ES_opt_send makes room for the second byte with a memcpy whose source    *)
(* and destination overlap.  It moves the bytes in blocks (words, or single *)
(* bytes), each read before it is written: where a block starts, the last   *)
(* byte of the one before has just overwritten the byte it reads.           *)
Shift(starts, tail) ==
  [i \in DOMAIN tail |-> tail[Max({j \in 1 .. i : j = 1 \/ j \notin starts})]]

(* After round n the loop has passed the bytes in done, and the rest of the *)
(* frame is still to come; it runs to the length as it grows.  copy says    *)
(* where the blocks of each round's memcpy start.                           *)
BrokenHeadOnly(copy, data) ==
  LET loop[n \in 1 .. Len(data)] ==
        IF n = 1 THEN [done |-> <<Head(data)>>, rest |-> Tail(data)]
        ELSE LET l == loop[n - 1]
                 escape == Head(l.rest) = FA
             IN  [done |-> l.done \o (IF escape THEN <<FE, 1>> ELSE <<Head(l.rest)>>),
                  rest |-> IF escape THEN Shift(copy[n], Tail(l.rest)) ELSE Tail(l.rest)]
  IN  loop[Len(data)].done

ES_opt_send(copy, data) ==
  LET loop[n \in 1 .. Len(data)] ==
        IF n = 1 THEN [done |-> <<Head(data)>>, rest |-> Tail(data)]
        ELSE LET l == loop[n - 1]
                 escape == Head(l.rest) \in {FA, FE}
             IN  [done |-> l.done \o EscapedByte(Head(l.rest)),
                  rest |-> IF escape THEN Shift(copy[n], Tail(l.rest)) ELSE Tail(l.rest)]
  IN  loop[Len(data)].done

--------------------------------------------------------------------------------
(* A scan of a buffer stops after twenty zeros in a row.                    *)
Reached(buf, i) == \A j \in 20 .. i - 1 : \E k \in j - 19 .. j : buf[k] # 0

(* Bytes past the buffer are taken as 0.                                    *)
At(buf, i) == IF i \in DOMAIN buf THEN buf[i] ELSE 0

(* ES_opt_recv goes over the whole buffer of BUF_MAX bytes.  Each pair      *)
(* becomes one byte, the rest moves up and the buffer's last byte doubles.  *)
(* Pairs cannot overlap; index loses one for each.                          *)
Pairs(buf) ==
  {i \in DOMAIN buf : buf[i] = FE /\ At(buf, i + 1) \in {1, 2} /\ Reached(buf, i)}

BrokenOneEscape(buf) ==
  LET pairs == {i \in Pairs(buf) : At(buf, i + 1) = 1}
  IN  [buf |-> FlattenSeq([i \in DOMAIN buf |->
                 IF i \in pairs THEN <<FA>> ELSE IF i - 1 \in pairs THEN <<>> ELSE <<buf[i]>>])
               \o [j \in 1 .. Cardinality(pairs) |-> buf[Len(buf)]],
       removed |-> Cardinality(pairs)]

ES_opt_recv(buf) ==
  LET pairs == Pairs(buf)
      Byte(i) == IF i \in pairs THEN (IF buf[i + 1] = 1 THEN <<FA>> ELSE <<FE>>)
                 ELSE IF i - 1 \in pairs THEN <<>>
                 ELSE <<buf[i]>>
  IN  [buf     |-> FlattenSeq([i \in DOMAIN buf |-> Byte(i)])
                   \o [j \in 1 .. Cardinality(pairs) |-> buf[Len(buf)]],
       removed |-> Cardinality(pairs)]
================================================================================
