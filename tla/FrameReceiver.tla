------------------------------ MODULE FrameReceiver ----------------------------
(****************************************************************************)
(* The reader of a port: it collects what each read brings in buf_tmp,      *)
(* undoes the escapes, cuts out one frame after the other and hands each to *)
(* a worker thread through buf_final.  On the Clowire port these are        *)
(* general_serial_read, get_valid_cbus_data and data_to_other_thread, on    *)
(* the Qiyuan port trans_serial_read, get_valid_trans_data and              *)
(* data_to_clo_thread, which know neither escapes nor a check byte.         *)
(****************************************************************************)
EXTENDS Escape

CONSTANTS
  Traffic,   (* the frame sequences the Clowire gateway may send            *)
  Noise,     (* what may stand on the line before them                      *)
  Reports,   (* the frame sequences that may come from the Qiyuan bus, and  *)
  Strays,    (* what may stand before these                                 *)
  MaxRead,   (* bound: bytes one read returns                               *)
  BUF_MAX,
  Created    (* whether pthread_create succeeds: a subset of BOOLEAN        *)

DATA_MAX == 30

ASSUME ReceiverAssumption ==
  /\ Traffic \cup Reports \subseteq Seq(Seq(0 .. 255) \ {<<>>})
  /\ Noise \cup Strays \subseteq Seq(0 .. 255)
  /\ MaxRead \in 1 .. BUF_MAX
  /\ BUF_MAX \in Nat
  /\ Created \in (SUBSET BOOLEAN) \ {{}}

VARIABLES
  port,       (* "clowire" or "qiyuan"                                      *)
  sent,       (* the frames that are sent to it                             *)
  noise,      (* the bytes that stand on the line before them               *)
  wire,       (* their bytes still to be read                               *)
  buf_tmp,
  p_index,    (* where the next read goes                                   *)
  len,        (* grp->len, bytes counted as received and not yet cut out    *)
  reader,     (* the reader's place: "read" or "cut"                        *)
  p_flag,     (* 1 while buf_final belongs to a worker                      *)
  buf_final,
  workers,    (* worker threads that have not ended                         *)
  delivered   (* the frames they passed on                                  *)

line == <<port, sent, noise, wire>>
vars == <<line, buf_tmp, p_index, len, reader, p_flag, buf_final, workers, delivered>>

Zeros(n) == [i \in 1 .. n |-> 0]

OnLine(frame) == IF port = "clowire" THEN Escaped(frame) ELSE frame

Init ==
  /\ \/ port = "clowire" /\ sent \in Traffic /\ noise \in Noise
     \/ port = "qiyuan" /\ sent \in Reports /\ noise \in Strays
  /\ wire = noise \o FlattenSeq([i \in DOMAIN sent |-> OnLine(sent[i])])
  /\ buf_tmp = Zeros(BUF_MAX)
  /\ p_index = 0
  /\ len = 0
  /\ reader = "read"
  /\ p_flag = 0
  /\ buf_final = <<>>
  /\ workers = 0
  /\ delivered = <<>>

--------------------------------------------------------------------------------

(* memcpy to buf_tmp from C index p_index on; what falls before the buffer  *)
(* is not seen again.                                                       *)
Placed(buf, index, bytes) ==
  LET first == Max({index, 0})
      seen  == SubSeq(bytes, first - index + 1, Len(bytes))
  IN  SubSeq(buf, 1, first) \o seen \o SubSeq(buf, first + Len(seen) + 1, Len(buf))

Unescape(buf) ==
  IF port = "clowire" THEN ES_opt_recv(buf) ELSE [buf |-> buf, removed |-> 0]

(* read_to_tmp, the copy and the reset of a full buffer, then ES_opt_recv.  *)
Collect(bytes) ==
  /\ p_index + Len(bytes) < BUF_MAX
  /\ \E filled \in {Placed(buf_tmp, p_index, bytes)} : \E got \in {Unescape(filled)} :
       /\ buf_tmp' = got.buf
       /\ p_index' = p_index + Len(bytes) - got.removed
  /\ reader' = "cut"

read_to_tmp_reset(bytes) ==
  /\ p_index + Len(bytes) >= BUF_MAX
  /\ buf_tmp' = Zeros(BUF_MAX)
  /\ p_index' = 0
  /\ UNCHANGED reader

(* general_serial_read: the bytes count before the reader has waited for    *)
(* the last worker, and before the escapes are undone.                      *)
general_serial_read ==
  /\ reader = "read"
  /\ p_flag = 0
  /\ \E n \in 1 .. MaxRead :
       /\ n <= Len(wire)
       /\ wire' = SubSeq(wire, n + 1, Len(wire))
       /\ len' = len + n
       /\ Collect(SubSeq(wire, 1, n)) \/ read_to_tmp_reset(SubSeq(wire, 1, n))
  /\ UNCHANGED <<port, sent, noise, p_flag, buf_final, workers, delivered>>

--------------------------------------------------------------------------------
(* get_valid_cbus_data and get_valid_trans_data.                            *)

Bytes(i, n) == SubSeq(buf_tmp \o Zeros(DATA_MAX), i, i + n - 1)

IsHead(i) ==
  IF port = "clowire" THEN buf_tmp[i] = FA
  ELSE buf_tmp[i] = 128 /\ At(buf_tmp, i + 1) = 255

package_size(i) ==
  IF port = "clowire" THEN At(buf_tmp, i + 5) ELSE At(buf_tmp, i + 4) + 5

(* The check byte, or a circuit number.                                     *)
Checked(i) ==
  IF port = "clowire"
  THEN At(buf_tmp, i + package_size(i) - 1) = XOR_check[Bytes(i, package_size(i) - 1)]
  ELSE At(buf_tmp, i + 6) # 0

(* A frame from i on: head, length, check, and enough bytes counted.        *)
BrokenNoCheck(i) ==
  IsHead(i) /\ package_size(i) \in 1 .. DATA_MAX - 1 /\ len >= package_size(i)

FrameAt(i) ==
  /\ IsHead(i) /\ package_size(i) \in 1 .. DATA_MAX - 1 /\ len >= package_size(i)
  /\ Checked(i)

(* The scan gives up after twenty places without a head where it sees a     *)
(* zero: at the place itself, or two places on.                             *)
Scanned(i) ==
  IF port = "clowire" THEN Reached(buf_tmp, i)
  ELSE \A j \in 20 .. i - 1 : \E k \in j - 19 .. j : IsHead(k) \/ At(buf_tmp, k + 2) # 0

Heads == {i \in DOMAIN buf_tmp : FrameAt(i) /\ Scanned(i)}

(* The first frame goes to buf_final and a worker, once the last worker has *)
(* ended; what stood before it goes too, but is not taken from len.         *)
BrokenCutLong(i) == i + package_size(i)
Cut(i) == i + package_size(i) - 1

BrokenNoWait ==
  /\ reader = "cut"
  /\ Heads # {}
  /\ LET i == Min(Heads)
         del_len == Cut(i)
     IN  /\ buf_final' = Bytes(i, package_size(i))
         /\ len' = len - package_size(i)
         /\ p_index' = p_index - del_len
         /\ buf_tmp' = SubSeq(buf_tmp, del_len + 1, BUF_MAX) \o Zeros(Min({del_len, BUF_MAX}))
  /\ p_flag' = 1
  /\ \E created \in Created : workers' = IF created THEN workers + 1 ELSE workers
  /\ UNCHANGED <<line, reader, delivered>>

CutFrame ==
  /\ reader = "cut"
  /\ Heads # {}
  /\ p_flag = 0
  /\ LET i == Min(Heads)
         del_len == Cut(i)
     IN  /\ buf_final' = Bytes(i, package_size(i))
         /\ len' = len - package_size(i)
         /\ p_index' = p_index - del_len
         /\ buf_tmp' = SubSeq(buf_tmp, del_len + 1, BUF_MAX) \o Zeros(Min({del_len, BUF_MAX}))
  /\ p_flag' = 1
  /\ \E created \in Created : workers' = IF created THEN workers + 1 ELSE workers
  /\ UNCHANGED <<line, reader, delivered>>

NoFrame ==
  /\ reader = "cut"
  /\ Heads = {}
  /\ reader' = "read"
  /\ UNCHANGED <<line, buf_tmp, p_index, len, p_flag, buf_final, workers, delivered>>

(* The worker, whose own business is the subject of LightControl and        *)
(* SceneControl: data_to_other_thread or data_to_clo_thread.                *)
BrokenFlagKept ==
  /\ workers > 0
  /\ delivered' = Append(delivered, buf_final)
  /\ workers' = workers - 1
  /\ UNCHANGED <<line, buf_tmp, p_index, len, reader, p_flag, buf_final>>

data_to_other_thread ==
  /\ workers > 0
  /\ delivered' = Append(delivered, buf_final)
  /\ p_flag' = 0
  /\ workers' = workers - 1
  /\ UNCHANGED <<line, buf_tmp, p_index, len, reader, buf_final>>

(* Everything sent is read and handled; the reader waits for more.          *)
Done ==
  /\ wire = <<>>
  /\ reader = "read"
  /\ workers = 0
  /\ UNCHANGED vars

Next ==
  \/ general_serial_read \/ CutFrame \/ NoFrame
  \/ data_to_other_thread
  \/ Done

(* The line delivers, and both threads run.                                 *)
Fairness ==
  /\ WF_vars(general_serial_read \/ CutFrame \/ NoFrame)
  /\ WF_vars(data_to_other_thread)

Spec == Init /\ [][Next]_vars /\ Fairness

--------------------------------------------------------------------------------
(* Properties.                                                              *)

(* Type invariant: at most one worker has buf_final, and the reader knows.  *)
TypeOK ==
  /\ port \in {"clowire", "qiyuan"}
  /\ \A q \in {wire, buf_tmp, buf_final} : \A i \in DOMAIN q : q[i] \in 0 .. 255
  /\ Len(buf_tmp) = BUF_MAX
  /\ p_index \in Int /\ len \in Nat
  /\ reader \in {"read", "cut"}
  /\ p_flag \in {0, 1}
  /\ workers \in 0 .. p_flag

(* However the bytes are spread over reads, what the workers pass on are    *)
(* frames that were sent, in their order: none damaged, doubled or made up, *)
(* though a full buffer is thrown away with the frames in it.               *)
Genuine ==
  \E place \in [DOMAIN delivered -> DOMAIN sent] :
    /\ \A i \in DOMAIN place : delivered[i] = sent[place[i]]
    /\ \A i, j \in DOMAIN place : i < j => place[i] < place[j]

(* What fits the buffer is all passed on: a frame that came in parts is put *)
(* together (the comment on read_to_tmp's call), and none waits for a later *)
(* one.                                                                     *)
Fits ==
  Len(noise) + Len(FlattenSeq([i \in DOMAIN sent |-> OnLine(sent[i])])) < BUF_MAX

AllDelivered == Fits => <>(delivered = sent)

(* What is read goes into buf_tmp (the same comment): the index where the   *)
(* next bytes go lies in the buffer.                                        *)
IndexInBuffer == p_index \in 0 .. BUF_MAX - 1

--------------------------------------------------------------------------------
(* What the bytes have to be like for the reader to find the frames.  TLC   *)
(* evaluates this for the sequences of a run; the proofs assume it.         *)

Stream(before, frames) == before \o FlattenSeq(frames)

(* The bytes that stand before frame k.                                     *)
Before(before, frames, k) == Len(before) + Len(FlattenSeq(SubSeq(frames, 1, k - 1)))

(* From place i on, q passes for a Clowire frame.                           *)
Passes(q, i) ==
  LET n == At(q, i + 5)
  IN  /\ q[i] = FA
      /\ n \in 1 .. DATA_MAX - 1
      /\ At(q, i + n - 1) = XOR_check[[j \in 1 .. n - 1 |-> At(q, i + j - 1)]]

(* m bytes of a stream have been read, and perhaps half of the next.        *)
Seen(q, m, half) == SubSeq(q, 1, m) \o (IF half THEN <<FE>> ELSE <<>>)

(* Nothing passes but a frame, and a frame not before all of it is there:   *)
(* not the rest of one, nor a part with zeros after it.  An XOR of bytes    *)
(* cannot ensure that; it is a property of the bytes sent.                  *)
CheckTells(before, frames) ==
  LET all == Stream(before, frames)
  IN  \A m \in 0 .. Len(all), half \in BOOLEAN :
        (half => m < Len(all) /\ all[m + 1] \in {FA, FE}) =>
          LET q == Seen(all, m, half)
          IN  \A i \in DOMAIN q : Passes(q, i) =>
                \E k \in DOMAIN frames :
                  /\ i = Before(before, frames, k) + 1
                  /\ At(q, i + 5) = Len(frames[k])
                  /\ i + Len(frames[k]) - 1 <= Len(q)
                  /\ \A j \in DOMAIN frames[k] : q[i + j - 1] = frames[k][j]

(* No FE before the frames or at the head of one, none that looks like an   *)
(* escape once it is undone, and never twenty zeros in a row.               *)
Escapable(before, frames) ==
  LET all == Stream(before, frames)
  IN  /\ \A i \in DOMAIN before : before[i] # FE
      /\ \A k \in DOMAIN frames : frames[k][1] # FE
      /\ \A i \in 1 .. Len(all) - 1 : all[i] = FE => all[i + 1] \notin {1, 2}
      /\ \A i \in DOMAIN all : Reached(all, i)

(* A Qiyuan frame's length and circuit number, a head nowhere else in it,   *)
(* and no read that could fill the buffer.                                  *)
Report(frame) ==
  /\ Len(frame) \in 7 .. DATA_MAX - 1
  /\ frame[1] = 128 /\ frame[2] = 255
  /\ frame[5] + 5 = Len(frame)
  /\ frame[7] # 0
  /\ \A i \in 2 .. Len(frame) - 1 : ~ (frame[i] = 128 /\ frame[i + 1] = 255)
  /\ Len(frame) + MaxRead <= BUF_MAX

(* Every stream the constants allow: Clowire frames told by their bytes,    *)
(* and on the Qiyuan port nothing but whole reports.                        *)
Readable ==
  /\ \A before \in Noise, frames \in Traffic :
       CheckTells(before, frames) /\ Escapable(before, frames)
  /\ Strays \subseteq {<<>>}
  /\ \A frames \in Reports : \A k \in DOMAIN frames : Report(frames[k])
================================================================================
