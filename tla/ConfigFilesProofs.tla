--------------------------- MODULE ConfigFilesProofs ---------------------------
(****************************************************************************)
(* What ConfigFiles guarantees for every number of lamps, scene entries,    *)
(* values, calls and stops: no old value comes back, and a recorded         *)
(* brightness is still somewhere.                                           *)
(****************************************************************************)
EXTENDS ConfigFiles, SequenceTheorems, TLAPS

--------------------------------------------------------------------------------
(* The inductive invariant.  NeverStale has to know what the next readers   *)
(* of a file find when the gateway stops at any step: the copy's text and   *)
(* then the file's, the copy alone while it is read back, and the buffer    *)
(* when it is flushed.                                                      *)

(* The steps of a rewrite.                                                  *)
Replacing == {"copy", "open", "remove", "flush"}

(* What the steps know of the call they belong to.                          *)
OpInv ==
  /\ pc # "idle" => op.value \in asked[op.key]
  /\ pc = "append" => op.value # None
  /\ pc \in Replacing => (op.key \in Lamps <=> op.value # None)
  /\ pc = "drop" => op.key \in Entries /\ op.value = None
  /\ pc = "copy" /\ op.key \in Lamps => HasLine(file["photometric"], op.key)

(* What the steps of a rewrite have left in the file, its copy and the      *)
(* buffer.                                                                  *)
RewriteInv ==
  /\ pc \in {"remove", "flush"} => file[StoreOf(op.key)] = <<>>
  /\ pc = "remove" => buffer = copy[StoreOf(op.key)]
  /\ pc = "flush" => copy[StoreOf(op.key)] = <<>>

(* The values of a key that are not old.                                    *)
Current(k) == {saved[k]} \cup asked[k]

(* What the next readers of a key's text find first is not old.             *)
CurrentInv ==
  \A k \in Keys : Stands(k) =>
    LET s == StoreOf(k)
    IN  /\ Newest(copy[s] \o file[s], k, Current(k))
        /\ pc = "open" /\ StoreOf(op.key) = s => Newest(copy[s], k, Current(k))
        /\ pc = "flush" /\ StoreOf(op.key) = s => Newest(buffer, k, Current(k))

(* The new value is already the newest of what will be the file.            *)
AskedInv ==
  /\ pc \in {"open", "remove"} /\ op.key \in Lamps =>
       Newest(copy["photometric"], op.key, {op.value})
  /\ pc = "flush" /\ op.key \in Lamps => Newest(buffer, op.key, {op.value})

(* Where a recorded brightness is.                                          *)
Recorded(l) == saved[l] # None \/ (pc \in {"open", "remove", "flush"} /\ op.key = l)

(* Unless a stop hit the one window, it is in the file, copy or buffer.     *)
KeptInv ==
  ~ wiped => \A l \in Lamps : Recorded(l) =>
    /\ pc = "flush" /\ op.key \in Lamps => HasLine(buffer, l)
    /\ pc \in {"open", "remove"} /\ op.key \in Lamps => HasLine(copy["photometric"], l)
    /\ HasLine(file["photometric"], l) \/ HasLine(copy["photometric"], l)
       \/ (pc = "flush" /\ op.key \in Lamps)

(* The inductive invariant.                                                 *)
IInv == TypeOK /\ OpInv /\ RewriteInv /\ CurrentInv /\ AskedInv /\ KeptInv

--------------------------------------------------------------------------------
(* Texts.                                                                   *)

(* A key's newest line after two texts is that of the second if it is there.*)
LEMMA NewestOfSecond ==
  ASSUME NEW t \in Text, NEW u \in Text, NEW k, NEW V, Newest(t \o u, k, V)
  PROVE  Newest(u, k, V)
<1> SUFFICES ASSUME NEW i \in DOMAIN u, u[i].key = k,
                    \A j \in DOMAIN u : j > i => u[j].key # k
             PROVE  u[i].value \in V
  BY DEF Newest
<1>1. t \in Seq([key : Keys, value : Values] \cup {Gap})
      /\ u \in Seq([key : Keys, value : Values] \cup {Gap})
  BY DEF Text
<1>2. /\ DOMAIN (t \o u) = 1 .. Len(t) + Len(u) /\ DOMAIN u = 1 .. Len(u)
      /\ Len(t) \in Nat /\ Len(u) \in Nat
      /\ \A j \in 1 .. Len(u) : (t \o u)[Len(t) + j] = u[j]
  BY <1>1, SMT
<1>3. Len(t) + i \in DOMAIN (t \o u) /\ (t \o u)[Len(t) + i] = u[i]
  BY <1>2, SMT
<1>4. ASSUME NEW j \in DOMAIN (t \o u), j > Len(t) + i PROVE (t \o u)[j].key # k
  <2>1. j - Len(t) \in DOMAIN u /\ j - Len(t) > i /\ Len(t) + (j - Len(t)) = j
    BY <1>2, <1>4, SMT
  <2> QED BY <1>2, <2>1
<1> QED BY <1>3, <1>4 DEF Newest

(* More values are no harder to be among.                                   *)
LEMMA NewestWidens ==
  ASSUME NEW t, NEW k, NEW V, NEW W, V \subseteq W, Newest(t, k, V)
  PROVE  Newest(t, k, W)
BY DEF Newest

(* A line that is appended is the newest of its key ...                     *)
LEMMA AppendedIsNewest ==
  ASSUME NEW t \in Text, NEW line \in [key : Keys, value : Values]
  PROVE  Newest(Append(t, line), line.key, {line.value})
<1>1. t \in Seq([key : Keys, value : Values] \cup {Gap})
  BY DEF Text
<1>2. /\ DOMAIN Append(t, line) = 1 .. Len(t) + 1 /\ Len(t) \in Nat
      /\ Append(t, line)[Len(t) + 1] = line
  BY <1>1, SMT
<1>3. \A i \in DOMAIN Append(t, line) : i = Len(t) + 1 \/ Len(t) + 1 > i
  BY <1>2, SMT
<1>4. Len(t) + 1 \in DOMAIN Append(t, line)
  BY <1>2, SMT
<1> QED BY <1>2, <1>3, <1>4 DEF Newest

(* ... and changes nothing for the others.                                  *)
LEMMA AppendedToOthers ==
  ASSUME NEW t \in Text, NEW line \in [key : Keys, value : Values],
         NEW k, k # line.key, NEW V, Newest(t, k, V)
  PROVE  Newest(Append(t, line), k, V)
<1>1. t \in Seq([key : Keys, value : Values] \cup {Gap})
  BY DEF Text
<1>2. /\ DOMAIN Append(t, line) = 1 .. Len(t) + 1 /\ DOMAIN t = 1 .. Len(t)
      /\ Len(t) \in Nat
      /\ Append(t, line)[Len(t) + 1] = line
      /\ \A i \in 1 .. Len(t) : Append(t, line)[i] = t[i]
  BY <1>1, SMT
<1> SUFFICES ASSUME NEW i \in DOMAIN Append(t, line), Append(t, line)[i].key = k,
                    \A j \in DOMAIN Append(t, line) :
                      j > i => Append(t, line)[j].key # k
             PROVE  Append(t, line)[i].value \in V
  BY DEF Newest
<1>3. i \in DOMAIN t
  <2>1. i # Len(t) + 1
    BY <1>2
  <2> QED BY <1>2, <2>1, SMT
<1>4. \A j \in DOMAIN t : j \in DOMAIN Append(t, line)
  BY <1>2, SMT
<1> QED BY <1>2, <1>3, <1>4 DEF Newest

(* Appending to the second of two texts.                                    *)
LEMMA AppendToSecond ==
  ASSUME NEW t \in Text, NEW u \in Text, NEW line \in [key : Keys, value : Values]
  PROVE  /\ t \o Append(u, line) = Append(t \o u, line)
         /\ t \o u \in Text /\ Append(u, line) \in Text
<1> DEFINE Lines == [key : Keys, value : Values] \cup {Gap}
<1>1. t \in Seq(Lines) /\ u \in Seq(Lines) /\ line \in Lines
  BY DEF Text
<1>2. t \o u \in Seq(Lines) /\ Append(u, line) \in Seq(Lines)
  BY <1>1
<1> HIDE DEF Lines
<1>3. t \o Append(u, line) = Append(t \o u, line)
  BY <1>1, SMT
<1> QED BY <1>2, <1>3 DEF Text, Lines

(* The newest line of two texts is the newest of one of them.               *)
LEMMA NewestOfBoth ==
  ASSUME NEW t \in Text, NEW u \in Text, NEW k, NEW V, Newest(t, k, V), Newest(u, k, V)
  PROVE  Newest(t \o u, k, V)
<1> DEFINE Lines == [key : Keys, value : Values] \cup {Gap}
<1>1. t \in Seq(Lines) /\ u \in Seq(Lines)
  BY DEF Text
<1> HIDE DEF Lines
<1>2. /\ DOMAIN (t \o u) = 1 .. Len(t) + Len(u)
      /\ DOMAIN t = 1 .. Len(t) /\ DOMAIN u = 1 .. Len(u) /\ Len(t) \in Nat /\ Len(u) \in Nat
      /\ \A j \in 1 .. Len(t) : (t \o u)[j] = t[j]
      /\ \A j \in 1 .. Len(u) : (t \o u)[Len(t) + j] = u[j]
  BY <1>1, SMT
<1> SUFFICES ASSUME NEW i \in DOMAIN (t \o u), (t \o u)[i].key = k,
                    \A j \in DOMAIN (t \o u) : j > i => (t \o u)[j].key # k
             PROVE  (t \o u)[i].value \in V
  BY DEF Newest
<1>3. CASE i \in 1 .. Len(t)
  <2>1. \A j \in DOMAIN t : j > i => t[j].key # k
    BY <1>2, SMT
  <2> QED BY <1>2, <1>3, <2>1 DEF Newest
<1>4. CASE i > Len(t)
  <2> DEFINE p == i - Len(t)
  <2>1. p \in DOMAIN u /\ (t \o u)[i] = u[p]
    <3>1. p \in 1 .. Len(u) /\ Len(t) + p = i
      BY <1>2, <1>4, SMT
    <3> QED BY <1>2, <3>1
  <2>2. ASSUME NEW j \in DOMAIN u, j > p PROVE u[j].key # k
    <3>1. Len(t) + j \in DOMAIN (t \o u) /\ Len(t) + j > i
      BY <1>2, <1>4, <2>2, SMT
    <3> QED BY <1>2, <3>1
  <2> QED BY <2>1, <2>2 DEF Newest
<1> QED BY <1>2, <1>3, <1>4, SMT

(* A second text whose lines of the key are the same in the same places.    *)
LEMMA NewestAfterChange ==
  ASSUME NEW t \in Text, NEW u \in Text, NEW w \in Text, NEW k, NEW V,
         Len(w) = Len(u),
         \A i \in DOMAIN u : w[i].key = k <=> u[i].key = k,
         \A i \in DOMAIN u : u[i].key = k => w[i] = u[i],
         Newest(t \o u, k, V)
  PROVE  Newest(t \o w, k, V)
<1> DEFINE Lines == [key : Keys, value : Values] \cup {Gap}
<1>1. t \in Seq(Lines) /\ u \in Seq(Lines) /\ w \in Seq(Lines)
  BY DEF Text
<1> HIDE DEF Lines
<1>2. /\ DOMAIN (t \o u) = 1 .. Len(t) + Len(u) /\ DOMAIN (t \o w) = 1 .. Len(t) + Len(u)
      /\ DOMAIN u = 1 .. Len(u) /\ Len(t) \in Nat /\ Len(u) \in Nat
      /\ \A j \in 1 .. Len(t) : (t \o u)[j] = t[j] /\ (t \o w)[j] = t[j]
      /\ \A j \in 1 .. Len(t) + Len(u) : j > Len(t) =>
           (t \o u)[j] = u[j - Len(t)] /\ (t \o w)[j] = w[j - Len(t)]
  <2>1. /\ DOMAIN (t \o u) = 1 .. Len(t) + Len(u) /\ Len(t) \in Nat /\ Len(u) \in Nat
        /\ \A j \in 1 .. Len(t) : (t \o u)[j] = t[j]
        /\ \A j \in 1 .. Len(t) + Len(u) : j > Len(t) => (t \o u)[j] = u[j - Len(t)]
    BY <1>1, SMT
  <2>2. /\ DOMAIN (t \o w) = 1 .. Len(t) + Len(w)
        /\ \A j \in 1 .. Len(t) : (t \o w)[j] = t[j]
        /\ \A j \in 1 .. Len(t) + Len(w) : j > Len(t) => (t \o w)[j] = w[j - Len(t)]
    BY <1>1, SMT
  <2>3. DOMAIN u = 1 .. Len(u)
    BY <1>1
  <2> QED BY <2>1, <2>2, <2>3
<1>3. ASSUME NEW j \in DOMAIN (t \o u)
      PROVE  /\ (t \o w)[j].key = k <=> (t \o u)[j].key = k
             /\ (t \o u)[j].key = k => (t \o w)[j] = (t \o u)[j]
  <2>1. CASE j \in 1 .. Len(t)
    BY <1>2, <2>1
  <2>2. CASE j > Len(t)
    <3>1. j - Len(t) \in DOMAIN u /\ (t \o u)[j] = u[j - Len(t)] /\ (t \o w)[j] = w[j - Len(t)]
      BY <1>2, <1>3, <2>2, SMT
    <3> QED BY <3>1
  <2> QED BY <1>2, <1>3, <2>1, <2>2, SMT
<1> QED BY <1>2, <1>3 DEF Newest

(* A second text that has lines of the key, all with one of these values.   *)
LEMMA NewestWithin ==
  ASSUME NEW t \in Text, NEW w \in Text, NEW k, NEW V, HasLine(w, k),
         \A i \in DOMAIN w : w[i].key = k => w[i].value \in V
  PROVE  Newest(t \o w, k, V)
<1> DEFINE Lines == [key : Keys, value : Values] \cup {Gap}
<1>1. t \in Seq(Lines) /\ w \in Seq(Lines)
  BY DEF Text
<1> HIDE DEF Lines
<1>2. /\ DOMAIN (t \o w) = 1 .. Len(t) + Len(w)
      /\ DOMAIN w = 1 .. Len(w) /\ Len(t) \in Nat /\ Len(w) \in Nat
      /\ \A j \in 1 .. Len(w) : (t \o w)[Len(t) + j] = w[j]
  BY <1>1, SMT
<1>3. PICK p \in DOMAIN w : w[p].key = k
  BY DEF HasLine
<1>4. Len(t) + p \in DOMAIN (t \o w) /\ (t \o w)[Len(t) + p].key = k
  BY <1>2, <1>3, SMT
<1> SUFFICES ASSUME NEW i \in DOMAIN (t \o w), (t \o w)[i].key = k,
                    \A j \in DOMAIN (t \o w) : j > i => (t \o w)[j].key # k
             PROVE  (t \o w)[i].value \in V
  BY DEF Newest
<1>5. i >= Len(t) + p
  BY <1>2, <1>4, SMT
<1>6. i - Len(t) \in DOMAIN w /\ Len(t) + (i - Len(t)) = i
  BY <1>2, <1>5, SMT
<1> QED BY <1>2, <1>6

(* Lines stay when more is written behind them, and come with it.           *)
LEMMA LinesOfBoth ==
  ASSUME NEW t \in Text, NEW u \in Text, NEW k, HasLine(t, k) \/ HasLine(u, k)
  PROVE  HasLine(t \o u, k)
<1> DEFINE Lines == [key : Keys, value : Values] \cup {Gap}
<1>1. t \in Seq(Lines) /\ u \in Seq(Lines)
  BY DEF Text
<1> HIDE DEF Lines
<1>2. /\ DOMAIN (t \o u) = 1 .. Len(t) + Len(u)
      /\ DOMAIN t = 1 .. Len(t) /\ DOMAIN u = 1 .. Len(u) /\ Len(t) \in Nat /\ Len(u) \in Nat
      /\ \A j \in 1 .. Len(t) : (t \o u)[j] = t[j] /\ j \in 1 .. Len(t) + Len(u)
      /\ \A j \in 1 .. Len(u) :
           (t \o u)[Len(t) + j] = u[j] /\ Len(t) + j \in 1 .. Len(t) + Len(u)
  BY <1>1, SMT
<1> QED BY <1>2 DEF HasLine

(* A text that is longer by a line has its lines and that one.              *)
LEMMA LinesAfterAppend ==
  ASSUME NEW t \in Text, NEW line \in [key : Keys, value : Values], NEW k,
         HasLine(t, k) \/ line.key = k
  PROVE  HasLine(Append(t, line), k)
<1>1. t \in Seq([key : Keys, value : Values] \cup {Gap})
  BY DEF Text
<1>2. /\ DOMAIN Append(t, line) = 1 .. Len(t) + 1 /\ DOMAIN t = 1 .. Len(t)
      /\ Len(t) \in Nat /\ Len(t) + 1 \in 1 .. Len(t) + 1
      /\ Append(t, line)[Len(t) + 1] = line
      /\ \A i \in 1 .. Len(t) : Append(t, line)[i] = t[i] /\ i \in 1 .. Len(t) + 1
  BY <1>1, SMT
<1> QED BY <1>2 DEF HasLine

(* Nothing is in an empty text, and it adds nothing.                        *)
LEMMA EmptyText ==
  /\ <<>> \in Text
  /\ \A t \in Text : t \o <<>> = t /\ <<>> \o t = t
  /\ \A k, V : Newest(<<>>, k, V)
<1>1. <<>> \in Text /\ DOMAIN <<>> = {}
  BY SMT DEF Text
<1>2. ASSUME NEW t \in Text PROVE t \o <<>> = t /\ <<>> \o t = t
  <2> DEFINE Lines == [key : Keys, value : Values] \cup {Gap}
  <2>1. t \in Seq(Lines)
    BY DEF Text
  <2> HIDE DEF Lines
  <2> QED BY <2>1, SMT
<1> QED BY <1>1, <1>2 DEF Newest

(* Two texts are a text.                                                    *)
LEMMA ConcatText ==
  ASSUME NEW t \in Text, NEW u \in Text
  PROVE  t \o u \in Text
<1> DEFINE Lines == [key : Keys, value : Values] \cup {Gap}
<1>1. t \in Seq(Lines) /\ u \in Seq(Lines)
  BY DEF Text
<1>2. t \o u \in Seq(Lines)
  BY <1>1
<1> QED BY <1>2 DEF Text

--------------------------------------------------------------------------------
(* Types.                                                                   *)

(* The new text has as many lines, and only those of the key are changed.   *)
LEMMA NewTextType ==
  ASSUME TypeOK, OpInv, pc = "copy"
  PROVE  LET text == file[StoreOf(op.key)]
         IN  /\ text \in Text /\ NewText \in Text
             /\ DOMAIN NewText = DOMAIN text /\ Len(NewText) = Len(text)
             /\ op.key \in Keys
             /\ \A i \in DOMAIN text :
                  /\ text[i].key # op.key => NewText[i] = text[i]
                  /\ text[i].key = op.key =>
                       NewText[i] = IF op.key \in Lamps THEN op ELSE Gap
<1> DEFINE text == file[StoreOf(op.key)]
           Lines == [key : Keys, value : Values] \cup {Gap}
<1>1. op \in [key : Keys, value : Values \cup {None}] /\ op.key \in Keys
  BY DEF TypeOK
<1>2. StoreOf(op.key) \in Stores
  BY DEF StoreOf, Stores
<1>3. text \in Text /\ text \in Seq(Lines)
  BY <1>2 DEF TypeOK, Text
<1>4. op.value # None => op \in Lines
  BY <1>1
<1>5. op.value # None <=> op.key \in Lamps
  BY DEF OpInv, Replacing
<1>6. DOMAIN text = 1 .. Len(text) /\ Len(text) \in Nat /\ \A i \in DOMAIN text : text[i] \in Lines
  BY <1>3
<1>7. Gap \in Lines
  OBVIOUS
<1> HIDE DEF Lines
<1>8. DOMAIN NewText = DOMAIN text
  BY DEF NewText
<1>9. \A i \in DOMAIN text : NewText[i] \in Lines
  BY <1>4, <1>6, <1>7 DEF NewText
<1>10. NewText = [i \in 1 .. Len(text) |-> NewText[i]]
  BY <1>6, <1>8 DEF NewText
<1>11. NewText \in [1 .. Len(text) -> Lines]
  BY <1>6, <1>8, <1>9, <1>10
<1>12. NewText \in Seq(Lines) /\ Len(NewText) = Len(text)
  BY <1>6, <1>11, SMT
<1>13. NewText \in Text
  BY <1>12 DEF Text, Lines
<1>14. \A i \in DOMAIN text :
         /\ text[i].key # op.key => NewText[i] = text[i]
         /\ text[i].key = op.key => NewText[i] = IF op.key \in Lamps THEN op ELSE Gap
  BY <1>5 DEF NewText
<1> QED BY <1>1, <1>3, <1>8, <1>12, <1>13, <1>14

(* The invariant holds of the files as they are delivered.                  *)
LEMMA InvInit == Init => IInv
<1> SUFFICES ASSUME Init PROVE IInv
  OBVIOUS
<1>1. TypeOK
  BY EmptyText DEF Init, TypeOK
<1>2. CurrentInv
  BY DEF Init, CurrentInv, Stands
<1>3. OpInv /\ RewriteInv /\ AskedInv
  BY DEF Init, OpInv, RewriteInv, AskedInv, Replacing
<1>4. KeptInv
  <2>1. \A l \in Lamps : l \in Keys /\ saved[l] = None
    BY DEF Init, Keys
  <2> QED BY <2>1 DEF Init, KeptInv, Recorded
<1> QED BY <1>1, <1>2, <1>3, <1>4 DEF IInv

(* What a call under way is.                                                *)
LEMMA OpType ==
  ASSUME TypeOK, pc # "idle"
  PROVE  /\ op \in [key : Keys, value : Values \cup {None}]
         /\ op.key \in Keys /\ op.value \in Values \cup {None}
         /\ op.value # None => op \in [key : Keys, value : Values]
         /\ StoreOf(op.key) \in Stores
         /\ file[StoreOf(op.key)] \in Text /\ copy[StoreOf(op.key)] \in Text
<1>1. op \in [key : Keys, value : Values \cup {None}]
  BY DEF TypeOK
<1>2. StoreOf(op.key) \in Stores
  BY DEF StoreOf, Stores
<1> QED BY <1>1, <1>2 DEF TypeOK

(* Every file operation, and a stop, keeps the types ...                    *)
LEMMA TypeStep == IInv /\ [Next]_vars => TypeOK'
<1> SUFFICES ASSUME TypeOK, OpInv, [Next]_vars PROVE TypeOK'
  BY DEF IInv
<1>1. ASSUME NEW k \in Keys, NEW v \in Values \cup {None},
             NEW w \in {"append", "copy"}, Ask(k, v, w)
      PROVE  TypeOK'
  <2>1. op' \in [key : Keys, value : Values \cup {None}] /\ op' # None
    BY <1>1, FilesAssumption DEF Ask, Line
  <2>2. asked' \in [Keys -> SUBSET (Values \cup {None})]
    BY <1>1 DEF Ask, TypeOK
  <2>3. pc' \in {"append", "copy"}
    BY <1>1 DEF Ask
  <2> QED BY <1>1, <2>1, <2>2, <2>3 DEF Ask, TypeOK
<1>2. CASE save_dimmer_value
  BY <1>1, <1>2 DEF save_dimmer_value, Keys
<1>3. CASE save_scene_para
  BY <1>1, <1>3 DEF save_scene_para, Keys
<1>4. CASE delete_scene_para
  BY <1>1, <1>4 DEF delete_scene_para, Keys
<1>5. ASSUME Finish, pc # "idle"
      PROVE  /\ pc' = "idle" /\ op' = None
             /\ saved' \in [Keys -> Values \cup {None}]
             /\ asked' \in [Keys -> SUBSET (Values \cup {None})]
  BY <1>5, OpType DEF Finish, TypeOK
<1>6. CASE AppendLine
  <2>1. pc # "idle" /\ op.value # None
    BY <1>6 DEF AppendLine, OpInv
  <2>2. Append(file[StoreOf(op.key)], op) \in Text
    BY <2>1, OpType, AppendToSecond, EmptyText
  <2>3. file' \in [Stores -> Text]
    BY <1>6, <2>2 DEF AppendLine, TypeOK
  <2> QED BY <1>5, <1>6, <2>1, <2>3 DEF AppendLine, TypeOK
<1>7. CASE WriteCopy
  <2>1. copy[StoreOf(op.key)] \o NewText \in Text
    <3>1. pc = "copy" /\ pc # "idle"
      BY <1>7 DEF WriteCopy
    <3> QED BY <3>1, OpType, NewTextType, ConcatText
  <2>2. copy' \in [Stores -> Text]
    BY <1>7, <2>1 DEF WriteCopy, TypeOK
  <2>3. pc' \in {"open", "drop"} /\ op # None
    BY <1>7 DEF WriteCopy, TypeOK
  <2> QED BY <1>7, <2>2, <2>3 DEF WriteCopy, TypeOK, ghosts, counts
<1>8. CASE DropCopy
  BY <1>5, <1>8, EmptyText DEF DropCopy, TypeOK
<1>9. CASE ReadBack
  BY <1>9, EmptyText, OpType DEF ReadBack, TypeOK, ghosts, counts
<1>10. CASE RemoveCopy
  BY <1>10, EmptyText DEF RemoveCopy, TypeOK, ghosts, counts
<1>11. CASE Flush
  BY <1>5, <1>11, EmptyText DEF Flush, TypeOK
<1>12. CASE Crash
  BY <1>12, EmptyText DEF Crash, TypeOK
<1>13. CASE UNCHANGED vars
  BY <1>13 DEF vars, call, ghosts, counts, TypeOK
<1> QED BY <1>2, <1>3, <1>4, <1>6, <1>7, <1>8, <1>9, <1>10, <1>11, <1>12, <1>13 DEF Next

--------------------------------------------------------------------------------
(* The steps of the worker.                                                 *)

(* The file of a lamp is one, the file of an entry the other.               *)
LEMMA StoreSplits ==
  /\ \A l \in Lamps : StoreOf(l) = "photometric"
  /\ \A e \in Entries : StoreOf(e) = "scene"
  /\ \A k \in Keys : StoreOf(k) \in Stores
  /\ \A k \in Keys : StoreOf(k) = "photometric" <=> k \in Lamps
BY FilesAssumption DEF StoreOf, Stores, Keys

(* ... what is known of the call and what a rewrite has left ...            *)
LEMMA OpStep == IInv /\ [Next]_vars => OpInv' /\ RewriteInv'
<1> SUFFICES ASSUME TypeOK, OpInv, RewriteInv, [Next]_vars PROVE OpInv' /\ RewriteInv'
  BY DEF IInv
<1>1. ASSUME pc' = "idle" PROVE OpInv' /\ RewriteInv'
  BY <1>1 DEF OpInv, RewriteInv, Replacing
<1>2. ASSUME NEW k \in Keys, NEW v \in Values \cup {None},
             NEW w \in {"append", "copy"}, Ask(k, v, w)
      PROVE  op'.key = k /\ op'.value = v /\ pc' = w /\ v \in asked'[k] /\ file' = file
  BY <1>2 DEF Ask, Line, TypeOK
<1>3. CASE save_dimmer_value
  <2>1. PICK l \in Lamps, v \in Values :
          Ask(l, v, IF HasLine(file["photometric"], l) THEN "copy" ELSE "append")
    BY <1>3 DEF save_dimmer_value
  <2>2. l \in Keys /\ v # None /\ v \in Values \cup {None}
    BY FilesAssumption DEF Keys
  <2>3. CASE HasLine(file["photometric"], l)
    <3>1. Ask(l, v, "copy")
      BY <2>1, <2>3
    <3> QED BY <1>2, <2>2, <2>3, <3>1 DEF OpInv, RewriteInv, Replacing
  <2>4. CASE ~ HasLine(file["photometric"], l)
    <3>1. Ask(l, v, "append")
      BY <2>1, <2>4
    <3> QED BY <1>2, <2>2, <3>1 DEF OpInv, RewriteInv, Replacing
  <2> QED BY <2>3, <2>4
<1>4. CASE save_scene_para
  <2>1. PICK e \in Entries, v \in Values : Ask(e, v, "append")
    BY <1>4 DEF save_scene_para
  <2>2. e \in Keys /\ v # None /\ v \in Values \cup {None}
    BY FilesAssumption DEF Keys
  <2> QED BY <1>2, <2>1, <2>2 DEF OpInv, RewriteInv, Replacing
<1>5. CASE delete_scene_para
  <2>1. PICK e \in Entries : Ask(e, None, "copy")
    BY <1>5 DEF delete_scene_para
  <2>2. e \in Keys /\ e \notin Lamps
    BY FilesAssumption DEF Keys
  <2> QED BY <1>2, <2>1, <2>2 DEF OpInv, RewriteInv, Replacing
<1>6. CASE AppendLine
  BY <1>1, <1>6 DEF AppendLine, Finish
<1>7. CASE WriteCopy
  <2>1. op.key \in Lamps => HasLine(file[StoreOf(op.key)], op.key)
    BY <1>7, StoreSplits DEF WriteCopy, OpInv
  <2>2. op.key \in Keys
    BY <1>7, OpType DEF WriteCopy
  <2> QED BY <1>7, <2>1, <2>2 DEF WriteCopy, OpInv, RewriteInv, Replacing, Keys, ghosts
<1>8. CASE DropCopy
  BY <1>1, <1>8 DEF DropCopy, Finish
<1>9. CASE ReadBack
  <2>1. StoreOf(op.key) \in Stores
    BY <1>9, OpType DEF ReadBack
  <2> QED BY <1>9, <2>1 DEF ReadBack, OpInv, RewriteInv, Replacing, ghosts, TypeOK
<1>10. CASE RemoveCopy
  <2>1. StoreOf(op.key) \in Stores
    BY <1>10, OpType DEF RemoveCopy
  <2> QED BY <1>10, <2>1 DEF RemoveCopy, OpInv, RewriteInv, Replacing, ghosts, TypeOK
<1>11. CASE Flush
  BY <1>1, <1>11 DEF Flush, Finish
<1>12. CASE Crash
  BY <1>1, <1>12 DEF Crash
<1>13. CASE UNCHANGED vars
  BY <1>13 DEF vars, call, ghosts, counts, OpInv, RewriteInv
<1> QED BY <1>3, <1>4, <1>5, <1>6, <1>7, <1>8, <1>9, <1>10, <1>11, <1>12, <1>13 DEF Next

(* The new value of a lamp is the newest of the copy as soon as it is       *)
(* written there.                                                           *)
LEMMA AskedStep == IInv /\ [Next]_vars => AskedInv'
<1> SUFFICES ASSUME TypeOK, OpInv, RewriteInv, AskedInv, [Next]_vars PROVE AskedInv'
  BY DEF IInv
<1>1. ASSUME pc' \notin {"open", "remove", "flush"} PROVE AskedInv'
  BY <1>1 DEF AskedInv
<1>2. CASE WriteCopy
  <2> SUFFICES ASSUME op.key \in Lamps, pc' = "open"
               PROVE  Newest(copy'["photometric"], op.key, {op.value})
    BY <1>2 DEF AskedInv, WriteCopy
  <2> DEFINE text == file["photometric"]
  <2>1. StoreOf(op.key) = "photometric" /\ pc = "copy" /\ HasLine(text, op.key)
    BY <1>2, StoreSplits DEF WriteCopy, OpInv
  <2>2. copy'["photometric"] = copy["photometric"] \o NewText
    BY <1>2, <2>1 DEF WriteCopy, TypeOK, Stores
  <2>3. /\ NewText \in Text /\ DOMAIN NewText = DOMAIN text
        /\ \A i \in DOMAIN text :
             /\ text[i].key # op.key => NewText[i] = text[i]
             /\ text[i].key = op.key => NewText[i] = op
    BY <2>1, NewTextType
  <2>4. HasLine(NewText, op.key)
    BY <2>1, <2>3 DEF HasLine
  <2>5. \A i \in DOMAIN NewText : NewText[i].key = op.key => NewText[i].value \in {op.value}
    BY <2>3
  <2>6. copy["photometric"] \in Text
    BY DEF TypeOK, Stores
  <2> QED BY <2>2, <2>3, <2>4, <2>5, <2>6, NewestWithin
<1>3. CASE ReadBack
  BY <1>3 DEF ReadBack, AskedInv
<1>4. CASE RemoveCopy
  <2>1. buffer = copy[StoreOf(op.key)] /\ (op.key \in Lamps => StoreOf(op.key) = "photometric")
    BY <1>4, StoreSplits DEF RemoveCopy, RewriteInv
  <2> QED BY <1>4, <2>1 DEF RemoveCopy, AskedInv
<1>5. CASE UNCHANGED vars
  BY <1>5 DEF vars, call, AskedInv
<1>6. ASSUME NEW k, NEW v, NEW w \in {"append", "copy"}, Ask(k, v, w) PROVE AskedInv'
  BY <1>1, <1>6 DEF Ask
<1>7. CASE save_dimmer_value \/ save_scene_para \/ delete_scene_para
  BY <1>6, <1>7 DEF save_dimmer_value, save_scene_para, delete_scene_para
<1>8. CASE AppendLine \/ DropCopy \/ Flush \/ Crash
  BY <1>1, <1>8 DEF AppendLine, DropCopy, Flush, Crash, Finish
<1> QED BY <1>2, <1>3, <1>4, <1>5, <1>7, <1>8 DEF Next

--------------------------------------------------------------------------------
(* No old value is the newest of what a reader will find.                   *)

(* CurrentInv of one key.                                                   *)
CurrentOf(k) ==
  Stands(k) =>
    LET s == StoreOf(k)
    IN  /\ Newest(copy[s] \o file[s], k, Current(k))
        /\ pc = "open" /\ StoreOf(op.key) = s => Newest(copy[s], k, Current(k))
        /\ pc = "flush" /\ StoreOf(op.key) = s => Newest(buffer, k, Current(k))

(* A key whose value stands is not being deleted.                           *)
LEMMA StandingOp ==
  ASSUME OpInv, pc # "idle", Stands(op.key)
  PROVE  op.value # None
BY DEF OpInv, Stands

(* A call that is accepted only makes a value stand less, and adds to those *)
(* that are current.                                                        *)
LEMMA CurrentAsked ==
  ASSUME TypeOK, CurrentInv, NEW k \in Keys, NEW v, NEW w \in {"append", "copy"}, Ask(k, v, w)
  PROVE  CurrentInv'
<1> SUFFICES ASSUME NEW x \in Keys, Stands(x)' PROVE CurrentOf(x)'
  BY DEF CurrentInv, CurrentOf
<1>1. asked[x] \subseteq asked'[x] /\ saved'[x] = saved[x]
  BY DEF Ask, TypeOK
<1>2. Stands(x) /\ Current(x) \subseteq Current(x)'
  BY <1>1 DEF Stands, Current
<1>3. Newest(copy[StoreOf(x)] \o file[StoreOf(x)], x, Current(x))
  BY <1>2 DEF CurrentInv
<1>4. Newest(copy[StoreOf(x)] \o file[StoreOf(x)], x, Current(x)')
  BY <1>2, <1>3, NewestWidens
<1>5. copy' = copy /\ file' = file /\ pc' \notin {"open", "flush"}
  BY DEF Ask
<1> QED BY <1>4, <1>5 DEF CurrentOf

(* A call that ends leaves only its own value current.                      *)
LEMMA Finished ==
  ASSUME TypeOK, pc # "idle", Finish, NEW x \in Keys
  PROVE  /\ x # op.key => Stands(x)' = Stands(x) /\ Current(x)' = Current(x)
         /\ x = op.key => (Stands(x)' <=> op.value # None) /\ Current(x)' = {op.value}
         /\ pc' = "idle"
<1>1. op.key \in Keys
  BY OpType
<1> QED BY <1>1 DEF Finish, TypeOK, Stands, Current

(* ... that nothing old comes first ...                                     *)
LEMMA CurrentStep == IInv /\ [Next]_vars => CurrentInv'
<1> SUFFICES ASSUME TypeOK, OpInv, RewriteInv, CurrentInv, AskedInv, [Next]_vars PROVE CurrentInv'
  BY DEF IInv
<1>0. \A x \in Keys : /\ StoreOf(x) \in Stores
                      /\ file[StoreOf(x)] \in Text /\ copy[StoreOf(x)] \in Text
                      /\ copy[StoreOf(x)] \o file[StoreOf(x)] \in Text
  BY StoreSplits, ConcatText DEF TypeOK
<1>1. CASE save_dimmer_value \/ save_scene_para \/ delete_scene_para
  BY <1>1, CurrentAsked, StoreSplits
     DEF save_dimmer_value, save_scene_para, delete_scene_para, Keys
<1>2. CASE AppendLine
  <2> SUFFICES ASSUME NEW x \in Keys, Stands(x)' PROVE CurrentOf(x)'
    BY DEF CurrentInv, CurrentOf
  <2> DEFINE s == StoreOf(x)
  <2>1. /\ pc # "idle" /\ Finish /\ copy' = copy /\ op \in [key : Keys, value : Values]
        /\ file' = [file EXCEPT ![StoreOf(op.key)] = Append(@, op)]
    BY <1>2, OpType DEF AppendLine, OpInv
  <2>2. copy[s] \o Append(file[s], op) = Append(copy[s] \o file[s], op)
    BY <1>0, <2>1, AppendToSecond
  <2>3. CASE x = op.key
    <3>1. Newest(Append(copy[s] \o file[s], op), x, {op.value})
      BY <1>0, <2>1, <2>3, AppendedIsNewest
    <3>2. file'[s] = Append(file[s], op)
      BY <1>0, <2>1, <2>3 DEF TypeOK
    <3> QED BY <2>1, <2>2, <2>3, <3>1, <3>2, Finished DEF CurrentOf
  <2>4. CASE x # op.key
    <3>1. Stands(x) /\ Current(x)' = Current(x) /\ pc' = "idle"
      BY <2>1, <2>4, Finished
    <3>2. Newest(copy[s] \o file[s], x, Current(x))
      BY <3>1 DEF CurrentInv
    <3>3. Newest(Append(copy[s] \o file[s], op), x, Current(x))
      BY <1>0, <2>1, <2>4, <3>2, AppendedToOthers
    <3>4. file'[s] = Append(file[s], op) \/ file'[s] = file[s]
      BY <1>0, <2>1 DEF TypeOK
    <3> QED BY <2>1, <2>2, <3>1, <3>2, <3>3, <3>4 DEF CurrentOf
  <2> QED BY <2>3, <2>4
<1>3. CASE WriteCopy
  <2> SUFFICES ASSUME NEW x \in Keys, Stands(x)' PROVE CurrentOf(x)'
    BY DEF CurrentInv, CurrentOf
  <2> DEFINE s == StoreOf(x)
             text == file[StoreOf(op.key)]
  <2>1. /\ pc = "copy" /\ file' = file /\ op' = op /\ pc' \in {"open", "drop"}
        /\ copy' = [copy EXCEPT ![StoreOf(op.key)] = @ \o NewText]
        /\ Stands(x) /\ Current(x)' = Current(x)
    BY <1>3 DEF WriteCopy, Stands, Current, ghosts
  <2>2. Newest(copy[s] \o file[s], x, Current(x))
    BY <2>1 DEF CurrentInv
  <2>3. CASE s # StoreOf(op.key)
    <3>1. copy'[s] = copy[s]
      BY <1>0, <2>1, <2>3 DEF TypeOK
    <3> QED BY <2>1, <2>2, <2>3, <3>1 DEF CurrentOf
  <2>4. CASE s = StoreOf(op.key)
    <3>1. /\ NewText \in Text /\ DOMAIN NewText = DOMAIN text /\ Len(NewText) = Len(text)
          /\ \A i \in DOMAIN text :
               /\ text[i].key # op.key => NewText[i] = text[i]
               /\ text[i].key = op.key => NewText[i] = IF op.key \in Lamps THEN op ELSE Gap
      BY <2>1, NewTextType
    <3>2. copy'[s] = copy[s] \o NewText /\ copy'[s] \in Text
      BY <1>0, <2>1, <2>4, <3>1, ConcatText DEF TypeOK
    <3>3. op.key \in Keys /\ op.value \in asked[op.key]
      BY <2>1, OpType DEF OpInv
    <3>4. Newest(copy[s] \o NewText, x, Current(x))
      <4>1. CASE x # op.key
        <5>1. \A i \in DOMAIN text : NewText[i].key = x <=> text[i].key = x
          BY <3>1, <4>1, FilesAssumption DEF Gap, Line, Keys
        <5>2. \A i \in DOMAIN text : text[i].key = x => NewText[i] = text[i]
          BY <3>1, <4>1
        <5>3. copy[s] \in Text /\ text \in Text /\ text = file[s]
          BY <1>0, <2>4
        <5> QED BY <2>2, <3>1, <5>1, <5>2, <5>3, NewestAfterChange
      <4>2. CASE x = op.key
        <5>1. op.value # None
          BY <2>1, <4>2, StandingOp
        <5>2. op.key \in Lamps /\ HasLine(text, op.key)
          BY <2>1, <5>1, StoreSplits DEF OpInv, Replacing
        <5>3. \A i \in DOMAIN text : NewText[i].key = op.key => NewText[i].value \in Current(x)
          BY <3>1, <3>3, <4>2, <5>2 DEF Current
        <5>4. HasLine(NewText, op.key)
          BY <3>1, <5>2 DEF HasLine
        <5> QED BY <1>0, <3>1, <4>2, <5>3, <5>4, NewestWithin
      <4> QED BY <4>1, <4>2
    <3>5. Newest(copy'[s] \o file'[s], x, Current(x))
      <4>1. Newest(file[s], x, Current(x))
        BY <1>0, <2>2, NewestOfSecond
      <4> QED BY <1>0, <2>1, <3>2, <3>4, <4>1, NewestOfBoth
    <3> QED BY <2>1, <3>2, <3>4, <3>5 DEF CurrentOf
  <2> QED BY <2>3, <2>4
<1>4. CASE DropCopy
  <2> SUFFICES ASSUME NEW x \in Keys, Stands(x)' PROVE CurrentOf(x)'
    BY DEF CurrentInv, CurrentOf
  <2> DEFINE s == StoreOf(x)
  <2>1. pc # "idle" /\ Finish /\ file' = file /\ copy' = [copy EXCEPT !["scene"] = <<>>]
        /\ op.value = None
    BY <1>4 DEF DropCopy, OpInv
  <2>2. x # op.key /\ Stands(x) /\ Current(x)' = Current(x) /\ pc' = "idle"
    BY <2>1, Finished
  <2>3. Newest(copy[s] \o file[s], x, Current(x))
    BY <2>2 DEF CurrentInv
  <2>4. Newest(file[s], x, Current(x))
    BY <1>0, <2>3, NewestOfSecond
  <2>5. copy'[s] = copy[s] \/ copy'[s] = <<>>
    BY <1>0, <2>1 DEF TypeOK
  <2> QED BY <1>0, <2>1, <2>2, <2>3, <2>4, <2>5, EmptyText DEF CurrentOf
<1>5. CASE ReadBack
  <2> SUFFICES ASSUME NEW x \in Keys, Stands(x)' PROVE CurrentOf(x)'
    BY DEF CurrentInv, CurrentOf
  <2> DEFINE s == StoreOf(x)
  <2>1. /\ pc = "open" /\ pc' = "remove" /\ copy' = copy /\ op' = op
        /\ file' = [file EXCEPT ![StoreOf(op.key)] = <<>>]
        /\ Stands(x) /\ Current(x)' = Current(x)
    BY <1>5 DEF ReadBack, Stands, Current, ghosts
  <2>2. /\ Newest(copy[s] \o file[s], x, Current(x))
        /\ StoreOf(op.key) = s => Newest(copy[s], x, Current(x))
    BY <2>1 DEF CurrentInv
  <2>3. IF StoreOf(op.key) = s THEN file'[s] = <<>> ELSE file'[s] = file[s]
    BY <1>0, <2>1 DEF TypeOK
  <2> QED BY <1>0, <2>1, <2>2, <2>3, EmptyText DEF CurrentOf
<1>6. CASE RemoveCopy
  <2> SUFFICES ASSUME NEW x \in Keys, Stands(x)' PROVE CurrentOf(x)'
    BY DEF CurrentInv, CurrentOf
  <2> DEFINE s == StoreOf(x)
  <2>1. /\ pc = "remove" /\ pc' = "flush" /\ file' = file /\ op' = op /\ buffer' = buffer
        /\ copy' = [copy EXCEPT ![StoreOf(op.key)] = <<>>]
        /\ Stands(x) /\ Current(x)' = Current(x)
        /\ file[StoreOf(op.key)] = <<>> /\ buffer = copy[StoreOf(op.key)]
    BY <1>6 DEF RemoveCopy, Stands, Current, ghosts, RewriteInv
  <2>2. Newest(copy[s] \o file[s], x, Current(x))
    BY <2>1 DEF CurrentInv
  <2>3. CASE StoreOf(op.key) = s
    <3>1. copy'[s] = <<>> /\ file'[s] = <<>> /\ buffer' = copy[s] \o file[s]
      BY <1>0, <2>1, <2>3, EmptyText DEF TypeOK
    <3> QED BY <2>1, <2>2, <3>1, EmptyText DEF CurrentOf
  <2>4. CASE StoreOf(op.key) # s
    <3>1. copy'[s] = copy[s]
      BY <1>0, <2>1, <2>4 DEF TypeOK
    <3> QED BY <2>1, <2>2, <2>4, <3>1 DEF CurrentOf
  <2> QED BY <2>3, <2>4
<1>7. CASE Flush
  <2> SUFFICES ASSUME NEW x \in Keys, Stands(x)' PROVE CurrentOf(x)'
    BY DEF CurrentInv, CurrentOf
  <2> DEFINE s == StoreOf(x)
  <2>1. /\ pc = "flush" /\ pc # "idle" /\ Finish /\ copy' = copy
        /\ file' = [file EXCEPT ![StoreOf(op.key)] = buffer]
        /\ copy[StoreOf(op.key)] = <<>> /\ buffer \in Text
        /\ op.key \in Lamps <=> op.value # None
    BY <1>7 DEF Flush, RewriteInv, OpInv, Replacing, TypeOK
  <2>2. CASE x = op.key
    <3>1. op.value # None /\ Current(x)' = {op.value} /\ pc' = "idle"
      BY <2>1, <2>2, Finished
    <3>2. Newest(buffer, x, {op.value})
      BY <2>1, <2>2, <3>1 DEF AskedInv
    <3>3. copy'[s] \o file'[s] = buffer
      BY <1>0, <2>1, <2>2, EmptyText DEF TypeOK
    <3> QED BY <3>1, <3>2, <3>3 DEF CurrentOf
  <2>3. CASE x # op.key
    <3>1. Stands(x) /\ Current(x)' = Current(x) /\ pc' = "idle"
      BY <2>1, <2>3, Finished
    <3>2. Newest(copy[s] \o file[s], x, Current(x))
          /\ (StoreOf(op.key) = s => Newest(buffer, x, Current(x)))
      BY <2>1, <3>1 DEF CurrentInv
    <3>3. IF StoreOf(op.key) = s THEN copy'[s] \o file'[s] = buffer ELSE file'[s] = file[s]
      BY <1>0, <2>1, EmptyText DEF TypeOK
    <3> QED BY <2>1, <3>1, <3>2, <3>3 DEF CurrentOf
  <2> QED BY <2>2, <2>3
<1>8. CASE Crash
  BY <1>8 DEF Crash, CurrentInv, Stands, Current
<1>9. CASE UNCHANGED vars
  BY <1>9 DEF vars, call, ghosts, CurrentInv, Stands, Current
<1> QED BY <1>1, <1>2, <1>3, <1>4, <1>5, <1>6, <1>7, <1>8, <1>9 DEF Next

--------------------------------------------------------------------------------
(* A recorded brightness is somewhere.                                      *)

(* ... and where the brightness values are.                                 *)
LEMMA KeptStep == IInv /\ [Next]_vars => KeptInv'
<1> SUFFICES ASSUME TypeOK, OpInv, RewriteInv, KeptInv, [Next]_vars, ~ wiped'
             PROVE  KeptInv'
  BY DEF IInv, KeptInv
<1> DEFINE F == file["photometric"]
           C == copy["photometric"]
           Here(l) ==
             /\ pc = "flush" /\ op.key \in Lamps => HasLine(buffer, l)
             /\ pc \in {"open", "remove"} /\ op.key \in Lamps => HasLine(C, l)
             /\ HasLine(F, l) \/ HasLine(C, l) \/ (pc = "flush" /\ op.key \in Lamps)
<1>0. F \in Text /\ C \in Text /\ buffer \in Text
  BY DEF TypeOK, Stores
<1>1. ASSUME ~ wiped, NEW l \in Lamps, Recorded(l) PROVE Here(l)
  BY <1>1 DEF KeptInv
<1> SUFFICES ASSUME NEW l \in Lamps, Recorded(l)' PROVE Here(l)'
  BY DEF KeptInv
<1>2. l \in Keys /\ StoreOf(l) = "photometric"
  BY StoreSplits DEF Keys
<1>3. ASSUME NEW k, NEW v, NEW w \in {"append", "copy"}, Ask(k, v, w) PROVE Here(l)'
  <2>1. saved' = saved /\ pc' = w /\ pc = "idle" /\ file' = file /\ copy' = copy /\ wiped' = wiped
    BY <1>3 DEF Ask
  <2>2. Recorded(l)
    BY <2>1 DEF Recorded
  <2>3. HasLine(F, l) \/ HasLine(C, l)
    BY <1>1, <2>1, <2>2
  <2> QED BY <2>1, <2>3
<1>4. CASE save_dimmer_value \/ save_scene_para \/ delete_scene_para
  BY <1>3, <1>4 DEF save_dimmer_value, save_scene_para, delete_scene_para
<1>5. CASE AppendLine
  <2>1. /\ pc = "append" /\ pc' = "idle" /\ copy' = copy /\ wiped' = wiped
        /\ op \in [key : Keys, value : Values] /\ op.key \in Keys
        /\ file' = [file EXCEPT ![StoreOf(op.key)] = Append(@, op)]
        /\ saved' = [saved EXCEPT ![op.key] = op.value]
    BY <1>5, OpType DEF AppendLine, OpInv, Finish
  <2>2. CASE op.key = l
    <3>1. file'["photometric"] = Append(F, op)
      BY <1>2, <2>1, <2>2 DEF TypeOK, Stores
    <3>2. HasLine(file'["photometric"], l)
      BY <1>0, <2>1, <2>2, <3>1, LinesAfterAppend
    <3> QED BY <2>1, <3>2
  <2>3. CASE op.key # l
    <3>1. Recorded(l)
      BY <1>2, <2>1, <2>3 DEF Recorded, TypeOK
    <3>2. HasLine(F, l) \/ HasLine(C, l)
      BY <1>1, <2>1, <3>1
    <3>3. file'["photometric"] = Append(F, op) \/ file'["photometric"] = F
      BY <2>1 DEF TypeOK, Stores
    <3>4. HasLine(F, l) => HasLine(file'["photometric"], l)
      BY <1>0, <2>1, <3>3, LinesAfterAppend
    <3> QED BY <2>1, <3>2, <3>4
  <2> QED BY <2>2, <2>3
<1>6. CASE WriteCopy
  <2>1. /\ pc = "copy" /\ pc' \in {"open", "drop"} /\ file' = file /\ op' = op
        /\ saved' = saved /\ wiped' = wiped /\ op.key \in Keys
        /\ copy' = [copy EXCEPT ![StoreOf(op.key)] = @ \o NewText]
    BY <1>6, OpType DEF WriteCopy, ghosts
  <2>2. CASE op.key \in Lamps
    <3>1. StoreOf(op.key) = "photometric" /\ HasLine(F, op.key)
      BY <2>1, <2>2, StoreSplits DEF OpInv
    <3>2. copy'["photometric"] = C \o NewText
      BY <2>1, <3>1 DEF TypeOK, Stores
    <3>3. /\ NewText \in Text /\ DOMAIN NewText = DOMAIN F
          /\ \A i \in DOMAIN F :
               /\ F[i].key # op.key => NewText[i] = F[i]
               /\ F[i].key = op.key => NewText[i] = op
      BY <2>1, <2>2, <3>1, NewTextType
    <3>4. HasLine(F, l) => HasLine(NewText, l)
      <4> SUFFICES ASSUME NEW i \in DOMAIN F, F[i].key = l PROVE HasLine(NewText, l)
        BY DEF HasLine
      <4>1. NewText[i].key = l
        BY <3>3
      <4> QED BY <3>3, <4>1 DEF HasLine
    <3>5. HasLine(C, l) \/ HasLine(NewText, l)
      <4>1. CASE op.key = l
        BY <3>1, <3>4, <4>1
      <4>2. CASE op.key # l
        BY <1>1, <2>1, <3>4, <4>2 DEF Recorded
      <4> QED BY <4>1, <4>2
    <3>6. HasLine(copy'["photometric"], l)
      BY <1>0, <3>2, <3>3, <3>5, LinesOfBoth
    <3> QED BY <2>1, <3>6
  <2>3. CASE op.key \notin Lamps
    <3>1. copy'["photometric"] = C
      BY <2>1, <2>3, StoreSplits DEF TypeOK, Stores
    <3>2. Recorded(l)
      BY <2>1, <2>3 DEF Recorded
    <3> QED BY <1>1, <2>1, <2>3, <3>1, <3>2
  <2> QED BY <2>2, <2>3
<1>7. CASE DropCopy
  <2>1. /\ pc = "drop" /\ pc' = "idle" /\ file' = file /\ wiped' = wiped
        /\ copy' = [copy EXCEPT !["scene"] = <<>>] /\ op.key # l
        /\ saved' = [saved EXCEPT ![op.key] = op.value]
    BY <1>7, FilesAssumption DEF DropCopy, Finish, OpInv
  <2>2. Recorded(l)
    BY <1>2, <2>1 DEF Recorded, TypeOK
  <2>3. copy'["photometric"] = C
    BY <2>1 DEF TypeOK, Stores
  <2> QED BY <1>1, <2>1, <2>2, <2>3
<1>8. CASE ReadBack
  <2>1. /\ pc = "open" /\ pc' = "remove" /\ copy' = copy /\ op' = op /\ op.key \in Keys
        /\ saved' = saved /\ wiped' = wiped
        /\ file' = [file EXCEPT ![StoreOf(op.key)] = <<>>]
    BY <1>8, OpType DEF ReadBack, ghosts
  <2>2. Recorded(l)
    BY <2>1 DEF Recorded
  <2>3. op.key \notin Lamps => file'["photometric"] = F
    BY <2>1, StoreSplits DEF TypeOK, Stores
  <2> QED BY <1>1, <2>1, <2>2, <2>3
<1>9. CASE RemoveCopy
  <2>1. /\ pc = "remove" /\ pc' = "flush" /\ file' = file /\ op' = op /\ op.key \in Keys
        /\ saved' = saved /\ wiped' = wiped /\ buffer' = buffer
        /\ copy' = [copy EXCEPT ![StoreOf(op.key)] = <<>>]
        /\ buffer = copy[StoreOf(op.key)]
    BY <1>9, OpType DEF RemoveCopy, RewriteInv, ghosts
  <2>2. Recorded(l)
    BY <2>1 DEF Recorded
  <2>3. op.key \in Lamps => buffer = C
    BY <2>1, StoreSplits
  <2>4. op.key \notin Lamps => copy'["photometric"] = C
    BY <2>1, StoreSplits DEF TypeOK, Stores
  <2> QED BY <1>1, <2>1, <2>2, <2>3, <2>4
<1>10. CASE Flush
  <2>1. /\ pc = "flush" /\ pc' = "idle" /\ copy' = copy /\ op.key \in Keys /\ wiped' = wiped
        /\ saved' = [saved EXCEPT ![op.key] = op.value]
        /\ file' = [file EXCEPT ![StoreOf(op.key)] = buffer]
    BY <1>10, OpType DEF Flush, Finish
  <2>2. Recorded(l)
    BY <1>2, <2>1 DEF Recorded, TypeOK
  <2>3. CASE op.key \in Lamps
    <3>1. file'["photometric"] = buffer
      BY <2>1, <2>3, StoreSplits DEF TypeOK, Stores
    <3> QED BY <1>1, <2>1, <2>2, <2>3, <3>1
  <2>4. CASE op.key \notin Lamps
    <3>1. file'["photometric"] = F
      BY <2>1, <2>4, StoreSplits DEF TypeOK, Stores
    <3> QED BY <1>1, <2>1, <2>2, <2>4, <3>1
  <2> QED BY <2>3, <2>4
<1>11. CASE Crash
  <2>1. /\ pc' = "idle" /\ file' = file /\ copy' = copy /\ saved' = saved
        /\ ~ wiped /\ pc # "flush"
    BY <1>11 DEF Crash
  <2>2. Recorded(l)
    BY <2>1 DEF Recorded
  <2> QED BY <1>1, <2>1, <2>2
<1>12. CASE UNCHANGED vars
  BY <1>1, <1>12 DEF vars, call, ghosts, Recorded
<1> QED BY <1>4, <1>5, <1>6, <1>7, <1>8, <1>9, <1>10, <1>11, <1>12 DEF Next

--------------------------------------------------------------------------------
(* Results.                                                                 *)

(* IInv is an invariant of ConfigFiles.                                     *)
THEOREM Inductive == Spec => []IInv
<1>1. IInv /\ [Next]_vars => IInv'
  <2> SUFFICES ASSUME IInv, [Next]_vars PROVE IInv'
    OBVIOUS
  <2> QED BY TypeStep, OpStep, CurrentStep, AskedStep, KeptStep DEF IInv
<1> QED BY InvInit, <1>1, PTL DEF Spec

(* photometric.txt, scene.txt and their copies only ever hold lines that    *)
(* were written, and the worker is where the code can be.                   *)
THEOREM TypeCorrect == Spec => []TypeOK
<1>1. IInv => TypeOK
  BY DEF IInv
<1> QED BY Inductive, <1>1, PTL

(* However often and wherever save_dimmer_value, save_scene_para and        *)
(* delete_scene_para are cut short, no file shows an older value in place   *)
(* of a newer one.                                                          *)
THEOREM NeverStaleHolds == Spec => []NeverStale
<1>1. ASSUME IInv PROVE NeverStale
  <2> SUFFICES ASSUME NEW k \in Keys, Stands(k)
               PROVE  Newest(file[StoreOf(k)], k, {saved[k]} \cup asked[k])
    BY DEF NeverStale
  <2>1. StoreOf(k) \in Stores
    BY StoreSplits
  <2>2. file[StoreOf(k)] \in Text /\ copy[StoreOf(k)] \in Text
    BY <1>1, <2>1 DEF IInv, TypeOK
  <2>3. Newest(copy[StoreOf(k)] \o file[StoreOf(k)], k, Current(k))
    BY <1>1 DEF IInv, CurrentInv
  <2> QED BY <2>2, <2>3, NewestOfSecond DEF Current
<1> QED BY Inductive, <1>1, PTL

(* A brightness that was recorded is in photometric.txt, in its copy or     *)
(* about to be flushed, unless a stop fell between the removal of the copy  *)
(* and the flush (addr_req.c:153-158).                                      *)
THEOREM BrightnessKeptHolds == Spec => []BrightnessKept
<1>1. ASSUME IInv PROVE BrightnessKept
  <2> SUFFICES ASSUME ~ wiped, NEW l \in Lamps, saved[l] # None
               PROVE  \E text \in {file["photometric"], copy["photometric"], buffer} :
                        HasLine(text, l)
    BY DEF BrightnessKept
  <2>1. Recorded(l)
    BY DEF Recorded
  <2> QED BY <1>1, <2>1 DEF IInv, KeptInv
<1> QED BY Inductive, <1>1, PTL

================================================================================
