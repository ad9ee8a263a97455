-------------------------------- MODULE BusProofs ------------------------------
(****************************************************************************)
(* What crosses the Clowire bus: the frames arrive as they were sent        *)
(* (FrameSender, FrameReceiver), and the addresses and brightness values in *)
(* them mean the same on both sides (Installation).                         *)
(****************************************************************************)
EXTENDS FrameReceiver, FrameSender, Installation,
        SequenceTheorems, FiniteSetTheorems, WellFoundedInduction, TLAPS

--------------------------------------------------------------------------------
(* Loops over sequences.                                                    *)

(* Induction over the numbers, for a set of them.                           *)
LEMMA SetInduction ==
  ASSUME NEW S, 0 \in S, \A n \in Nat : n \in S => n + 1 \in S
  PROVE  Nat \subseteq S
<1> DEFINE T == {n \in Nat : n \notin S}
<1> SUFFICES ASSUME T # {} PROVE FALSE
  OBVIOUS
<1>1. IsWellFoundedOn(OpToRel(<, Nat), Nat)
  BY NatLessThanWellFounded
<1>2. T \subseteq Nat
  OBVIOUS
<1> HIDE DEF T
<1>3. \E m \in T : \A k \in T : ~ (<<k, m>> \in OpToRel(<, Nat))
  BY <1>1, <1>2, WFMin
<1>4. PICK m \in T : \A k \in T : ~ (k < m)
  BY <1>2, <1>3 DEF OpToRel
<1>5. m # 0 /\ m - 1 \in Nat /\ (m - 1) + 1 = m
  BY DEF T
<1>6. m - 1 \in S
  BY <1>4, <1>5 DEF T
<1> QED BY <1>5, <1>6 DEF T

(* f has the results of a loop of N rounds, of which round n is h[n].       *)
Results(f, N, first, h) == f[0] = first /\ \A n \in 1 .. N : f[n] = h[n][f[n - 1]]

(* A loop of N rounds, which go from one element of D to another, has a     *)
(* result after each of them.                                               *)
LEMMA LoopResults ==
  ASSUME NEW N \in Nat, NEW D, NEW d0 \in D, NEW h \in [1 .. N -> [D -> D]]
  PROVE  \E f \in [0 .. N -> D] : Results(f, N, d0, h)
<1> DEFINE Upto(m) == \E f \in [0 .. m -> D] :
             \A n \in 0 .. m : f[n] = IF n = 0 THEN d0 ELSE h[n][f[n - 1]]
           T == {m \in Nat : m <= N => Upto(m)}
<1>1. 0 \in T
  <2> DEFINE f == [n \in 0 .. 0 |-> d0]
  <2>1. f \in [0 .. 0 -> D]
    OBVIOUS
  <2>2. \A n \in 0 .. 0 : n = 0 /\ f[n] = d0
    OBVIOUS
  <2> HIDE DEF f
  <2>3. Upto(0)
    BY <2>1, <2>2
  <2> QED BY <2>3
<1>2. ASSUME NEW m \in Nat, m \in T PROVE m + 1 \in T
  <2> SUFFICES ASSUME m + 1 <= N PROVE Upto(m + 1)
    OBVIOUS
  <2>1. PICK f \in [0 .. m -> D] :
          \A n \in 0 .. m : f[n] = IF n = 0 THEN d0 ELSE h[n][f[n - 1]]
    BY <1>2
  <2> DEFINE g == [n \in 0 .. m + 1 |-> IF n = m + 1 THEN h[m + 1][f[m]] ELSE f[n]]
  <2>2. m + 1 \in 1 .. N /\ f[m] \in D
    OBVIOUS
  <2>3. h[m + 1][f[m]] \in D
    BY <2>2
  <2>4. g \in [0 .. m + 1 -> D]
    BY <2>3
  <2>5. ASSUME NEW n \in 0 .. m + 1
        PROVE  g[n] = IF n = 0 THEN d0 ELSE h[n][g[n - 1]]
    <3>1. CASE n = m + 1
      <4>1. n # 0 /\ n - 1 = m /\ m \in 0 .. m + 1 /\ m # m + 1
        BY <3>1
      <4> QED BY <3>1, <4>1
    <3>2. CASE n \in 0 .. m
      <4>1. n # m + 1 /\ (n # 0 => n - 1 \in 0 .. m /\ n - 1 # m + 1)
        BY <3>2
      <4>2. g[n] = f[n] /\ (n # 0 => g[n - 1] = f[n - 1])
        BY <4>1
      <4> HIDE DEF g
      <4> QED BY <2>1, <3>2, <4>2
    <3> QED BY <3>1, <3>2
  <2> QED BY <2>4, <2>5
<1> HIDE DEF T
<1>3. Nat \subseteq T
  BY <1>1, <1>2, SetInduction
<1>4. Upto(N)
  BY <1>3 DEF T
<1>5. PICK f \in [0 .. N -> D] :
        \A n \in 0 .. N : f[n] = IF n = 0 THEN d0 ELSE h[n][f[n - 1]]
  BY <1>4
<1>6. f[0] = d0 /\ \A n \in 1 .. N : f[n] = h[n][f[n - 1]]
  <2>1. 0 \in 0 .. N /\ \A n \in 1 .. N : n \in 0 .. N /\ n # 0
    OBVIOUS
  <2> QED BY <1>5, <2>1
<1> QED BY <1>6 DEF Results

(* A sequence of sequences is flattened piece by piece.                     *)
LEMMA FlattenRounds ==
  ASSUME NEW T, NEW seqs \in Seq(Seq(T))
  PROVE  \E f \in [0 .. Len(seqs) -> Seq(T)] :
           /\ f[0] = <<>>
           /\ \A n \in 1 .. Len(seqs) : f[n] = f[n - 1] \o seqs[n]
           /\ FlattenSeq(seqs) = f[Len(seqs)]
<1> DEFINE N == Len(seqs)
           D == Seq(T)
           e == <<>>
           h == [n \in 1 .. N |-> [x \in D |-> x \o seqs[n]]]
           Round(f) == [i \in 1 .. Len(seqs) |-> IF i = 1 THEN seqs[i] ELSE f[i - 1] \o seqs[i]]
           flatten == CHOOSE f : f = Round(f)
<1>1. N \in Nat /\ e \in D /\ seqs \in [1 .. N -> D]
  OBVIOUS
<1>2. \A x \in D, y \in D : x \o y \in D /\ e \o x = x
  OBVIOUS
<1>3. h \in [1 .. N -> [D -> D]] /\ \A n \in 1 .. N, x \in D : h[n][x] = x \o seqs[n]
  <2> HIDE DEF D, N
  <2> QED BY <1>1, <1>2
<1>4. PICK f \in [0 .. N -> D] : Results(f, N, e, h)
  <2> HIDE DEF D, N, e, h
  <2> QED BY <1>1, <1>3, LoopResults
<1>5. f[0] = e /\ \A n \in 1 .. N : f[n] = f[n - 1] \o seqs[n]
  <2>1. f[0] = e /\ \A n \in 1 .. N : f[n] = h[n][f[n - 1]]
    BY <1>4 DEF Results
  <2> HIDE DEF D, N, e, h
  <2>2. \A n \in 1 .. N : f[n - 1] \in D
    BY <1>1
  <2> QED BY <1>3, <2>1, <2>2
<1>6. CASE N = 0
  <2>1. seqs = <<>>
    BY <1>6
  <2>2. FlattenSeq(seqs) = e
    BY <1>6, <2>1 DEF FlattenSeq
  <2> QED BY <1>5, <1>6, <2>2
<1>7. CASE N # 0
  <2> DEFINE g == [i \in 1 .. N |-> f[i]]
  <2>1. g = Round(g)
    <3>1. ASSUME NEW i \in 1 .. N
          PROVE  f[i] = IF i = 1 THEN seqs[i] ELSE g[i - 1] \o seqs[i]
      <4>1. CASE i = 1
        <5> HIDE DEF D, e, N
        <5>1. f[i] = e \o seqs[i] /\ seqs[i] \in D
          <6>1. f[i] = f[i - 1] \o seqs[i]
            BY <1>5
          <6>2. i - 1 = 0
            BY <4>1
          <6>3. seqs[i] \in D
            BY <1>1
          <6> QED BY <1>5, <6>1, <6>2, <6>3
        <5> QED BY <1>2, <4>1, <5>1
      <4>2. CASE i # 1
        <5>1. i - 1 \in 1 .. N
          BY <1>1, <4>2
        <5> HIDE DEF D, e, N
        <5> QED BY <1>5, <4>2, <5>1
      <4> QED BY <4>1, <4>2
    <3> QED BY <3>1
  <2> HIDE DEF g
  <2>2. flatten = Round(flatten)
    <3> HIDE DEF Round
    <3> QED BY <2>1
  <2>3. FlattenSeq(seqs) = flatten[N]
    BY <1>7 DEF FlattenSeq
  <2> HIDE DEF flatten
  <2>4. \A i \in 1 .. N : flatten[i] = IF i = 1 THEN seqs[i] ELSE flatten[i - 1] \o seqs[i]
    <3>1. flatten = [i \in 1 .. N |-> IF i = 1 THEN seqs[i] ELSE flatten[i - 1] \o seqs[i]]
      BY <2>2
    <3> HIDE DEF Round, N
    <3> QED BY ONLY <3>1
  <2> DEFINE A == {n \in Nat : n + 1 <= N => flatten[n + 1] = f[n + 1]}
  <2>5. 0 \in A
    <3> HIDE DEF D, e, N
    <3>1. 1 \in 1 .. N /\ 1 - 1 = 0 /\ 0 + 1 = 1
      BY <1>1, <1>7
    <3>2. f[1] = e \o seqs[1] /\ seqs[1] \in D
      BY <1>1, <1>5, <3>1
    <3>3. flatten[1] = f[1]
      BY <1>2, <2>4, <3>1, <3>2
    <3> QED BY <3>1, <3>3
  <2>6. ASSUME NEW n \in Nat, n \in A PROVE n + 1 \in A
    <3> SUFFICES ASSUME (n + 1) + 1 <= N PROVE flatten[(n + 1) + 1] = f[(n + 1) + 1]
      OBVIOUS
    <3> DEFINE m == (n + 1) + 1
    <3>1. m \in 1 .. N /\ m # 1 /\ m - 1 = n + 1 /\ n + 1 <= N
      BY <1>1
    <3>2. flatten[n + 1] = f[n + 1]
      BY <2>6, <3>1
    <3> HIDE DEF m, N, D, A
    <3>3. flatten[m] = flatten[n + 1] \o seqs[m] /\ f[m] = f[n + 1] \o seqs[m]
      BY <1>5, <2>4, <3>1
    <3>4. flatten[m] = f[m]
      BY <3>2, <3>3
    <3> QED BY <3>4 DEF m
  <2>7. Nat \subseteq A
    <3> HIDE DEF A
    <3> QED BY <2>5, <2>6, SetInduction
  <2>8. flatten[N] = f[N]
    <3>1. N - 1 \in Nat /\ (N - 1) + 1 = N
      BY <1>1, <1>7
    <3> HIDE DEF N
    <3> QED BY <2>7, <3>1
  <2> QED BY <1>5, <2>3, <2>8
<1> QED BY <1>6, <1>7

--------------------------------------------------------------------------------
(* Escaping.                                                                *)

Byte == 0 .. 255

(* The marks of a frame.                                                    *)
LEMMA Marks ==
  /\ FA \in Byte /\ FE \in Byte /\ 0 \in Byte
  /\ FA # 0 /\ FE # 0 /\ FA # FE /\ FA # 1 /\ FA # 2 /\ FE # 1 /\ FE # 2
BY DEF FA, FE, Byte

(* Joining byte sequences is associative.                                   *)
LEMMA Assoc ==
  ASSUME NEW s \in Seq(Byte), NEW t \in Seq(Byte), NEW u \in Seq(Byte)
  PROVE  (s \o t) \o u = s \o (t \o u)
BY ConcatAssociative

(* Byte sequences are flattened piece by piece.                             *)
LEMMA FlattenBytes ==
  ASSUME NEW seqs \in Seq(Seq(Byte)), NEW N, N = Len(seqs)
  PROVE  \E g \in [0 .. N -> Seq(Byte)] :
           /\ g[0] = <<>>
           /\ \A n \in 1 .. N : g[n] = g[n - 1] \o seqs[n]
           /\ FlattenSeq(seqs) = g[N]
<1> DEFINE B == Byte
<1> HIDE DEF B
<1>1. seqs \in Seq(Seq(B))
  BY DEF B
<1>2. \E g \in [0 .. Len(seqs) -> Seq(B)] :
        /\ g[0] = <<>>
        /\ \A n \in 1 .. Len(seqs) : g[n] = g[n - 1] \o seqs[n]
        /\ FlattenSeq(seqs) = g[Len(seqs)]
  BY <1>1, FlattenRounds
<1> QED BY <1>2, Zenon DEF B

(* Two byte sequences, one after the other.                                 *)
LEMMA Joined ==
  ASSUME NEW s \in Seq(Byte), NEW t \in Seq(Byte)
  PROVE  /\ s \o t \in Seq(Byte)
         /\ Len(s) \in Nat /\ Len(t) \in Nat
         /\ Len(s \o t) = Len(s) + Len(t)
         /\ \A i \in 1 .. Len(s) : (s \o t)[i] = s[i]
         /\ \A i \in 1 .. Len(t) : (s \o t)[Len(s) + i] = t[i]
         /\ s \o <<>> = s
OBVIOUS

(* A prefix, one byte longer.                                               *)
LEMMA PrefixGrows ==
  ASSUME NEW s \in Seq(Byte), NEW k \in 1 .. Len(s)
  PROVE  SubSeq(s, 1, k) = SubSeq(s, 1, k - 1) \o <<s[k]>>
<1>1. 1 \in 1 .. Len(s) /\ k \in 1 .. Len(s)
  OBVIOUS
<1> QED BY <1>1, SubSeqRecursiveSecond

(* Pieces of byte sequences.                                                *)
LEMMA Cutout ==
  ASSUME NEW s \in Seq(Byte), NEW a \in Nat \ {0}, NEW z \in Int, z <= Len(s)
  PROVE  /\ SubSeq(s, a, z) \in Seq(Byte)
         /\ Len(SubSeq(s, a, z)) = IF a <= z THEN z - a + 1 ELSE 0
         /\ \A i \in 1 .. z - a + 1 : SubSeq(s, a, z)[i] = s[a + i - 1]
<1>1. \A i \in a .. z : s[i] \in Byte
  <2> TAKE i \in a .. z
  <2>1. i \in 1 .. Len(s)
    OBVIOUS
  <2> QED BY <2>1
<1> QED BY <1>1, SubSeqProperties

(* The least of some places.                                                *)
LEMMA Least ==
  ASSUME NEW S, S \subseteq Nat, S # {}
  PROVE  Min(S) \in S /\ \A y \in S : Min(S) <= y
<1>1. IsWellFoundedOn(OpToRel(<, Nat), Nat)
  BY NatLessThanWellFounded
<1>2. \E m \in S : \A k \in S : ~ (<<k, m>> \in OpToRel(<, Nat))
  BY <1>1, WFMin
<1>3. PICK m \in S : \A k \in S : ~ (k < m)
  BY <1>2 DEF OpToRel
<1>4. \A y \in S : m <= y
  BY <1>3
<1> QED BY <1>4 DEF Min

(* The largest of some places.                                              *)
LEMMA Largest ==
  ASSUME NEW n \in Nat, NEW S, S \subseteq 1 .. n, S # {}
  PROVE  Max(S) \in S /\ \A y \in S : Max(S) >= y
<1> DEFINE T == {k \in Nat : \E x \in S : k = n - x}
<1>1. T # {} /\ T \subseteq Nat
  <2>1. PICK x \in S : TRUE
    OBVIOUS
  <2>2. n - x \in T
    BY <2>1
  <2> QED BY <2>2
<1> HIDE DEF T
<1>2. Min(T) \in T /\ \A y \in T : Min(T) <= y
  BY <1>1, Least
<1>3. PICK m \in S : Min(T) = n - m
  BY <1>2 DEF T
<1>4. ASSUME NEW y \in S PROVE m >= y
  <2>1. n - y \in T
    BY DEF T
  <2>2. Min(T) <= n - y
    BY <1>2, <2>1
  <2>3. m \in Int /\ y \in Int /\ n \in Int
    OBVIOUS
  <2> QED BY <1>3, <2>2, <2>3
<1>5. \E x \in S : \A y \in S : x >= y
  BY <1>4
<1> QED BY <1>5 DEF Max

(* f[k] is what the first k of N sequences are flattened to.                *)
Flattened(f, seqs, N) ==
  /\ f[0] = <<>>
  /\ \A n \in 1 .. N : f[n] = f[n - 1] \o seqs[n]
  /\ FlattenSeq(seqs) = f[N]
  /\ \A k \in 0 .. N : FlattenSeq(SubSeq(seqs, 1, k)) = f[k]

(* Flattening a prefix gives what the rounds of flattening the whole give.  *)
LEMMA FlattenPrefixes ==
  ASSUME NEW seqs \in Seq(Seq(Byte)), NEW N, N = Len(seqs)
  PROVE  \E f \in [0 .. N -> Seq(Byte)] : Flattened(f, seqs, N)
<1>1. PICK f \in [0 .. N -> Seq(Byte)] :
        /\ f[0] = <<>>
        /\ \A n \in 1 .. N : f[n] = f[n - 1] \o seqs[n]
        /\ FlattenSeq(seqs) = f[N]
  BY FlattenBytes
<1>2. ASSUME NEW k \in 0 .. N PROVE FlattenSeq(SubSeq(seqs, 1, k)) = f[k]
  <2> DEFINE p == SubSeq(seqs, 1, k)
             T == Seq(Byte)
  <2>1. p \in Seq(T) /\ Len(p) = k /\ \A n \in 1 .. k : p[n] = seqs[n]
    <3>1. seqs \in Seq(T) /\ k \in 0 .. Len(seqs)
      OBVIOUS
    <3> HIDE DEF T
    <3> QED BY <3>1
  <2> HIDE DEF p
  <2>2. PICK g \in [0 .. k -> Seq(Byte)] :
          /\ g[0] = <<>>
          /\ \A n \in 1 .. k : g[n] = g[n - 1] \o p[n]
          /\ FlattenSeq(p) = g[k]
    <3>1. k = Len(p) /\ p \in Seq(Seq(Byte))
      BY <2>1
    <3> QED BY <3>1, FlattenBytes
  <2> DEFINE S == {n \in Nat : n <= k => g[n] = f[n]}
  <2>3. 0 \in S
    BY <1>1, <2>2
  <2>4. ASSUME NEW n \in Nat, n \in S PROVE n + 1 \in S
    <3> SUFFICES ASSUME n + 1 <= k PROVE g[n + 1] = f[n + 1]
      OBVIOUS
    <3>1. n + 1 \in 1 .. k /\ n + 1 \in 1 .. N /\ (n + 1) - 1 = n /\ n <= k /\ k \in Nat
      OBVIOUS
    <3>2. g[n + 1] = g[n] \o p[n + 1]
      BY <2>2, <3>1
    <3>3. f[n + 1] = f[n] \o seqs[n + 1]
      BY <1>1, <3>1
    <3>4. p[n + 1] = seqs[n + 1]
      BY <2>1, <3>1
    <3>5. g[n] = f[n]
      BY <2>4, <3>1
    <3> QED BY <3>2, <3>3, <3>4, <3>5, Zenon
  <2>5. Nat \subseteq S
    <3> HIDE DEF S
    <3> QED BY <2>3, <2>4, SetInduction
  <2>6. g[k] = f[k]
    <3>1. k \in S /\ k <= k
      BY <2>5
    <3> QED BY <3>1
  <2> QED BY <2>2, <2>6 DEF p
<1> QED BY <1>1, <1>2 DEF Flattened

(* What a byte becomes on the line is made of bytes.                        *)
LEMMA EscapedByteType ==
  ASSUME NEW b \in Byte
  PROVE  EscapedByte(b) \in Seq(Byte)
<1>1. \A x, y \in Byte : <<x>> \in Seq(Byte) /\ <<x, y>> \in Seq(Byte)
  OBVIOUS
<1>2. 1 \in Byte /\ 2 \in Byte /\ FE \in Byte
  BY DEF Byte, FE
<1> QED BY <1>1, <1>2, Zenon DEF EscapedByte

(* The check byte is a byte.                                                *)
LEMMA CheckType ==
  ASSUME NEW s \in Seq(Byte)
  PROVE  XOR_check[s] \in Byte
<1> DEFINE Bit(w) == w * (Cardinality({i \in DOMAIN s : (s[i] \div w) % 2 = 1}) % 2)
<1>1. XOR_check[s] = Bit(1) + Bit(2) + Bit(4) + Bit(8) + Bit(16) + Bit(32) + Bit(64) + Bit(128)
  BY DEF XOR_check, Byte
<1>2. ASSUME NEW w \in Nat PROVE Bit(w) \in {0, w}
  <2> DEFINE C == {i \in DOMAIN s : (s[i] \div w) % 2 = 1}
  <2>1. IsFiniteSet(1 .. Len(s))
    BY FS_Interval
  <2>2. C \subseteq 1 .. Len(s)
    OBVIOUS
  <2>3. Cardinality(C) \in Nat
    BY <2>1, <2>2, FS_Subset, FS_CardinalityType
  <2> HIDE DEF C
  <2>4. Cardinality(C) % 2 \in {0, 1}
    BY <2>3
  <2>5. w * (Cardinality(C) % 2) \in {0, w}
    BY <2>4
  <2> QED BY <2>5 DEF C
<1> DEFINE b1 == Bit(1)
           b2 == Bit(2)
           b4 == Bit(4)
           b8 == Bit(8)
           b16 == Bit(16)
           b32 == Bit(32)
           b64 == Bit(64)
           b128 == Bit(128)
<1> HIDE DEF Bit
<1>3. /\ b1 \in {0, 1} /\ b2 \in {0, 2} /\ b4 \in {0, 4} /\ b8 \in {0, 8}
      /\ b16 \in {0, 16} /\ b32 \in {0, 32} /\ b64 \in {0, 64} /\ b128 \in {0, 128}
  BY <1>2
<1>4. XOR_check[s] = b1 + b2 + b4 + b8 + b16 + b32 + b64 + b128
  BY <1>1
<1> HIDE DEF b1, b2, b4, b8, b16, b32, b64, b128
<1>5. b1 + b2 + b4 + b8 + b16 + b32 + b64 + b128 \in 0 .. 255
  BY <1>3
<1> QED BY <1>4, <1>5 DEF Byte

(* The gateway's frames are made of bytes.                                  *)
LEMMA FrameType ==
  ASSUME NEW n \in 0 .. PayloadMax, NEW payload \in [1 .. n -> PayloadBytes]
  PROVE  /\ Frame(payload) \in Seq(Byte)
         /\ Len(Frame(payload)) = 7 + n
         /\ Frame(payload)[1] = FA
         /\ Frame(payload)[2] = 255 /\ Frame(payload)[3] = 255
         /\ Frame(payload)[4] = 0 /\ Frame(payload)[5] = 0
         /\ Frame(payload)[6] = 7 + n
<1> DEFINE first == <<FA, 255, 255, 0, 0, 7 + n>>
           body == first \o payload
<1>1. n \in Nat /\ n <= 23 /\ PayloadBytes \subseteq Byte
  BY SenderAssumption DEF Byte
<1>2. payload \in Seq(Byte) /\ Len(payload) = n
  <2>1. payload \in [1 .. n -> Byte]
    BY <1>1
  <2> QED BY <1>1, <2>1
<1>3. first \in Seq(Byte) /\ Len(first) = 6
  <2>1. FA \in Byte /\ 255 \in Byte /\ 0 \in Byte /\ 7 + n \in Byte
    BY <1>1 DEF FA, Byte
  <2> QED BY <2>1
<1>4. first[1] = FA /\ first[2] = 255 /\ first[3] = 255 /\ first[4] = 0 /\ first[5] = 0
      /\ first[6] = 7 + n
  OBVIOUS
<1> HIDE DEF first
<1>5. /\ body \in Seq(Byte) /\ Len(body) = 6 + n
      /\ \A i \in 1 .. 6 : body[i] = first[i]
  <2>1. /\ body \in Seq(Byte) /\ Len(body) = Len(first) + Len(payload)
        /\ \A i \in 1 .. Len(first) + Len(payload) :
             body[i] = IF i <= Len(first) THEN first[i] ELSE payload[i - Len(first)]
    BY <1>2, <1>3, ConcatProperties
  <2> HIDE DEF body
  <2> QED BY <1>1, <1>2, <1>3, <2>1
<1>6. Frame(payload) = Append(body, XOR_check[body])
  BY <1>2 DEF Frame, first
<1> HIDE DEF body
<1>7. XOR_check[body] \in Byte
  BY <1>5, CheckType
<1>8. /\ Append(body, XOR_check[body]) \in Seq(Byte)
      /\ Len(Append(body, XOR_check[body])) = 7 + n
      /\ \A i \in 1 .. 6 : Append(body, XOR_check[body])[i] = body[i]
  <2> DEFINE c == XOR_check[body]
  <2> HIDE DEF c
  <2>1. c \in Byte
    BY <1>7 DEF c
  <2>2. /\ Append(body, c) \in Seq(Byte) /\ Len(Append(body, c)) = 7 + n
        /\ \A i \in 1 .. 6 : Append(body, c)[i] = body[i]
    BY <1>1, <1>5, <2>1
  <2> QED BY <2>2 DEF c
<1> QED BY <1>4, <1>5, <1>6, <1>8

(* What ES_opt_recv puts in place of a byte of the buffer.                  *)
Piece(buf, n) ==
  IF n \in Pairs(buf) THEN (IF buf[n + 1] = 1 THEN <<FA>> ELSE <<FE>>)
  ELSE IF n - 1 \in Pairs(buf) THEN <<>>
  ELSE <<buf[n]>>

(* Pairs lie within the buffer and do not overlap.                          *)
LEMMA PairsApart ==
  ASSUME NEW buf \in Seq(Byte), NEW i \in Pairs(buf)
  PROVE  /\ i \in 1 .. Len(buf) - 1
         /\ buf[i] = FE /\ buf[i + 1] \in {1, 2}
         /\ i + 1 \notin Pairs(buf)
<1>1. i \in 1 .. Len(buf) /\ buf[i] = FE /\ At(buf, i + 1) \in {1, 2}
  BY DEF Pairs
<1>2. i + 1 \in DOMAIN buf
  <2>1. i + 1 \notin DOMAIN buf => At(buf, i + 1) = 0
    BY DEF At
  <2> QED BY <1>1, <2>1
<1>3. buf[i + 1] \in {1, 2}
  BY <1>1, <1>2 DEF At
<1>4. i + 1 \notin Pairs(buf)
  BY <1>3 DEF Pairs, FE
<1>5. i + 1 <= Len(buf)
  BY <1>2
<1> QED BY <1>1, <1>3, <1>4, <1>5

(* A piece is a byte or nothing, the second byte of a pair.                 *)
LEMMA PieceType ==
  ASSUME NEW buf \in Seq(Byte), NEW n \in 1 .. Len(buf)
  PROVE  /\ Piece(buf, n) \in Seq(Byte)
         /\ n - 1 \in Pairs(buf) => Piece(buf, n) = <<>> /\ n \notin Pairs(buf)
         /\ n - 1 \notin Pairs(buf) => Len(Piece(buf, n)) = 1
<1>1. /\ <<FA>> \in Seq(Byte) /\ <<FE>> \in Seq(Byte) /\ <<>> \in Seq(Byte)
      /\ <<buf[n]>> \in Seq(Byte)
      /\ Len(<<FA>>) = 1 /\ Len(<<FE>>) = 1 /\ Len(<<buf[n]>>) = 1
  <2>0. FA \in Byte /\ FE \in Byte
    BY DEF FA, FE, Byte
  <2>1. FA \in Byte /\ FE \in Byte /\ buf[n] \in Byte
    BY <2>0
  <2>2. \A b \in Byte : <<b>> \in Seq(Byte) /\ Len(<<b>>) = 1
    OBVIOUS
  <2>3. <<>> \in Seq(Byte)
    OBVIOUS
  <2> QED BY <2>1, <2>2, <2>3, Zenon
<1>2. n - 1 \in Pairs(buf) => n \notin Pairs(buf)
  <2> SUFFICES ASSUME n - 1 \in Pairs(buf) PROVE n \notin Pairs(buf)
    OBVIOUS
  <2>1. (n - 1) + 1 \notin Pairs(buf)
    BY PairsApart
  <2>2. (n - 1) + 1 = n
    OBVIOUS
  <2> QED BY <2>1, <2>2
<1> DEFINE one == IF n \in Pairs(buf) THEN (IF buf[n + 1] = 1 THEN <<FA>> ELSE <<FE>>)
                  ELSE <<buf[n]>>
<1>3. one \in {<<FA>>, <<FE>>, <<buf[n]>>}
  BY Zenon
<1>4. Piece(buf, n) = IF n - 1 \in Pairs(buf) /\ n \notin Pairs(buf) THEN <<>> ELSE one
  BY Zenon DEF Piece
<1> HIDE DEF one
<1>5. one \in Seq(Byte) /\ Len(one) = 1
  BY <1>1, <1>3, Zenon
<1> QED BY <1>1, <1>2, <1>4, <1>5, Zenon

(* ES_opt_recv, byte by byte: how many bytes it has made of the first n,    *)
(* and that it keeps the length of the buffer.                              *)
LEMMA UnescapeRounds ==
  ASSUME NEW buf \in Seq(Byte)
  PROVE  \E g \in [0 .. Len(buf) -> Seq(Byte)] :
           /\ g[0] = <<>>
           /\ \A n \in 1 .. Len(buf) : g[n] = g[n - 1] \o Piece(buf, n)
           /\ Cardinality(Pairs(buf)) \in Nat
           /\ Len(g[Len(buf)]) + Cardinality(Pairs(buf)) = Len(buf)
           /\ ES_opt_recv(buf) =
                [buf |-> g[Len(buf)] \o [j \in 1 .. Cardinality(Pairs(buf)) |-> buf[Len(buf)]],
                 removed |-> Cardinality(Pairs(buf))]
<1> DEFINE N == Len(buf)
           P == Pairs(buf)
           seqs == [i \in 1 .. N |-> Piece(buf, i)]
<1>1. N \in Nat /\ DOMAIN buf = 1 .. N
  OBVIOUS
<1>2. seqs \in Seq(Seq(Byte)) /\ Len(seqs) = N
  <2>1. \A i \in 1 .. N : Piece(buf, i) \in Seq(Byte)
    BY PieceType
  <2>2. seqs \in [1 .. N -> Seq(Byte)]
    BY <2>1
  <2> HIDE DEF seqs, N
  <2> QED BY <1>1, <2>2
<1>3. \A i \in 1 .. N : seqs[i] = Piece(buf, i)
  OBVIOUS
<1>4. ES_opt_recv(buf) =
        [buf |-> FlattenSeq(seqs) \o [j \in 1 .. Cardinality(P) |-> buf[N]],
         removed |-> Cardinality(P)]
  <2>1. seqs = [i \in DOMAIN buf |-> Piece(buf, i)]
    BY <1>1
  <2> HIDE DEF seqs, N
  <2>2. FlattenSeq(seqs) = FlattenSeq([i \in DOMAIN buf |-> Piece(buf, i)])
    BY <2>1
  <2> QED BY <2>2 DEF ES_opt_recv, Piece, N
<1> HIDE DEF seqs
<1>5. PICK g \in [0 .. N -> Seq(Byte)] :
        /\ g[0] = <<>>
        /\ \A n \in 1 .. N : g[n] = g[n - 1] \o seqs[n]
        /\ FlattenSeq(seqs) = g[N]
  <2> HIDE DEF N
  <2> QED BY <1>2, FlattenBytes
<1> DEFINE before(n) == {i \in P : i < n}
           S == {n \in Nat : n <= N => /\ IsFiniteSet(before(n))
                                       /\ Cardinality(before(n)) \in Nat
                                       /\ Len(g[n]) + Cardinality(before(n)) = n}
<1>6. P \subseteq 1 .. N - 1
  BY PairsApart
<1>7. 0 \in S
  <2>1. before(0) = {}
    BY <1>6
  <2>2. IsFiniteSet(before(0)) /\ Cardinality(before(0)) = 0
    BY <2>1, FS_EmptySet
  <2>3. Len(g[0]) = 0
    BY <1>5
  <2> HIDE DEF before
  <2> QED BY <2>2, <2>3
<1>8. ASSUME NEW n \in Nat, n \in S PROVE n + 1 \in S
  <2> SUFFICES ASSUME n + 1 <= N
               PROVE  /\ IsFiniteSet(before(n + 1)) /\ Cardinality(before(n + 1)) \in Nat
                      /\ Len(g[n + 1]) + Cardinality(before(n + 1)) = n + 1
    OBVIOUS
  <2>1. /\ IsFiniteSet(before(n)) /\ Cardinality(before(n)) \in Nat
        /\ Len(g[n]) + Cardinality(before(n)) = n
    BY <1>8, <1>1
  <2>2. n + 1 \in 1 .. N /\ n \in 0 .. N /\ (n + 1) - 1 = n
    BY <1>1
  <2>3. g[n + 1] = g[n] \o Piece(buf, n + 1) /\ g[n] \in Seq(Byte)
    <3> HIDE DEF N
    <3>1. g[n + 1] = g[(n + 1) - 1] \o seqs[n + 1] /\ g[n] \in Seq(Byte)
      BY <1>5, <2>2
    <3>2. seqs[n + 1] = Piece(buf, n + 1)
      BY <1>3, <2>2
    <3> QED BY <2>2, <3>1, <3>2
  <2>4. CASE n \in P
    <3>1. Piece(buf, n + 1) = <<>>
      BY <2>2, <2>4, PieceType
    <3>2. g[n + 1] = g[n]
      BY <2>3, <3>1, Joined
    <3>3. before(n + 1) = before(n) \cup {n} /\ n \notin before(n)
      BY <1>6, <2>4
    <3> HIDE DEF before, N
    <3>5. Len(g[n]) \in Nat
      BY <2>3, Joined
    <3>4. IsFiniteSet(before(n + 1)) /\ Cardinality(before(n + 1)) = Cardinality(before(n)) + 1
      BY <2>1, <3>3, FS_AddElement
    <3> QED BY <2>1, <3>2, <3>4, <3>5, SMTT(30)
  <2>5. CASE n \notin P
    <3>1. Piece(buf, n + 1) \in Seq(Byte) /\ Len(Piece(buf, n + 1)) = 1
      BY <2>2, <2>5, PieceType
    <3>2. Len(g[n + 1]) = Len(g[n]) + 1
      <4> DEFINE p == Piece(buf, n + 1)
      <4>1. p \in Seq(Byte) /\ Len(p) = 1 /\ g[n + 1] = g[n] \o p
        BY <2>3, <3>1
      <4> HIDE DEF p, N
      <4>2. Len(g[n] \o p) = Len(g[n]) + Len(p)
        BY <2>3, <4>1, Joined
      <4> QED BY <4>1, <4>2
    <3>3. before(n + 1) = before(n)
      BY <1>6, <2>5
    <3> HIDE DEF before
    <3>4. Len(g[n]) \in Nat
      BY <2>3
    <3> QED BY <2>1, <3>2, <3>3, <3>4
  <2> QED BY <2>4, <2>5
<1>9. Nat \subseteq S
  <2> HIDE DEF S
  <2> QED BY <1>7, <1>8, SetInduction
<1>10. before(N) = P
  BY <1>6
<1>11. Cardinality(P) \in Nat /\ Len(g[N]) + Cardinality(P) = N
  <2>1. /\ IsFiniteSet(before(N)) /\ Cardinality(before(N)) \in Nat
        /\ Len(g[N]) + Cardinality(before(N)) = N
    BY <1>1, <1>9
  <2> HIDE DEF before
  <2> QED BY <1>10, <2>1
<1>12. \A n \in 1 .. N : g[n] = g[n - 1] \o Piece(buf, n)
  BY <1>3, <1>5
<1> QED BY <1>4, <1>5, <1>11, <1>12

(* A buffer holds the bytes X, some of them still escaped: after n bytes of *)
(* the buffer, c[n] bytes of X are through.  A byte of it stands for        *)
(* itself, begins a pair, or ends one.                                      *)
Plain(buf, X, c, n) ==
  /\ c[n] = c[n - 1] + 1
  /\ buf[n] = X[c[n]]
  /\ buf[n] = FE => n = Len(buf) \/ buf[n + 1] \notin {1, 2}

First(buf, X, c, n) ==
  /\ c[n] = c[n - 1] + 1
  /\ n < Len(buf)
  /\ c[n + 1] = c[n]
  /\ buf[n] = FE /\ buf[n + 1] \in {1, 2}
  /\ X[c[n]] = IF buf[n + 1] = 1 THEN FA ELSE FE

Second(buf, c, n) ==
  /\ c[n] = c[n - 1]
  /\ n > 1
  /\ c[n - 1] = c[n - 2] + 1
  /\ buf[n - 1] = FE /\ buf[n] \in {1, 2}

Holds(buf, X, c) ==
  /\ c \in [0 .. Len(buf) -> 0 .. Len(X)]
  /\ c[0] = 0
  /\ c[Len(buf)] = Len(X)
  /\ \A n \in 1 .. Len(buf) : Plain(buf, X, c, n) \/ First(buf, X, c, n) \/ Second(buf, c, n)

(* The scan reaches every pair.                                             *)
AllReached(buf, X, c) ==
  \A n \in 1 .. Len(buf) : First(buf, X, c, n) => Reached(buf, n)

(* Then the pairs are the ones that X was escaped with ...                  *)
LEMMA PairsOfHolds ==
  ASSUME NEW buf \in Seq(Byte), NEW X \in Seq(Byte), NEW c,
         Holds(buf, X, c), AllReached(buf, X, c), NEW n \in 1 .. Len(buf)
  PROVE  /\ n \in Pairs(buf) <=> First(buf, X, c, n)
         /\ n - 1 \in Pairs(buf) <=> Second(buf, c, n)
<1>1. ASSUME NEW m \in 1 .. Len(buf) PROVE m \in Pairs(buf) <=> First(buf, X, c, m)
  <2>1. ASSUME m \in Pairs(buf) PROVE First(buf, X, c, m)
    <3>1. m \in 1 .. Len(buf) - 1 /\ buf[m] = FE /\ buf[m + 1] \in {1, 2}
      BY <2>1, PairsApart
    <3>2. ~ Plain(buf, X, c, m)
      BY <3>1 DEF Plain
    <3>3. ~ Second(buf, c, m)
      BY <3>1 DEF Second, FE
    <3> QED BY <3>2, <3>3 DEF Holds
  <2>2. ASSUME First(buf, X, c, m) PROVE m \in Pairs(buf)
    <3>1. Reached(buf, m)
      BY <2>2 DEF AllReached
    <3>2. m \in DOMAIN buf /\ m + 1 \in DOMAIN buf /\ buf[m] = FE /\ buf[m + 1] \in {1, 2}
      BY <2>2 DEF First
    <3> QED BY <3>1, <3>2 DEF Pairs, At
  <2> QED BY <2>1, <2>2
<1>2. ASSUME n - 1 \in Pairs(buf) PROVE Second(buf, c, n)
  <2>1. n - 1 \in 1 .. Len(buf)
    BY <1>2, PairsApart
  <2>2. First(buf, X, c, n - 1)
    BY <1>1, <1>2, <2>1
  <2>3. (n - 1) + 1 = n /\ (n - 1) - 1 = n - 2
    OBVIOUS
  <2> QED BY <2>1, <2>2, <2>3 DEF First, Second
<1>3. ASSUME Second(buf, c, n) PROVE n - 1 \in Pairs(buf)
  <2>1. /\ n - 1 \in 1 .. Len(buf) /\ (n - 1) + 1 = n /\ (n - 1) - 1 = n - 2
        /\ n - 2 \in 0 .. Len(buf) /\ n - 1 # Len(buf)
    BY <1>3 DEF Second
  <2>2. ~ Plain(buf, X, c, n - 1)
    BY <1>3, <2>1 DEF Second, Plain
  <2>3. ~ Second(buf, c, n - 1)
    <3>1. c[n - 2] \in Nat
      BY <2>1, SMTT(30) DEF Holds
    <3> QED BY <1>3, <2>1, <3>1 DEF Second
  <2>4. First(buf, X, c, n - 1)
    BY <2>1, <2>2, <2>3 DEF Holds
  <2> QED BY <1>1, <2>1, <2>4
<1> QED BY <1>1, <1>2, <1>3

(* ... and ES_opt_recv brings X out.                                        *)
LEMMA UnescapeHolds ==
  ASSUME NEW buf \in Seq(Byte), NEW X \in Seq(Byte), NEW c,
         Holds(buf, X, c), AllReached(buf, X, c)
  PROVE  /\ Len(X) <= Len(buf)
         /\ ES_opt_recv(buf) =
              [buf |-> X \o [j \in 1 .. Len(buf) - Len(X) |-> buf[Len(buf)]],
               removed |-> Len(buf) - Len(X)]
<1> DEFINE N == Len(buf)
<1>1. N \in Nat /\ Len(X) \in Nat
  OBVIOUS
<1>2. PICK g \in [0 .. N -> Seq(Byte)] :
           /\ g[0] = <<>>
           /\ \A n \in 1 .. N : g[n] = g[n - 1] \o Piece(buf, n)
           /\ Cardinality(Pairs(buf)) \in Nat
           /\ Len(g[N]) + Cardinality(Pairs(buf)) = N
           /\ ES_opt_recv(buf) =
                [buf |-> g[N] \o [j \in 1 .. Cardinality(Pairs(buf)) |-> buf[N]],
                 removed |-> Cardinality(Pairs(buf))]
  BY UnescapeRounds
<1> DEFINE S == {n \in Nat : n <= N => g[n] = SubSeq(X, 1, c[n])}
<1>3. 0 \in S
  <2>1. SubSeq(X, 1, 0) = <<>>
    OBVIOUS
  <2> QED BY <1>2, <2>1 DEF Holds
<1>4. ASSUME NEW n \in Nat, n \in S PROVE n + 1 \in S
  <2> SUFFICES ASSUME n + 1 <= N PROVE g[n + 1] = SubSeq(X, 1, c[n + 1])
    OBVIOUS
  <2> DEFINE m == n + 1
  <2>1. m \in 1 .. N /\ m - 1 = n /\ n \in 0 .. N /\ m \in 0 .. N
    BY <1>1
  <2>2. g[n] = SubSeq(X, 1, c[n]) /\ c[n] \in 0 .. Len(X) /\ c[m] \in 0 .. Len(X)
    BY <1>4, <2>1 DEF Holds
  <2>3. g[m] = g[n] \o Piece(buf, m)
    BY <1>2, <2>1
  <2>4. /\ m \in Pairs(buf) <=> First(buf, X, c, m)
        /\ m - 1 \in Pairs(buf) <=> Second(buf, c, m)
    BY <2>1, PairsOfHolds
  <2>5. CASE Second(buf, c, m)
    <3>1. Piece(buf, m) = <<>> /\ c[m] = c[n]
      BY <2>1, <2>4, <2>5, PieceType DEF Second
    <3>2. g[n] \in Seq(Byte)
      BY <2>1
    <3>3. g[m] = g[n]
      BY <2>3, <3>1, <3>2, Joined
    <3> QED BY <2>2, <3>1, <3>3
  <2>6. CASE ~ Second(buf, c, m)
    <3>1. Piece(buf, m) = <<X[c[m]]>>
      <4>1. CASE First(buf, X, c, m)
        BY <2>4, <4>1 DEF Piece, First
      <4>2. CASE Plain(buf, X, c, m) /\ ~ First(buf, X, c, m)
        BY <2>4, <2>6, <4>2 DEF Piece, Plain
      <4> QED BY <2>1, <2>6, <4>1, <4>2 DEF Holds
    <3>2. c[m] = c[n] + 1
      BY <2>1, <2>6 DEF Holds, Plain, First
    <3>3. c[m] \in 1 .. Len(X) /\ 1 \in 1 .. Len(X) /\ c[m] - 1 = c[n]
      BY <2>2, <3>2
    <3>4. SubSeq(X, 1, c[m]) = SubSeq(X, 1, c[m] - 1) \o <<X[c[m]]>>
      BY <3>3, PrefixGrows
    <3> QED BY <2>2, <2>3, <3>1, <3>3, <3>4
  <2> QED BY <2>5, <2>6
<1>5. Nat \subseteq S
  <2> HIDE DEF S
  <2> QED BY <1>3, <1>4, SetInduction
<1>6. g[N] = X
  <2>1. g[N] = SubSeq(X, 1, c[N]) /\ c[N] = Len(X)
    BY <1>1, <1>5 DEF Holds
  <2>2. SubSeq(X, 1, Len(X)) = X
    OBVIOUS
  <2> QED BY <2>1, <2>2
<1>7. Cardinality(Pairs(buf)) = N - Len(X) /\ Len(X) <= N
  <2>1. Len(X) + Cardinality(Pairs(buf)) = N /\ Cardinality(Pairs(buf)) \in Nat
    BY <1>2, <1>6
  <2> DEFINE k == Cardinality(Pairs(buf))
             l == Len(X)
  <2>2. l + k = N /\ k \in Nat /\ l \in Nat /\ N \in Nat
    BY <1>1, <2>1
  <2> HIDE DEF N, k, l
  <2>3. k = N - l /\ l <= N
    BY <2>2
  <2> QED BY <2>3 DEF k, l
<1> QED BY <1>2, <1>6, <1>7

(* The count of bytes through never falls.                                  *)
LEMMA CountGrows ==
  ASSUME NEW buf \in Seq(Byte), NEW X \in Seq(Byte), NEW c, Holds(buf, X, c),
         NEW i \in 0 .. Len(buf), NEW j \in i .. Len(buf)
  PROVE  c[i] <= c[j]
<1> DEFINE S == {m \in Nat : i + m <= Len(buf) => c[i] <= c[i + m]}
<1>1. \A n \in 0 .. Len(buf) : c[n] \in Nat
  BY DEF Holds
<1>2. 0 \in S
  BY <1>1
<1>3. ASSUME NEW m \in Nat, m \in S PROVE m + 1 \in S
  <2> SUFFICES ASSUME i + (m + 1) <= Len(buf) PROVE c[i] <= c[i + (m + 1)]
    OBVIOUS
  <2>1. /\ i + (m + 1) \in 1 .. Len(buf) /\ (i + (m + 1)) - 1 = i + m
        /\ i + m \in 0 .. Len(buf) /\ i + (m + 1) \in 0 .. Len(buf)
    OBVIOUS
  <2>2. c[i + (m + 1)] \in {c[i + m], c[i + m] + 1}
    BY <2>1 DEF Holds, Plain, First, Second
  <2>3. c[i] <= c[i + m]
    BY <1>3, <2>1
  <2> QED BY <1>1, <2>1, <2>2, <2>3
<1>4. Nat \subseteq S
  <2> HIDE DEF S
  <2> QED BY <1>2, <1>3, SetInduction
<1>5. j - i \in Nat /\ i + (j - i) = j
  OBVIOUS
<1> QED BY <1>4, <1>5

(* Where X has no twenty zeros in a row before a byte, neither has the      *)
(* buffer.                                                                  *)
LEMMA ReachedInBuffer ==
  ASSUME NEW buf \in Seq(Byte), NEW X \in Seq(Byte), NEW c, Holds(buf, X, c),
         NEW n \in 1 .. Len(buf), First(buf, X, c, n), Reached(X, c[n])
  PROVE  Reached(buf, n)
<1> SUFFICES ASSUME NEW j \in 20 .. n - 1, \A k \in j - 19 .. j : buf[k] = 0
             PROVE  FALSE
  BY DEF Reached
<1>1. \A k \in 0 .. Len(buf) : c[k] \in Nat
  BY DEF Holds
<1>2. ASSUME NEW k \in j - 19 .. j PROVE c[k] = c[k - 1] + 1 /\ X[c[k]] = 0
  <2>1. k \in 1 .. Len(buf) /\ buf[k] = 0
    OBVIOUS
  <2>2. ~ First(buf, X, c, k) /\ ~ Second(buf, c, k)
    BY <2>1 DEF First, Second, FE
  <2>3. Plain(buf, X, c, k)
    BY <2>1, <2>2 DEF Holds
  <2> QED BY <2>1, <2>3 DEF Plain
<1> DEFINE p == c[j]
           S == {m \in Nat : m <= 19 => c[j - m] = p - m}
<1>3. p \in Nat
  BY <1>1
<1>4. 0 \in S
  BY <1>3
<1>5. ASSUME NEW m \in Nat, m \in S PROVE m + 1 \in S
  <2> SUFFICES ASSUME m + 1 <= 19 PROVE c[j - (m + 1)] = p - (m + 1)
    OBVIOUS
  <2>1. c[j - m] = p - m
    BY <1>5
  <2>2. j - m \in j - 19 .. j /\ (j - m) - 1 = j - (m + 1) /\ j - (m + 1) \in 0 .. Len(buf)
    OBVIOUS
  <2>3. c[j - m] = c[j - (m + 1)] + 1
    BY <1>2, <2>2
  <2> DEFINE a == c[j - m]
             b == c[j - (m + 1)]
  <2>4. b \in Nat /\ a = b + 1 /\ a = p - m
    BY <1>1, <2>1, <2>2, <2>3
  <2> HIDE DEF p, a, b
  <2>5. b = p - (m + 1)
    BY <1>3, <2>4
  <2> QED BY <2>5 DEF b
<1>6. Nat \subseteq S
  <2> HIDE DEF S
  <2> QED BY <1>4, <1>5, SetInduction
<1>7. ASSUME NEW q \in p - 19 .. p PROVE X[q] = 0
  <2>1. p - q \in Nat /\ p - q <= 19 /\ p - (p - q) = q /\ j - (p - q) \in j - 19 .. j
    BY <1>3
  <2>2. c[j - (p - q)] = q
    <3> HIDE DEF p
    <3> QED BY <1>6, <2>1
  <2> QED BY <1>2, <2>1, <2>2
<1>8. p >= 20
  <2>1. c[j - 19] = p - 19
    BY <1>6
  <2>2. j - 19 \in j - 19 .. j /\ (j - 19) - 1 = j - 20 /\ j - 20 \in 0 .. Len(buf)
    OBVIOUS
  <2>3. c[j - 19] = c[j - 20] + 1 /\ c[j - 20] \in Nat
    BY <1>1, <1>2, <2>2
  <2> HIDE DEF p
  <2> QED BY <1>3, <2>1, <2>3
<1>9. p <= c[n] - 1
  <2>1. c[j] <= c[n - 1]
    BY CountGrows
  <2>2. c[n] = c[n - 1] + 1 /\ c[n - 1] \in Nat
    BY <1>1 DEF First
  <2> QED BY <1>3, <2>1, <2>2
<1>10. c[n] \in Nat
  BY <1>1
<1>11. \E q \in p - 19 .. p : X[q] # 0
  <2> HIDE DEF p
  <2>1. p \in 20 .. c[n] - 1
    BY <1>3, <1>8, <1>9, <1>10
  <2> QED BY <2>1 DEF Reached
<1> QED BY <1>7, <1>11

--------------------------------------------------------------------------------
(* Whole lines.                                                             *)

(* On a line that carries the bytes d, FE stands at the beginning of pairs  *)
(* only.                                                                    *)
Carries(l, d, c) ==
  /\ Holds(l, d, c)
  /\ \A n \in 1 .. Len(l) : l[n] = FE => First(l, d, c, n)

(* Lines that follow one another.                                           *)
LEMMA CarriesJoin ==
  ASSUME NEW l1 \in Seq(Byte), NEW d1 \in Seq(Byte), NEW c1, Carries(l1, d1, c1),
         NEW l2 \in Seq(Byte), NEW d2 \in Seq(Byte), NEW c2, Carries(l2, d2, c2)
  PROVE  \E c : Carries(l1 \o l2, d1 \o d2, c)
<1> DEFINE L == Len(l1)
           M == Len(d1)
           l == l1 \o l2
           d == d1 \o d2
           c == [n \in 0 .. Len(l) |-> IF n <= L THEN c1[n] ELSE M + c2[n - L]]
<1>1. /\ l \in Seq(Byte) /\ L \in Nat /\ Len(l2) \in Nat /\ Len(l) = L + Len(l2)
      /\ \A i \in 1 .. L : l[i] = l1[i]
      /\ \A i \in 1 .. Len(l2) : l[L + i] = l2[i]
  BY Joined
<1>2. /\ d \in Seq(Byte) /\ M \in Nat /\ Len(d2) \in Nat /\ Len(d) = M + Len(d2)
      /\ \A i \in 1 .. M : d[i] = d1[i]
      /\ \A i \in 1 .. Len(d2) : d[M + i] = d2[i]
  BY Joined
<1>3. /\ c1 \in [0 .. L -> 0 .. M] /\ c1[0] = 0 /\ c1[L] = M
      /\ \A n \in 1 .. L : Plain(l1, d1, c1, n) \/ First(l1, d1, c1, n) \/ Second(l1, c1, n)
      /\ \A n \in 1 .. L : l1[n] = FE => First(l1, d1, c1, n)
  BY DEF Carries, Holds
<1>4. /\ c2 \in [0 .. Len(l2) -> 0 .. Len(d2)] /\ c2[0] = 0 /\ c2[Len(l2)] = Len(d2)
      /\ \A n \in 1 .. Len(l2) :
           Plain(l2, d2, c2, n) \/ First(l2, d2, c2, n) \/ Second(l2, c2, n)
      /\ \A n \in 1 .. Len(l2) : l2[n] = FE => First(l2, d2, c2, n)
  BY DEF Carries, Holds
<1>5. \A n \in 0 .. Len(l) : c[n] = IF n <= L THEN c1[n] ELSE M + c2[n - L]
  OBVIOUS
<1>6. DOMAIN c = 0 .. Len(l) /\ c = [n \in 0 .. Len(l) |-> c[n]]
  OBVIOUS
<1> HIDE DEF L, M, l, d, c
<1>7. \A n \in 0 .. L : c[n] = c1[n] /\ c[n] \in 0 .. M
  BY <1>1, <1>3, <1>5
<1>8. \A n \in 0 .. Len(l2) : c[L + n] = M + c2[n] /\ c[L + n] \in 0 .. M + Len(d2)
  <2> TAKE n \in 0 .. Len(l2)
  <2>1. L + n \in 0 .. Len(l) /\ (L + n) - L = n
    BY <1>1
  <2>2. c2[n] \in 0 .. Len(d2)
    BY <1>4
  <2>3. CASE n = 0
    BY <1>1, <1>2, <1>3, <1>4, <1>5, <2>1, <2>3
  <2>4. CASE n # 0
    <3>1. ~ (L + n <= L)
      BY <1>1, <2>4
    <3> QED BY <1>2, <1>5, <2>1, <2>2, <3>1, SMTT(30)
  <2> QED BY <2>3, <2>4
<1>9. c \in [0 .. Len(l) -> 0 .. Len(d)]
  <2>1. ASSUME NEW n \in 0 .. Len(l) PROVE c[n] \in 0 .. Len(d)
    <3>1. CASE n \in 0 .. L
      BY <1>2, <1>7, <3>1
    <3>2. CASE n \notin 0 .. L
      <4>1. n - L \in 0 .. Len(l2) /\ L + (n - L) = n
        BY <1>1, <3>2
      <4>2. c[n] \in 0 .. M + Len(d2)
        BY <1>8, <4>1
      <4> QED BY <1>2, <4>2
    <3> QED BY <3>1, <3>2
  <2> QED BY <1>6, <2>1
<1>10. c[0] = 0 /\ c[Len(l)] = Len(d)
  <2>1. 0 \in 0 .. L /\ Len(l2) \in 0 .. Len(l2)
    BY <1>1
  <2> QED BY <1>1, <1>2, <1>3, <1>4, <1>7, <1>8, <2>1
<1>11. ASSUME NEW n \in 1 .. Len(l)
       PROVE  /\ Plain(l, d, c, n) \/ First(l, d, c, n) \/ Second(l, c, n)
              /\ l[n] = FE => First(l, d, c, n)
  <2>1. CASE n \in 1 .. L
    <3>1. /\ l[n] = l1[n] /\ c[n] = c1[n] /\ c[n - 1] = c1[n - 1]
          /\ n > 1 => l[n - 1] = l1[n - 1] /\ c[n - 2] = c1[n - 2]
          /\ n < L => l[n + 1] = l1[n + 1] /\ c[n + 1] = c1[n + 1]
      <4>1. n \in 0 .. L /\ n - 1 \in 0 .. L /\ (n > 1 => n - 1 \in 1 .. L /\ n - 2 \in 0 .. L)
            /\ (n < L => n + 1 \in 1 .. L /\ n + 1 \in 0 .. L)
        BY <1>1, <2>1
      <4> QED BY <1>1, <1>7, <2>1, <4>1
    <3>2. c1[n] \in 1 .. M => d[c1[n]] = d1[c1[n]]
      BY <1>2
    <3>3. c1[n] \in 0 .. M /\ c1[n - 1] \in 0 .. M
      <4>1. n \in 0 .. L /\ n - 1 \in 0 .. L
        BY <1>1, <2>1
      <4> QED BY <1>3, <4>1
    <3>4. Second(l1, c1, n) => Second(l, c, n)
      BY <3>1 DEF Second
    <3>5. First(l1, d1, c1, n) => First(l, d, c, n)
      BY <1>1, <2>1, <3>1, <3>2, <3>3, SMTT(30) DEF First, L
    <3>6. l1[n] # FE /\ Plain(l1, d1, c1, n) => Plain(l, d, c, n)
      BY <3>1, <3>2, <3>3 DEF Plain
    <3> QED BY <1>3, <2>1, <3>1, <3>4, <3>5, <3>6
  <2>2. CASE n \notin 1 .. L
    <3> DEFINE m == n - L
    <3>1. m \in 1 .. Len(l2) /\ n = L + m
      BY <1>1, <2>2
    <3>2. /\ l[n] = l2[m] /\ c[n] = M + c2[m] /\ c[n - 1] = M + c2[m - 1]
          /\ m > 1 => l[n - 1] = l2[m - 1] /\ c[n - 2] = M + c2[m - 2]
          /\ m < Len(l2) => l[n + 1] = l2[m + 1] /\ c[n + 1] = M + c2[m + 1]
      <4>1. /\ m \in 0 .. Len(l2) /\ m - 1 \in 0 .. Len(l2) /\ n - 1 = L + (m - 1)
            /\ m > 1 => m - 1 \in 1 .. Len(l2) /\ m - 2 \in 0 .. Len(l2) /\ n - 2 = L + (m - 2)
            /\ m < Len(l2) => m + 1 \in 1 .. Len(l2) /\ m + 1 \in 0 .. Len(l2)
                              /\ n + 1 = L + (m + 1)
        BY <1>1, <3>1
      <4> HIDE DEF m
      <4> QED BY <1>1, <1>8, <3>1, <4>1
    <3>3. /\ c2[m] \in 0 .. Len(d2) /\ c2[m - 1] \in 0 .. Len(d2)
          /\ m > 1 => c2[m - 2] \in 0 .. Len(d2)
          /\ m < Len(l2) => c2[m + 1] \in 0 .. Len(d2)
      <4> HIDE DEF m
      <4>1. /\ m \in 0 .. Len(l2) /\ m - 1 \in 0 .. Len(l2)
            /\ m > 1 => m - 2 \in 0 .. Len(l2)
            /\ m < Len(l2) => m + 1 \in 0 .. Len(l2)
        BY <1>1, <3>1
      <4> QED BY <1>4, <4>1
    <3> HIDE DEF m
    <3>4. c2[m] \in 1 .. Len(d2) => d[M + c2[m]] = d2[c2[m]]
      BY <1>2
    <3>5. Second(l2, c2, m) => Second(l, c, n)
      <4> SUFFICES ASSUME Second(l2, c2, m) PROVE Second(l, c, n)
        OBVIOUS
      <4>1. /\ c2[m] = c2[m - 1] /\ m > 1 /\ c2[m - 1] = c2[m - 2] + 1
            /\ l2[m - 1] = FE /\ l2[m] \in {1, 2}
        BY DEF Second
      <4>2. /\ c[n] = c[n - 1] /\ l[n - 1] = FE /\ l[n] \in {1, 2}
            /\ c[n - 2] = M + c2[m - 2]
        BY <3>2, <4>1
      <4>3. n > 1
        BY <1>1, <3>1, <4>1
      <4>4. c[n - 1] = c[n - 2] + 1
        <5> DEFINE a == c2[m - 1]
                   b == c2[m - 2]
        <5>1. a \in Nat /\ b \in Nat /\ a = b + 1 /\ c[n - 1] = M + a /\ c[n - 2] = M + b
          BY <1>2, <3>2, <3>3, <4>1
        <5> HIDE DEF a, b
        <5> QED BY <1>2, <5>1
      <4> QED BY <4>2, <4>3, <4>4 DEF Second
    <3>6. First(l2, d2, c2, m) => First(l, d, c, n)
      <4> SUFFICES ASSUME First(l2, d2, c2, m) PROVE First(l, d, c, n)
        OBVIOUS
      <4>1. /\ c2[m] = c2[m - 1] + 1 /\ m < Len(l2) /\ c2[m + 1] = c2[m]
            /\ l2[m] = FE /\ l2[m + 1] \in {1, 2}
            /\ d2[c2[m]] = IF l2[m + 1] = 1 THEN FA ELSE FE
        BY DEF First
      <4>2. /\ n < Len(l) /\ c[n + 1] = c[n] /\ l[n] = FE /\ l[n + 1] = l2[m + 1]
        BY <1>1, <3>1, <3>2, <4>1
      <4>3. c[n] = c[n - 1] + 1 /\ c2[m] \in 1 .. Len(d2)
        <5> DEFINE a == c2[m]
                   b == c2[m - 1]
        <5>1. /\ a \in 0 .. Len(d2) /\ b \in 0 .. Len(d2) /\ a = b + 1
              /\ c[n] = M + a /\ c[n - 1] = M + b
          BY <3>2, <3>3, <4>1
        <5> HIDE DEF a, b
        <5>2. c[n] = c[n - 1] + 1 /\ a \in 1 .. Len(d2)
          BY <1>2, <5>1
        <5> QED BY <5>2 DEF a
      <4>4. d[c[n]] = d2[c2[m]]
        BY <3>2, <3>4, <4>3
      <4> QED BY <4>1, <4>2, <4>3, <4>4 DEF First
    <3>7. l2[m] # FE /\ Plain(l2, d2, c2, m) => Plain(l, d, c, n)
      <4> SUFFICES ASSUME l2[m] # FE, Plain(l2, d2, c2, m) PROVE Plain(l, d, c, n)
        OBVIOUS
      <4>1. c2[m] = c2[m - 1] + 1 /\ l2[m] = d2[c2[m]]
        BY DEF Plain
      <4>3. c[n] = c[n - 1] + 1 /\ c2[m] \in 1 .. Len(d2)
        <5> DEFINE a == c2[m]
                   b == c2[m - 1]
        <5>1. /\ a \in 0 .. Len(d2) /\ b \in 0 .. Len(d2) /\ a = b + 1
              /\ c[n] = M + a /\ c[n - 1] = M + b
          BY <3>2, <3>3, <4>1
        <5> HIDE DEF a, b
        <5>2. c[n] = c[n - 1] + 1 /\ a \in 1 .. Len(d2)
          BY <1>2, <5>1
        <5> QED BY <5>2 DEF a
      <4>4. d[c[n]] = d2[c2[m]]
        BY <3>2, <3>4, <4>3
      <4> QED BY <3>2, <4>1, <4>3, <4>4 DEF Plain
    <3> QED BY <1>4, <3>1, <3>2, <3>5, <3>6, <3>7
  <2> QED BY <2>1, <2>2
<1>12. Carries(l, d, c)
  BY <1>9, <1>10, <1>11 DEF Carries, Holds
<1> QED BY <1>12 DEF l, d

(* Without FE, a line carries its own bytes.                                *)
LEMMA PlainCarried ==
  ASSUME NEW s \in Seq(Byte), \A i \in 1 .. Len(s) : s[i] # FE
  PROVE  \E c : Carries(s, s, c)
<1> DEFINE c == [n \in 0 .. Len(s) |-> n]
<1>1. /\ c \in [0 .. Len(s) -> 0 .. Len(s)] /\ c[0] = 0 /\ c[Len(s)] = Len(s)
      /\ \A n \in 1 .. Len(s) : c[n] = n /\ c[n - 1] = n - 1
  <2>1. \A n \in 1 .. Len(s) : n \in 0 .. Len(s) /\ n - 1 \in 0 .. Len(s)
    OBVIOUS
  <2>2. 0 \in 0 .. Len(s) /\ Len(s) \in 0 .. Len(s)
    OBVIOUS
  <2> QED BY <2>1, <2>2
<1> HIDE DEF c
<1>2. \A n \in 1 .. Len(s) : Plain(s, s, c, n)
  BY <1>1 DEF Plain
<1>3. Carries(s, s, c)
  BY <1>1, <1>2 DEF Carries, Holds
<1> QED BY <1>3

(* A byte as the line must carry it carries the byte.                       *)
LEMMA ByteCarried ==
  ASSUME NEW b \in Byte
  PROVE  \E c : Carries(EscapedByte(b), <<b>>, c)
<1>1. CASE b \notin {FA, FE}
  <2>1. EscapedByte(b) = <<b>>
    BY <1>1 DEF EscapedByte
  <2>2. <<b>> \in Seq(Byte) /\ \A i \in 1 .. Len(<<b>>) : <<b>>[i] # FE
    BY <1>1
  <2> QED BY <2>1, <2>2, PlainCarried
<1>2. CASE b \in {FA, FE}
  <2> DEFINE k == IF b = FA THEN 1 ELSE 2
             l == <<FE, k>>
             d == <<b>>
             c == [n \in 0 .. 2 |-> IF n = 0 THEN 0 ELSE 1]
  <2>1. EscapedByte(b) = l
    BY <1>2 DEF EscapedByte, FA, FE
  <2>2. k \in {1, 2} /\ (k = 1 <=> b = FA)
    OBVIOUS
  <2> HIDE DEF k
  <2>3. Len(l) = 2 /\ l[1] = FE /\ l[2] = k /\ Len(d) = 1 /\ d[1] = b
    OBVIOUS
  <2>4. /\ c \in [0 .. 2 -> 0 .. 1] /\ c[0] = 0 /\ c[1] = 1 /\ c[2] = 1
    OBVIOUS
  <2> HIDE DEF l, d, c
  <2>5. First(l, d, c, 1)
    <3>1. c[1] = c[1 - 1] + 1 /\ c[1 + 1] = c[1] /\ l[1 + 1] = k
      BY <2>3, <2>4
    <3>2. d[c[1]] = IF k = 1 THEN FA ELSE FE
      BY <1>2, <2>2, <2>3, <2>4
    <3> QED BY <2>2, <2>3, <3>1, <3>2 DEF First
  <2>6. Second(l, c, 2)
    <3>1. c[2] = c[2 - 1] /\ c[2 - 1] = c[2 - 2] + 1 /\ l[2 - 1] = FE /\ l[2] \in {1, 2}
      BY <2>2, <2>3, <2>4
    <3> QED BY <3>1 DEF Second
  <2>7. 1 .. 2 = {1, 2} /\ l[2] # FE
    BY <2>2, <2>3 DEF FE
  <2>8. Carries(l, d, c)
    BY <2>3, <2>4, <2>5, <2>6, <2>7 DEF Carries, Holds
  <2> QED BY <2>1, <2>8 DEF d
<1> QED BY <1>1, <1>2

(* An escaped frame carries the frame.                                      *)
LEMMA EscapedCarries ==
  ASSUME NEW f \in Seq(Byte), f # <<>>, f[1] # FE
  PROVE  Escaped(f) \in Seq(Byte) /\ \E c : Carries(Escaped(f), f, c)
<1> DEFINE N == Len(f)
           seqs == [i \in 1 .. N - 1 |-> EscapedByte(f[i + 1])]
           hd == <<Head(f)>>
<1>1. N \in Nat \ {0} /\ N - 1 \in Nat /\ \A i \in 1 .. N : f[i] \in Byte
  OBVIOUS
<1>2. seqs \in Seq(Seq(Byte)) /\ Len(seqs) = N - 1
  <2>1. \A i \in 1 .. N - 1 : i + 1 \in 1 .. N
    BY <1>1
  <2>2. \A i \in 1 .. N - 1 : EscapedByte(f[i + 1]) \in Seq(Byte)
    BY <1>1, <2>1, EscapedByteType
  <2>3. seqs \in [1 .. N - 1 -> Seq(Byte)]
    BY <2>2
  <2> HIDE DEF seqs, N
  <2> QED BY <1>1, <2>3
<1>3. \A i \in 1 .. N - 1 : seqs[i] = EscapedByte(f[i + 1])
  OBVIOUS
<1>4. Escaped(f) = hd \o FlattenSeq(seqs)
  BY DEF Escaped
<1> HIDE DEF seqs
<1>5. PICK g \in [0 .. N - 1 -> Seq(Byte)] :
        /\ g[0] = <<>>
        /\ \A n \in 1 .. N - 1 : g[n] = g[n - 1] \o seqs[n]
        /\ FlattenSeq(seqs) = g[N - 1]
  <2> HIDE DEF N
  <2> QED BY <1>2, FlattenBytes
<1>6. /\ hd \in Seq(Byte) /\ hd \o <<>> = hd
      /\ \A i \in 1 .. Len(hd) : hd[i] # FE
      /\ SubSeq(f, 1, 1) = hd
  OBVIOUS
<1> HIDE DEF hd
<1> DEFINE S == {n \in Nat : n <= N - 1 => \E c : Carries(hd \o g[n], SubSeq(f, 1, n + 1), c)}
<1>7. 0 \in S
  <2>1. hd \o g[0] = hd /\ SubSeq(f, 1, 0 + 1) = hd
    BY <1>5, <1>6
  <2>2. \E c : Carries(hd, hd, c)
    BY <1>6, PlainCarried
  <2> QED BY <2>1, <2>2
<1>8. ASSUME NEW n \in Nat, n \in S PROVE n + 1 \in S
  <2> DEFINE m == n + 1
  <2> SUFFICES ASSUME m <= N - 1
               PROVE \E c : Carries(hd \o g[m], SubSeq(f, 1, m + 1), c)
    OBVIOUS
  <2>1. /\ m \in 1 .. N - 1 /\ m - 1 = n /\ n \in 0 .. N - 1 /\ m + 1 \in 1 .. N
        /\ (m + 1) - 1 = n + 1
    BY <1>1
  <2>2. PICK c1 : Carries(hd \o g[n], SubSeq(f, 1, n + 1), c1)
    BY <1>8, <2>1
  <2> HIDE DEF m, S, N
  <2>3. f[m + 1] \in Byte
    BY <1>1, <2>1
  <2>4. PICK c2 : Carries(EscapedByte(f[m + 1]), <<f[m + 1]>>, c2)
    BY <2>3, ByteCarried
  <2>5. g[n] \in Seq(Byte) /\ g[m] = g[n] \o EscapedByte(f[m + 1])
    BY <1>3, <1>5, <2>1
  <2>6. EscapedByte(f[m + 1]) \in Seq(Byte)
    BY <2>3, EscapedByteType
  <2>7. hd \o g[m] = (hd \o g[n]) \o EscapedByte(f[m + 1])
    <3> DEFINE x == g[n]
               y == EscapedByte(f[m + 1])
    <3>1. x \in Seq(Byte) /\ y \in Seq(Byte) /\ g[m] = x \o y
      BY <2>5, <2>6
    <3> HIDE DEF x, y
    <3>2. (hd \o x) \o y = hd \o (x \o y)
      BY <1>6, <3>1, Assoc
    <3>3. hd \o g[m] = (hd \o x) \o y
      BY <3>1, <3>2
    <3> QED BY <3>3 DEF x, y
  <2>8. SubSeq(f, 1, m + 1) = SubSeq(f, 1, n + 1) \o <<f[m + 1]>>
    <3>1. m + 1 \in 1 .. Len(f)
      BY <2>1 DEF N
    <3> QED BY <2>1, <3>1, PrefixGrows
  <2>9. SubSeq(f, 1, n + 1) \in Seq(Byte)
    <3>1. n + 1 \in 0 .. Len(f)
      BY <2>1 DEF N
    <3> QED BY <3>1
  <2>10. hd \o g[n] \in Seq(Byte) /\ <<f[m + 1]>> \in Seq(Byte)
    BY <1>6, <2>3, <2>5
  <2>11. \E c : Carries((hd \o g[n]) \o EscapedByte(f[m + 1]),
                        SubSeq(f, 1, n + 1) \o <<f[m + 1]>>, c)
    BY <2>2, <2>4, <2>6, <2>9, <2>10, CarriesJoin
  <2> QED BY <2>7, <2>8, <2>11
<1>9. Nat \subseteq S
  <2> HIDE DEF S
  <2> QED BY <1>7, <1>8, SetInduction
<1>10. \E c : Carries(hd \o g[N - 1], f, c)
  <2>1. SubSeq(f, 1, N) = f /\ (N - 1) + 1 = N
    BY <1>1
  <2>2. \E c : Carries(hd \o g[N - 1], SubSeq(f, 1, (N - 1) + 1), c)
    BY <1>1, <1>9
  <2> QED BY <2>1, <2>2
<1>11. hd \o g[N - 1] \in Seq(Byte)
  <2>1. g[N - 1] \in Seq(Byte)
    BY <1>1
  <2> QED BY <1>6, <2>1
<1> QED BY <1>4, <1>5, <1>10, <1>11

--------------------------------------------------------------------------------
(* The sender.                                                              *)

(* However memcpy copies, the rest of the frame stays as long, and its      *)
(* first byte is right; without blocks to start, all of it is.              *)
LEMMA ShiftKeeps ==
  ASSUME NEW starts, NEW tail \in Seq(Byte)
  PROVE  /\ Shift(starts, tail) \in Seq(Byte)
         /\ Len(Shift(starts, tail)) = Len(tail)
         /\ tail # <<>> => Shift(starts, tail)[1] = tail[1]
         /\ starts = {} => Shift(starts, tail) = tail
<1> DEFINE from(i) == {j \in 1 .. i : j = 1 \/ j \notin starts}
<1>1. ASSUME NEW i \in 1 .. Len(tail)
      PROVE  /\ Max(from(i)) \in 1 .. Len(tail)
             /\ i = 1 => Max(from(i)) = 1
             /\ starts = {} => Max(from(i)) = i
  <2>1. i \in Nat /\ from(i) \subseteq 1 .. i /\ 1 \in from(i)
    OBVIOUS
  <2>2. starts = {} => i \in from(i)
    OBVIOUS
  <2> DEFINE F == from(i)
  <2> HIDE DEF from
  <2>3. Max(F) \in F /\ \A y \in F : Max(F) >= y
    BY <2>1, Largest
  <2> DEFINE m == Max(F)
  <2> HIDE DEF m
  <2>4. m \in 1 .. i /\ (starts = {} => m >= i)
    BY <2>1, <2>2, <2>3 DEF m
  <2>5. m \in 1 .. Len(tail) /\ (i = 1 => m = 1) /\ (starts = {} => m = i)
    BY <2>4
  <2> QED BY <2>5 DEF m
<1> DEFINE s == Shift(starts, tail)
<1>2. s = [i \in 1 .. Len(tail) |-> tail[Max(from(i))]]
  BY DEF Shift
<1> HIDE DEF from
<1>3. \A j \in 1 .. Len(tail) : tail[j] \in Byte
  OBVIOUS
<1>4. s \in [1 .. Len(tail) -> Byte]
  BY <1>1, <1>2, <1>3
<1>5. Len(tail) \in Nat /\ tail = [i \in 1 .. Len(tail) |-> tail[i]]
  OBVIOUS
<1>6. s \in Seq(Byte) /\ Len(s) = Len(tail)
  <2> HIDE DEF s
  <2> QED BY <1>4, <1>5
<1>7. ASSUME tail # <<>> PROVE s[1] = tail[1]
  <2>1. 1 \in 1 .. Len(tail)
    BY <1>7
  <2> QED BY <1>1, <1>2, <2>1
<1>8. ASSUME starts = {} PROVE s = tail
  <2>1. \A i \in 1 .. Len(tail) : s[i] = tail[i]
    BY <1>1, <1>2, <1>8
  <2>2. s = [i \in 1 .. Len(tail) |-> tail[i]]
    BY <1>2, <2>1, Zenon
  <2> QED BY <1>5, <2>2
<1> QED BY <1>6, <1>7, <1>8

(* A frame on the line, one byte longer.                                    *)
LEMMA EscapedGrows ==
  ASSUME NEW X \in Seq(Byte), NEW b \in Byte
  PROVE  /\ Escaped(<<b>>) = <<b>>
         /\ X # <<>> => /\ Append(X, b) \in Seq(Byte)
                        /\ Escaped(X) \in Seq(Byte)
                        /\ Escaped(Append(X, b)) = Escaped(X) \o EscapedByte(b)
<1>1. Escaped(<<b>>) = <<b>>
  <2> DEFINE f == <<b>>
             e == [i \in 1 .. Len(f) - 1 |-> EscapedByte(f[i + 1])]
  <2>1. e = <<>> /\ f \in Seq(Byte) /\ Head(f) = b
    OBVIOUS
  <2>3. FlattenSeq(<<>>) = <<>>
    <3> DEFINE none == <<>>
               T == Seq(Byte)
    <3>1. none \in Seq(T) /\ Len(none) = 0
      OBVIOUS
    <3> HIDE DEF none, T
    <3>2. \E g \in [0 .. Len(none) -> T] : g[0] = <<>> /\ FlattenSeq(none) = g[Len(none)]
      BY <3>1, FlattenBytes DEF T
    <3> QED BY <3>1, <3>2 DEF none
  <2>4. Escaped(f) = <<b>> \o <<>>
    <3> HIDE DEF e
    <3> QED BY <2>1, <2>3 DEF Escaped, e
  <2> QED BY <2>4
<1>2. ASSUME X # <<>>
      PROVE  /\ Append(X, b) \in Seq(Byte)
             /\ Escaped(X) \in Seq(Byte)
             /\ Escaped(Append(X, b)) = Escaped(X) \o EscapedByte(b)
  <2> DEFINE N == Len(X)
             Y == Append(X, b)
             seqs == [i \in 1 .. Len(Y) - 1 |-> EscapedByte(Y[i + 1])]
             hd == <<Head(X)>>
  <2>1. /\ N \in Nat \ {0} /\ Y \in Seq(Byte) /\ Len(Y) = N + 1 /\ Head(Y) = Head(X)
        /\ Y[N + 1] = b /\ (\A i \in 1 .. N : Y[i] = X[i]) /\ hd \in Seq(Byte)
    BY <1>2
  <2> HIDE DEF Y, hd, N
  <2>2. \A i \in 1 .. N : i + 1 \in 1 .. Len(Y)
    BY <2>1
  <2>3. \A i \in 1 .. N : EscapedByte(Y[i + 1]) \in Seq(Byte)
    BY <2>1, <2>2, EscapedByteType
  <2>4. seqs = [i \in 1 .. N |-> EscapedByte(Y[i + 1])]
    BY <2>1
  <2>5. seqs \in Seq(Seq(Byte)) /\ Len(seqs) = N
    <3>1. seqs \in [1 .. N -> Seq(Byte)]
      BY <2>3, <2>4
    <3> DEFINE T == Seq(Byte)
    <3>2. seqs \in [1 .. N -> T] /\ N \in Nat
      BY <2>1, <3>1
    <3> HIDE DEF seqs, T
    <3>3. seqs \in Seq(T) /\ Len(seqs) = N
      BY <3>2
    <3> QED BY <3>3 DEF T
  <2>6. \A i \in 1 .. N : seqs[i] = EscapedByte(Y[i + 1])
    BY <2>4
  <2>7. SubSeq(seqs, 1, N - 1) = [i \in 1 .. N - 1 |-> EscapedByte(X[i + 1])]
    <3>1. SubSeq(seqs, 1, N - 1) = [i \in 1 .. N - 1 |-> seqs[i]]
      BY <2>1, <2>5
    <3>2. \A i \in 1 .. N - 1 : i \in 1 .. N /\ i + 1 \in 1 .. N
      BY <2>1
    <3>3. \A i \in 1 .. N - 1 : seqs[i] = EscapedByte(X[i + 1])
      BY <2>1, <2>6, <3>2
    <3> QED BY <3>1, <3>3
  <2>8. Escaped(Y) = hd \o FlattenSeq(seqs)
    BY <2>1 DEF Escaped, hd
  <2>9. Escaped(X) = hd \o FlattenSeq(SubSeq(seqs, 1, N - 1))
    BY <2>7 DEF Escaped, hd, N
  <2> HIDE DEF seqs
  <2>10. PICK f \in [0 .. N -> Seq(Byte)] : Flattened(f, seqs, N)
    BY <2>5, FlattenPrefixes
  <2>11. /\ FlattenSeq(seqs) = f[N - 1] \o EscapedByte(b)
         /\ FlattenSeq(SubSeq(seqs, 1, N - 1)) = f[N - 1]
         /\ f[N - 1] \in Seq(Byte)
    <3>1. N \in 1 .. N /\ N - 1 \in 0 .. N
      BY <2>1
    <3> QED BY <2>1, <2>6, <2>10, <3>1 DEF Flattened
  <2>12. EscapedByte(b) \in Seq(Byte)
    BY EscapedByteType
  <2>13. hd \o f[N - 1] \in Seq(Byte)
    BY <2>1, <2>11
  <2> DEFINE x == f[N - 1]
             y == EscapedByte(b)
  <2>14. x \in Seq(Byte) /\ y \in Seq(Byte)
    BY <2>11, <2>12
  <2> HIDE DEF x, y
  <2>15. hd \o (x \o y) = (hd \o x) \o y
    BY <2>1, <2>14, Assoc
  <2> QED BY <2>1, <2>8, <2>9, <2>11, <2>13, <2>15 DEF x, y, Y
<1> QED BY <1>1, <1>2

(* A round of ES_opt_send's loop.                                           *)
SendState == [done : Seq(Byte), rest : Seq(Byte)]

SendRound(starts, l) ==
  [done |-> l.done \o EscapedByte(Head(l.rest)),
   rest |-> IF Head(l.rest) \in {FA, FE} THEN Shift(starts, Tail(l.rest)) ELSE Tail(l.rest)]

(* It passes a byte.                                                        *)
LEMMA RoundType ==
  ASSUME NEW starts, NEW l \in SendState, l.rest # <<>>
  PROVE  /\ SendRound(starts, l) \in SendState
         /\ Len(SendRound(starts, l).rest) = Len(l.rest) - 1
         /\ Len(l.rest) > 1 => SendRound(starts, l).rest[1] = l.rest[2]
         /\ (starts = {} \/ l.rest[1] \notin {FA, FE}) => SendRound(starts, l).rest = Tail(l.rest)
         /\ SendRound(starts, l).done = l.done \o EscapedByte(l.rest[1])
         /\ l.rest[1] \in Byte
<1> DEFINE r == l.rest
           t == Tail(r)
           new == IF Head(r) \in {FA, FE} THEN Shift(starts, t) ELSE t
           d == l.done \o EscapedByte(Head(r))
<1>1. /\ r \in Seq(Byte) /\ r # <<>> /\ Head(r) = r[1] /\ r[1] \in Byte /\ Len(r) \in Nat
      /\ t \in Seq(Byte) /\ Len(t) = Len(r) - 1 /\ (Len(r) > 1 => t # <<>> /\ t[1] = r[2])
      /\ l.done \in Seq(Byte)
  <2> DEFINE q == l.rest
  <2>1. q \in Seq(Byte) /\ q # <<>> /\ l.done \in Seq(Byte)
    BY DEF SendState
  <2> HIDE DEF q
  <2>2. /\ Head(q) = q[1] /\ q[1] \in Byte /\ Len(q) \in Nat
        /\ Tail(q) \in Seq(Byte) /\ Len(Tail(q)) = Len(q) - 1
        /\ Len(q) > 1 => Tail(q) # <<>> /\ Tail(q)[1] = q[2]
    <3>1. Len(q) \in Nat \ {0}
      BY <2>1
    <3>2. Head(q) = q[1] /\ q[1] \in Byte
      BY <2>1, <3>1
    <3>3. /\ Tail(q) \in Seq(Byte) /\ Len(Tail(q)) = Len(q) - 1
          /\ \A i \in 1 .. Len(q) - 1 : Tail(q)[i] = q[i + 1]
      BY <2>1
    <3>4. ASSUME Len(q) > 1 PROVE Tail(q) # <<>> /\ Tail(q)[1] = q[2]
      <4>1. 1 \in 1 .. Len(q) - 1 /\ 1 + 1 = 2 /\ Len(Tail(q)) # 0
        BY <3>1, <3>3, <3>4
      <4>2. Tail(q) # <<>>
        BY <4>1
      <4>3. Tail(q)[1] = q[1 + 1]
        BY <3>3, <4>1
      <4> QED BY <4>1, <4>2, <4>3
    <3> QED BY <3>1, <3>2, <3>3, <3>4
  <2> QED BY <2>1, <2>2 DEF q
<1> HIDE DEF t, r
<1>2. /\ new \in Seq(Byte) /\ Len(new) = Len(t)
      /\ t # <<>> => new[1] = t[1]
      /\ (starts = {} \/ r[1] \notin {FA, FE}) => new = t
  BY <1>1, ShiftKeeps
<1>3. d \in Seq(Byte) /\ d = l.done \o EscapedByte(r[1])
  <2> DEFINE e == EscapedByte(r[1])
             a == l.done
  <2>1. e \in Seq(Byte) /\ a \in Seq(Byte)
    BY <1>1, EscapedByteType
  <2>2. d = a \o e
    BY <1>1
  <2> HIDE DEF a, e
  <2>3. a \o e \in Seq(Byte)
    BY <2>1
  <2> QED BY <2>2, <2>3 DEF a, e
<1> HIDE DEF new, d
<1>4. SendRound(starts, l) = [done |-> d, rest |-> new]
  BY DEF SendRound, d, new, t, r
<1>5. /\ SendRound(starts, l).done = d /\ SendRound(starts, l).rest = new
      /\ SendRound(starts, l) \in SendState
  BY <1>2, <1>3, <1>4 DEF SendState
<1> QED BY <1>1, <1>2, <1>3, <1>5 DEF r, t

(* The loop has a result after each of its rounds.                          *)
LEMMA SendRounds ==
  ASSUME NEW f \in Seq(Byte), f # <<>>, NEW copy
  PROVE  \E l : /\ l[1] = [done |-> <<Head(f)>>, rest |-> Tail(f)]
                /\ \A n \in 2 .. Len(f) : l[n] = SendRound(copy[n], l[n - 1])
                /\ ES_opt_send(copy, f) = l[Len(f)].done
<1> DEFINE N == Len(f)
           first == [done |-> <<Head(f)>>, rest |-> Tail(f)]
           Round(loop) == [n \in 1 .. Len(f) |->
             IF n = 1 THEN [done |-> <<Head(f)>>, rest |-> Tail(f)]
             ELSE [done |-> loop[n - 1].done \o EscapedByte(Head(loop[n - 1].rest)),
                   rest |-> IF Head(loop[n - 1].rest) \in {FA, FE}
                            THEN Shift(copy[n], Tail(loop[n - 1].rest))
                            ELSE Tail(loop[n - 1].rest)]]
           loop == CHOOSE l : l = Round(l)
           h == [k \in 1 .. N - 1 |-> [x \in SendState |->
                  IF x.rest = <<>> THEN x ELSE SendRound(copy[k + 1], x)]]
<1>1. N \in Nat \ {0} /\ N - 1 \in Nat /\ first \in SendState /\ first.rest = Tail(f)
      /\ Len(Tail(f)) = N - 1
  <2>1. /\ N \in Nat \ {0} /\ N - 1 \in Nat /\ Len(Tail(f)) = N - 1
        /\ <<Head(f)>> \in Seq(Byte) /\ Tail(f) \in Seq(Byte)
    OBVIOUS
  <2> QED BY <2>1 DEF SendState
<1>2. ASSUME NEW k \in 1 .. N - 1, NEW x \in SendState
      PROVE  /\ h[k][x] \in SendState
             /\ x.rest # <<>> => h[k][x] = SendRound(copy[k + 1], x)
  BY RoundType
<1>3. h \in [1 .. N - 1 -> [SendState -> SendState]]
  BY RoundType
<1> HIDE DEF h
<1>4. PICK F \in [0 .. N - 1 -> SendState] : Results(F, N - 1, first, h)
  <2> DEFINE M == N - 1
             D == SendState
  <2>1. M \in Nat /\ first \in D /\ h \in [1 .. M -> [D -> D]]
    BY <1>1, <1>3
  <2> HIDE DEF M, D, first
  <2>2. \E F \in [0 .. M -> D] : Results(F, M, first, h)
    BY <2>1, LoopResults
  <2> QED BY <2>2 DEF M, D
<1> HIDE DEF N
<1>5. F[0] = first /\ \A n \in 1 .. N - 1 : F[n] = h[n][F[n - 1]]
  BY <1>4 DEF Results
<1> DEFINE S == {n \in Nat : n <= N - 1 => Len(F[n].rest) = N - 1 - n}
<1>6. 0 \in S
  BY <1>1, <1>5
<1>7. ASSUME NEW n \in Nat, n \in S PROVE n + 1 \in S
  <2> SUFFICES ASSUME n + 1 <= N - 1 PROVE Len(F[n + 1].rest) = N - 1 - (n + 1)
    OBVIOUS
  <2>1. n + 1 \in 1 .. N - 1 /\ (n + 1) - 1 = n /\ n \in 0 .. N - 1
    BY <1>1
  <2>2. F[n] \in SendState /\ Len(F[n].rest) = N - 1 - n
    BY <1>4, <1>7, <2>1
  <2>3. F[n].rest # <<>>
    BY <1>1, <2>1, <2>2
  <2>4. F[n + 1] = h[n + 1][F[n]]
    BY <1>5, <2>1
  <2>5. F[n + 1] = SendRound(copy[(n + 1) + 1], F[n])
    BY <1>2, <2>1, <2>2, <2>3, <2>4
  <2> DEFINE s == copy[(n + 1) + 1]
  <2> HIDE DEF s
  <2>6. Len(SendRound(s, F[n]).rest) = Len(F[n].rest) - 1
    BY <2>2, <2>3, RoundType
  <2> QED BY <1>1, <2>1, <2>2, <2>5, <2>6 DEF s
<1>8. Nat \subseteq S
  <2> HIDE DEF S
  <2> QED BY <1>6, <1>7, SetInduction
<1>9. \A n \in 1 .. N - 1 : F[n] = SendRound(copy[n + 1], F[n - 1])
  <2> TAKE n \in 1 .. N - 1
  <2>1. n - 1 \in Nat /\ n - 1 <= N - 1 /\ n - 1 \in 0 .. N - 1
    BY <1>1
  <2>2. Len(F[n - 1].rest) = N - 1 - (n - 1) /\ F[n - 1] \in SendState
    BY <1>4, <1>8, <2>1
  <2>3. F[n - 1].rest # <<>>
    BY <1>1, <2>2
  <2> QED BY <1>2, <1>5, <2>2, <2>3
<1> HIDE DEF S, first
<1> DEFINE r == [n \in 1 .. N |-> F[n - 1]]
<1>10. \A n \in 1 .. N : r[n] = IF n = 1 THEN first ELSE SendRound(copy[n], r[n - 1])
  <2> TAKE n \in 1 .. N
  <2>1. CASE n = 1
    <3>1. r[n] = F[0]
      BY <1>1, <2>1
    <3> QED BY <1>5, <2>1, <3>1
  <2>2. CASE n # 1
    <3>1. n - 1 \in 1 .. N - 1 /\ n - 1 \in 1 .. N /\ (n - 1) + 1 = n
      BY <1>1, <2>2
    <3>2. r[n] = F[n - 1] /\ r[n - 1] = F[(n - 1) - 1]
      BY <3>1
    <3> HIDE DEF r
    <3> QED BY <1>9, <2>2, <3>1, <3>2
  <2> QED BY <2>1, <2>2
<1>11. r = [n \in 1 .. N |-> IF n = 1 THEN first ELSE SendRound(copy[n], r[n - 1])]
  <2>1. r = [n \in 1 .. N |-> r[n]]
    OBVIOUS
  <2> HIDE DEF r
  <2> QED BY <1>10, <2>1
<1> HIDE DEF r
<1>12. \A l : Round(l) = [n \in 1 .. N |-> IF n = 1 THEN first ELSE SendRound(copy[n], l[n - 1])]
  BY DEF SendRound, first, N
<1>13. r = Round(r)
  BY <1>11, <1>12
<1>14. loop = Round(loop)
  <2> HIDE DEF Round
  <2> QED BY <1>13
<1>15. ES_opt_send(copy, f) = loop[N].done
  BY DEF ES_opt_send, N
<1> HIDE DEF loop
<1>16. loop = [n \in 1 .. N |-> IF n = 1 THEN first ELSE SendRound(copy[n], loop[n - 1])]
  BY <1>12, <1>14
<1> HIDE DEF Round
<1>17. \A n \in 1 .. N : loop[n] = IF n = 1 THEN first ELSE SendRound(copy[n], loop[n - 1])
  BY ONLY <1>16
<1>18. loop[1] = first
  <2>1. 1 \in 1 .. N
    BY <1>1
  <2> QED BY <1>17, <2>1
<1>19. \A n \in 2 .. N : loop[n] = SendRound(copy[n], loop[n - 1])
  <2>1. \A n \in 2 .. N : n \in 1 .. N /\ n # 1
    OBVIOUS
  <2> QED BY <1>17, <2>1
<1> QED BY <1>15, <1>18, <1>19 DEF N, first

(* What it has passed, and how much of that is as it was in the frame.      *)
LEMMA SendPasses ==
  ASSUME NEW f \in Seq(Byte), f # <<>>, NEW copy
  PROVE  \E X \in Seq(Byte) :
           /\ Len(X) = Len(f)
           /\ ES_opt_send(copy, f) = Escaped(X)
           /\ \A i \in 1 .. Len(f) :
                \/ \A n \in 2 .. Len(f) : copy[n] = {}
                \/ \A j \in 2 .. i - 2 : f[j] \notin {FA, FE}
                => X[i] = f[i]
<1> DEFINE N == Len(f)
           whole == \A n \in 2 .. Len(f) : copy[n] = {}
           Clear(i) == whole \/ \A j \in 2 .. i : f[j] \notin {FA, FE}
<1>1. /\ N \in Nat \ {0} /\ Tail(f) \in Seq(Byte) /\ Len(Tail(f)) = N - 1
      /\ Head(f) = f[1] /\ (\A i \in 1 .. N : f[i] \in Byte)
      /\ \A i \in 1 .. N - 1 : Tail(f)[i] = f[i + 1]
  OBVIOUS
<1>2. PICK l : /\ l[1] = [done |-> <<Head(f)>>, rest |-> Tail(f)]
               /\ \A n \in 2 .. Len(f) : l[n] = SendRound(copy[n], l[n - 1])
               /\ ES_opt_send(copy, f) = l[Len(f)].done
  BY SendRounds
<1> DEFINE Passed(n) ==
             /\ l[n] \in SendState /\ Len(l[n].rest) = N - n
             /\ n < N /\ Clear(n - 1) => l[n].rest[1] = f[n + 1]
             /\ Clear(n) => \A k \in 1 .. N - n : l[n].rest[k] = f[n + k]
             /\ \E X \in Seq(Byte) :
                  /\ Len(X) = n /\ l[n].done = Escaped(X)
                  /\ \A i \in 1 .. n : Clear(i - 2) => X[i] = f[i]
<1>3. Passed(1)
  <2> DEFINE X == <<f[1]>>
  <2>1. X \in Seq(Byte) /\ Len(X) = 1 /\ X[1] = f[1]
    BY <1>1
  <2>2. l[1].done = X /\ l[1].rest = Tail(f) /\ l[1] \in SendState
    BY <1>1, <1>2, <2>1 DEF SendState
  <2>3. Escaped(X) = X
    <3>1. f[1] \in Byte
      BY <1>1
    <3> QED BY <3>1, EscapedGrows
  <2> HIDE DEF X
  <2>4. \E Y \in Seq(Byte) :
          Len(Y) = 1 /\ l[1].done = Escaped(Y) /\ \A i \in 1 .. 1 : Clear(i - 2) => Y[i] = f[i]
    <3>1. \A i \in 1 .. 1 : i = 1
      OBVIOUS
    <3> QED BY <2>1, <2>2, <2>3, <3>1
  <2>5. \A k \in 1 .. N - 1 : l[1].rest[k] = f[1 + k]
    BY <1>1, <2>2
  <2>6. 1 < N => l[1].rest[1] = f[1 + 1]
    BY <1>1, <2>2
  <2> QED BY <1>1, <2>2, <2>4, <2>5, <2>6
<1>4. ASSUME NEW n \in 1 .. N - 1, Passed(n) PROVE Passed(n + 1)
  <2>1. /\ n + 1 \in 2 .. Len(f) /\ (n + 1) - 1 = n /\ n + 1 \in 1 .. N /\ n < N
        /\ (n + 1) - 2 = n - 1
    BY <1>1
  <2>2. /\ l[n] \in SendState /\ Len(l[n].rest) = N - n
        /\ Clear(n - 1) => l[n].rest[1] = f[n + 1]
        /\ Clear(n) => \A k \in 1 .. N - n : l[n].rest[k] = f[n + k]
    BY <1>4, <2>1
  <2>3. PICK X \in Seq(Byte) :
          /\ Len(X) = n /\ l[n].done = Escaped(X)
          /\ \A i \in 1 .. n : Clear(i - 2) => X[i] = f[i]
    BY <1>4
  <2> DEFINE r == l[n].rest
             b == r[1]
             s == copy[n + 1]
  <2>4. r \in Seq(Byte) /\ Len(r) = N - n /\ r # <<>>
    BY <1>1, <2>1, <2>2 DEF SendState
  <2>5. l[n + 1] = SendRound(s, l[n])
    BY <1>2, <2>1
  <2>6. /\ l[n + 1] \in SendState
        /\ Len(l[n + 1].rest) = Len(r) - 1
        /\ Len(r) > 1 => l[n + 1].rest[1] = r[2]
        /\ (s = {} \/ b \notin {FA, FE}) => l[n + 1].rest = Tail(r)
        /\ l[n + 1].done = l[n].done \o EscapedByte(b)
        /\ b \in Byte
    <3> DEFINE x == l[n]
    <3> HIDE DEF s, x
    <3>1. x \in SendState /\ x.rest # <<>>
      BY <2>2, <2>4 DEF x
    <3>2. /\ SendRound(s, x) \in SendState
          /\ Len(SendRound(s, x).rest) = Len(x.rest) - 1
          /\ Len(x.rest) > 1 => SendRound(s, x).rest[1] = x.rest[2]
          /\ (s = {} \/ x.rest[1] \notin {FA, FE}) => SendRound(s, x).rest = Tail(x.rest)
          /\ SendRound(s, x).done = x.done \o EscapedByte(x.rest[1])
          /\ x.rest[1] \in Byte
      BY <3>1, RoundType
    <3> QED BY <2>5, <3>2 DEF x
  <2> DEFINE Y == Append(X, b)
  <2>7. /\ Y \in Seq(Byte) /\ Len(Y) = n + 1 /\ Y[n + 1] = b
        /\ \A i \in 1 .. n : Y[i] = X[i]
    BY <2>3, <2>6
  <2>8. X # <<>>
    BY <2>3
  <2>9. l[n + 1].done = Escaped(Y)
    BY <2>3, <2>6, <2>8, EscapedGrows
  <2>10. whole => s = {}
    BY <2>1
  <2>11. Clear(n + 1) => Clear(n) /\ (s = {} \/ f[n + 1] \notin {FA, FE})
    BY <2>1, <2>10
  <2>12. Clear(n) => Clear(n - 1)
    OBVIOUS
  <2> HIDE DEF Clear, whole, Y, s
  <2>13. \A i \in 1 .. n + 1 : Clear(i - 2) => Y[i] = f[i]
    <3> SUFFICES ASSUME NEW i \in 1 .. n + 1, Clear(i - 2) PROVE Y[i] = f[i]
      OBVIOUS
    <3>1. CASE i = n + 1
      BY <2>1, <2>2, <2>7, <3>1
    <3>2. CASE i \in 1 .. n
      BY <2>3, <2>7, <3>2
    <3> QED BY <3>1, <3>2
  <2>14. Len(l[n + 1].rest) = N - (n + 1)
    <3>1. Len(l[n + 1].rest) = Len(r) - 1 /\ Len(r) = N - n
      BY <2>4, <2>6
    <3> HIDE DEF r, N
    <3> QED BY <1>1, <3>1
  <2>15. ASSUME n + 1 < N, Clear(n) PROVE l[n + 1].rest[1] = f[(n + 1) + 1]
    <3>1. 2 \in 1 .. N - n /\ Len(r) > 1 /\ n + 2 = (n + 1) + 1
      <4> HIDE DEF r, N
      <4> QED BY <1>1, <2>4, <2>15
    <3> QED BY <2>2, <2>6, <2>15, <3>1
  <2>16. ASSUME Clear(n + 1)
         PROVE  \A k \in 1 .. N - (n + 1) : l[n + 1].rest[k] = f[(n + 1) + k]
    <3> TAKE k \in 1 .. N - (n + 1)
    <3>1. k + 1 \in 1 .. N - n /\ n + (k + 1) = (n + 1) + k /\ k \in 1 .. Len(r) - 1
          /\ 1 \in 1 .. N - n
      <4> HIDE DEF r, N
      <4> QED BY <1>1, <2>4
    <3>2. b = f[n + 1] /\ r[k + 1] = f[n + (k + 1)]
      BY <2>2, <2>11, <2>16, <3>1
    <3>3. l[n + 1].rest = Tail(r)
      BY <2>6, <2>11, <2>16, <3>2
    <3>4. Tail(r)[k] = r[k + 1]
      BY <2>4, <3>1
    <3> QED BY <3>1, <3>2, <3>3, <3>4
  <2>17. \E Z \in Seq(Byte) :
           /\ Len(Z) = n + 1 /\ l[n + 1].done = Escaped(Z)
           /\ \A i \in 1 .. n + 1 : Clear(i - 2) => Z[i] = f[i]
    BY <2>7, <2>9, <2>13
  <2> QED BY <2>1, <2>6, <2>14, <2>15, <2>16, <2>17
<1> HIDE DEF Passed
<1> DEFINE S == {n \in Nat : n + 1 <= N => Passed(n + 1)}
<1>5. 0 \in S
  <2>1. 0 + 1 = 1
    OBVIOUS
  <2> QED BY <1>3, <2>1
<1>6. ASSUME NEW n \in Nat, n \in S PROVE n + 1 \in S
  <2> SUFFICES ASSUME (n + 1) + 1 <= N PROVE Passed((n + 1) + 1)
    OBVIOUS
  <2>1. n + 1 \in 1 .. N - 1 /\ n + 1 <= N
    BY <1>1
  <2> QED BY <1>4, <1>6, <2>1
<1>7. Nat \subseteq S
  <2> HIDE DEF S
  <2> QED BY <1>5, <1>6, SetInduction
<1>8. Passed(N)
  <2>1. N - 1 \in Nat /\ (N - 1) + 1 = N /\ N <= N
    BY <1>1
  <2> HIDE DEF N
  <2> QED BY <1>7, <2>1
<1>9. PICK X \in Seq(Byte) :
        /\ Len(X) = N /\ l[N].done = Escaped(X)
        /\ \A i \in 1 .. N : Clear(i - 2) => X[i] = f[i]
  BY <1>8 DEF Passed
<1> QED BY <1>2, <1>9

(* On the line no head stands behind the first byte, and FE begins a pair.  *)
LEMMA OneHead ==
  ASSUME NEW X \in Seq(Byte), X # <<>>, X[1] # FE
  PROVE  /\ Escaped(X) \in Seq(Byte)
         /\ \A i \in 2 .. Len(Escaped(X)) :
              /\ Escaped(X)[i] # FA
              /\ Escaped(X)[i] = FE =>
                   i < Len(Escaped(X)) /\ Escaped(X)[i + 1] \in {1, 2}
<1>1. Escaped(X) \in Seq(Byte) /\ \E c : Carries(Escaped(X), X, c)
  BY EscapedCarries
<1>2. PICK c : Carries(Escaped(X), X, c)
  BY <1>1
<1>3. \A i \in 2 .. Len(Escaped(X)) : Escaped(X)[i] = FE =>
        i < Len(Escaped(X)) /\ Escaped(X)[i + 1] \in {1, 2}
  <2>1. \A i \in 2 .. Len(Escaped(X)) : i \in 1 .. Len(Escaped(X))
    OBVIOUS
  <2> QED BY <1>2, <2>1 DEF Carries, First
<1> DEFINE P(n) == SubSeq(X, 1, n)
           S == {n \in Nat : n + 1 <= Len(X) =>
                   /\ Escaped(P(n + 1)) \in Seq(Byte)
                   /\ \A i \in 2 .. Len(Escaped(P(n + 1))) : Escaped(P(n + 1))[i] # FA}
<1>4. 0 \in S
  <2>1. P(0 + 1) = <<X[1]>> /\ X[1] \in Byte
    <3>1. 1 \in 1 .. Len(X)
      OBVIOUS
    <3>2. X[1] \in Byte
      BY <3>1
    <3>3. Len(P(1)) = 1 /\ P(1) \in Seq(Byte) /\ P(1)[1] = X[1]
      BY <3>1, Cutout
    <3>4. P(1) = <<X[1]>>
      <4> HIDE DEF P
      <4> QED BY <3>3
    <3> QED BY <3>2, <3>4
  <2>2. Escaped(P(0 + 1)) = <<X[1]>>
    BY <2>1, EscapedGrows
  <2> QED BY <2>1, <2>2
<1>5. ASSUME NEW n \in Nat, n \in S PROVE n + 1 \in S
  <2> SUFFICES ASSUME (n + 1) + 1 <= Len(X)
               PROVE  /\ Escaped(P((n + 1) + 1)) \in Seq(Byte)
                      /\ \A i \in 2 .. Len(Escaped(P((n + 1) + 1))) :
                           Escaped(P((n + 1) + 1))[i] # FA
    OBVIOUS
  <2> DEFINE m == (n + 1) + 1
             A == P(n + 1)
             b == X[m]
  <2>1. /\ A \in Seq(Byte) /\ A # <<>> /\ b \in Byte /\ P(m) = Append(A, b)
    OBVIOUS
  <2>2. /\ Escaped(A) \in Seq(Byte)
        /\ \A i \in 2 .. Len(Escaped(A)) : Escaped(A)[i] # FA
    BY <1>5
  <2> HIDE DEF A, b, P, m
  <2>3. Escaped(P(m)) = Escaped(A) \o EscapedByte(b)
    BY <2>1, EscapedGrows
  <2>4. /\ EscapedByte(b) \in Seq(Byte)
        /\ \A i \in 1 .. Len(EscapedByte(b)) : EscapedByte(b)[i] # FA
    <3>1. EscapedByte(b) \in Seq(Byte)
      BY <2>1, EscapedByteType
    <3>2. \A i \in 1 .. Len(EscapedByte(b)) : EscapedByte(b)[i] # FA
      BY DEF EscapedByte, FA, FE
    <3> QED BY <3>1, <3>2
  <2> DEFINE a == Escaped(A)
             e == EscapedByte(b)
             l == a \o e
  <2>5. /\ l \in Seq(Byte) /\ Len(a) \in Nat /\ Len(e) \in Nat /\ Len(l) = Len(a) + Len(e)
        /\ \A i \in 1 .. Len(a) : l[i] = a[i]
        /\ \A i \in 1 .. Len(e) : l[Len(a) + i] = e[i]
    <3>1. a \in Seq(Byte) /\ e \in Seq(Byte)
      BY <2>2, <2>4
    <3> HIDE DEF a, e
    <3> QED BY <3>1, Joined
  <2>6. \A i \in 2 .. Len(a) : a[i] # FA
    BY <2>2
  <2>7. \A i \in 1 .. Len(e) : e[i] # FA
    BY <2>4
  <2> HIDE DEF a, e, l
  <2>8. ASSUME NEW i \in 2 .. Len(l) PROVE l[i] # FA
    <3>1. CASE i <= Len(a)
      BY <2>5, <2>6, <3>1
    <3>2. CASE i > Len(a)
      <4> DEFINE k == i - Len(a)
      <4>1. k \in 1 .. Len(e) /\ Len(a) + k = i
        BY <2>5, <3>2
      <4> HIDE DEF k
      <4> QED BY <2>5, <2>7, <4>1
    <3>3. i \in Int /\ Len(a) \in Int
      BY <2>5
    <3> QED BY <3>1, <3>2, <3>3
  <2>9. Escaped(P(m)) = l
    BY <2>3 DEF a, e, l
  <2> QED BY <2>5, <2>8, <2>9 DEF m
<1>6. Nat \subseteq S
  <2> HIDE DEF S
  <2> QED BY <1>4, <1>5, SetInduction
<1>7. \A i \in 2 .. Len(Escaped(X)) : Escaped(X)[i] # FA
  <2>1. Len(X) - 1 \in Nat /\ (Len(X) - 1) + 1 = Len(X) /\ P(Len(X)) = X
    OBVIOUS
  <2> HIDE DEF P
  <2> DEFINE n == Len(X) - 1
  <2>2. n \in S /\ n + 1 <= Len(X) /\ n + 1 = Len(X)
    <3> HIDE DEF S
    <3> QED BY <1>6, <2>1
  <2>3. \A i \in 2 .. Len(Escaped(P(n + 1))) : Escaped(P(n + 1))[i] # FA
    <3> HIDE DEF n
    <3> QED BY <2>2
  <2> HIDE DEF n
  <2> QED BY <2>1, <2>2, <2>3
<1> QED BY <1>1, <1>3, <1>7

(* The frame in hand is one of the gateway's; what is on the line is as     *)
(* long a frame, escaped, and agrees with it in the bytes that are intact.  *)
SentAs(X) ==
  /\ Len(X) = Len(data)
  /\ written = Escaped(X)
  /\ \A i \in 1 .. Len(data) : Intact(i) => X[i] = data[i]

SenderInv ==
  /\ \E n \in 0 .. PayloadMax : \E payload \in [1 .. n -> PayloadBytes] : data = Frame(payload)
  /\ written # NoLine => \E X \in Seq(Byte) : SentAs(X)

(* What that says of the frame in hand.                                     *)
LEMMA SenderFrame ==
  ASSUME SenderInv
  PROVE  /\ data \in Seq(Byte) /\ Len(data) \in 7 .. PayloadMax + 7 /\ PayloadMax \in 0 .. 23
         /\ data[1] = FA /\ data[2] = 255 /\ data[3] = 255 /\ data[4] = 0
         /\ data[6] = Len(data)
<1>1. PICK n \in 0 .. PayloadMax : \E payload \in [1 .. n -> PayloadBytes] : data = Frame(payload)
  BY DEF SenderInv
<1>2. PICK payload \in [1 .. n -> PayloadBytes] : data = Frame(payload)
  BY <1>1
<1> QED BY <1>2, FrameType, SenderAssumption

(* It holds of the first frame ...                                          *)
LEMMA SenderStarts == SenderInit => SenderInv
<1> SUFFICES ASSUME SenderInit PROVE SenderInv
  OBVIOUS
<1>1. 0 \in 0 .. PayloadMax
  BY SenderAssumption
<1>2. <<>> \in [1 .. 0 -> PayloadBytes]
  OBVIOUS
<1>3. data = Frame(<<>>) /\ written = NoLine
  BY DEF SenderInit
<1> QED BY <1>1, <1>2, <1>3 DEF SenderInv

(* ... and is kept.                                                         *)
LEMMA SenderStep == SenderInv /\ [SenderNext]_sender => SenderInv'
<1> SUFFICES ASSUME SenderInv, [SenderNext]_sender PROVE SenderInv'
  OBVIOUS
<1>1. ASSUME cbus_dequeue PROVE SenderInv'
  BY <1>1 DEF cbus_dequeue, SenderInv
<1>2. ASSUME general_serial_write PROVE SenderInv'
  <2>1. data' = data /\ written' = ES_opt_send(copied', data)
    BY <1>2 DEF general_serial_write
  <2>2. data \in Seq(Byte) /\ data # <<>> /\ Len(data) \in 7 .. 30
    <3>1. data \in Seq(Byte) /\ Len(data) \in 7 .. PayloadMax + 7 /\ PayloadMax \in 0 .. 23
      BY SenderFrame
    <3> DEFINE N == Len(data)
    <3>2. N \in 7 .. PayloadMax + 7 /\ PayloadMax \in 0 .. 23
      BY <3>1
    <3> HIDE DEF N
    <3>3. N \in 7 .. 30
      BY <3>2
    <3>4. data # <<>>
      BY <3>3 DEF N
    <3> QED BY <3>1, <3>3, <3>4 DEF N
  <2> DEFINE copy == copied'
  <2> HIDE DEF copy
  <2>3. PICK X \in Seq(Byte) :
           /\ Len(X) = Len(data)
           /\ ES_opt_send(copy, data) = Escaped(X)
           /\ \A i \in 1 .. Len(data) :
                \/ \A n \in 2 .. Len(data) : copy[n] = {}
                \/ \A j \in 2 .. i - 2 : data[j] \notin {FA, FE}
                => X[i] = data[i]
    BY <2>2, SendPasses
  <2>4. copy = Whole => \A n \in 2 .. Len(data) : copy[n] = {}
    <3> DEFINE N == Len(data)
    <3>1. \A n \in 2 .. N : n \in 2 .. 30
      <4>1. N \in 7 .. 30
        BY <2>2
      <4> HIDE DEF N
      <4> QED BY <4>1
    <3> QED BY <3>1 DEF Whole
  <2>5. SentAs(X)'
    BY <2>1, <2>3, <2>4 DEF SentAs, Intact, copy, Whole
  <2> QED BY <2>1, <2>5 DEF SenderInv
<1>3. CASE UNCHANGED sender
  BY <1>3 DEF sender, SenderInv, SentAs, Intact
<1> QED BY <1>1, <1>2, <1>3 DEF SenderNext

(* However memcpy copies, the line has one head and FE only in pairs; and   *)
(* it carries the frame with FA and FE escaped if no byte was moved that    *)
(* had to be right, for every payload.                                      *)
THEOREM LineEscaped == SenderSpec => []LineIsEscaped
<1>1. SenderInv => LineIsEscaped
  <2> SUFFICES ASSUME SenderInv, written # NoLine
               PROVE  /\ \A i \in 2 .. Len(written) :
                           /\ written[i] # FA
                           /\ written[i] = FE =>
                                i < Len(written) /\ written[i + 1] \in {1, 2}
                      /\ Intact(Len(data)) => written = Escaped(data)
    BY DEF LineIsEscaped
  <2>1. PICK X \in Seq(Byte) : SentAs(X)
    BY DEF SenderInv
  <2>2. Len(data) \in Nat /\ Len(data) >= 7 /\ data \in Seq(Byte) /\ data[1] = FA
    BY SenderFrame
  <2>3. /\ Len(X) = Len(data) /\ written = Escaped(X)
        /\ \A i \in 1 .. Len(data) : Intact(i) => X[i] = data[i]
    BY <2>1 DEF SentAs
  <2>4. X # <<>> /\ X[1] # FE
    <3>1. Intact(1)
      BY DEF Intact
    <3>2. 1 \in 1 .. Len(data)
      BY <2>2
    <3>3. X[1] = FA
      BY <2>2, <2>3, <3>1, <3>2
    <3> QED BY <2>2, <2>3, <3>3 DEF FA, FE
  <2>5. ASSUME Intact(Len(data)) PROVE X = data
    <3>1. \A i \in 1 .. Len(data) : Intact(i)
      <4> SUFFICES ASSUME NEW i \in 1 .. Len(data), copied # Whole, NEW j \in 2 .. i - 2
                   PROVE  data[j] \notin {FA, FE}
        BY DEF Intact
      <4>1. j \in 2 .. Len(data) - 2
        BY <2>2
      <4> QED BY <2>5, <4>1 DEF Intact
    <3>2. \A i \in 1 .. Len(data) : X[i] = data[i]
      BY <2>3, <3>1
    <3> QED BY <2>2, <2>3, <3>2
  <2> QED BY <2>3, <2>4, <2>5, OneHead
<1> QED BY <1>1, SenderStarts, SenderStep, PTL DEF SenderSpec
(* A scan for twenty zeros finds none in a frame of up to 26 bytes, whose   *)
(* sixth is its length.                                                     *)
LEMMA ReachedInFrame ==
  ASSUME NEW X \in Seq(Byte), NEW k \in 1 .. 26, X[6] # 0
  PROVE  Reached(X, k)
<1> SUFFICES ASSUME NEW j \in 20 .. k - 1 PROVE \E i \in j - 19 .. j : X[i] # 0
  BY DEF Reached
<1>1. 6 \in j - 19 .. j
  OBVIOUS
<1> QED BY <1>1

(* What such a frame looks like in a clear buffer after ES_opt_recv.        *)
LEMMA ReadBack ==
  ASSUME NEW f \in Seq(Byte), Len(f) \in 7 .. 26, f[1] # FE, f[6] # 0
  PROVE  LET got == ES_opt_recv(Escaped(f) \o [i \in 1 .. 20 |-> 0])
         IN  /\ Len(Escaped(f)) - got.removed = Len(f)
             /\ \A i \in 1 .. Len(f) : got.buf[i] = f[i]
<1> DEFINE z == [i \in 1 .. 20 |-> 0]
           l == Escaped(f)
           buf == l \o z
           X == f \o z
<1>1. z \in Seq(Byte) /\ Len(z) = 20 /\ \A i \in 1 .. Len(z) : z[i] = 0
  BY DEF Byte
<1>2. f # <<>>
  OBVIOUS
<1>3. l \in Seq(Byte)
  BY <1>2, EscapedCarries
<1>4. PICK c1 : Carries(l, f, c1)
  BY <1>2, EscapedCarries
<1> HIDE DEF z, l
<1>5. PICK c2 : Carries(z, z, c2)
  <2>1. \A i \in 1 .. Len(z) : z[i] # FE
    BY <1>1, Marks, Zenon
  <2> QED BY <1>1, <2>1, PlainCarried
<1>6. PICK c : Carries(buf, X, c)
  BY <1>1, <1>3, <1>4, <1>5, CarriesJoin
<1>7. /\ buf \in Seq(Byte) /\ Len(l) \in Nat /\ Len(buf) = Len(l) + 20
  <2>1. buf \in Seq(Byte) /\ Len(l) \in Nat /\ Len(buf) = Len(l) + Len(z)
    BY <1>1, <1>3, Joined
  <2> HIDE DEF buf
  <2> QED BY <1>1, <2>1
<1> DEFINE M == Len(f)
<1>8. /\ X \in Seq(Byte) /\ M \in 7 .. 26 /\ Len(X) = M + 20
      /\ \A i \in 1 .. M : X[i] = f[i]
      /\ \A i \in 1 .. 20 : X[M + i] = 0
  <2>1. /\ X \in Seq(Byte) /\ Len(X) = Len(f) + Len(z)
        /\ \A i \in 1 .. Len(f) : X[i] = f[i]
        /\ \A i \in 1 .. Len(z) : X[Len(f) + i] = z[i]
    BY <1>1, Joined, ZenonT(60)
  <2> HIDE DEF X
  <2> QED BY <1>1, <2>1
<1> HIDE DEF buf, X, M
<1>9. AllReached(buf, X, c)
  <2> SUFFICES ASSUME NEW n \in 1 .. Len(buf), First(buf, X, c, n) PROVE Reached(buf, n)
    BY DEF AllReached
  <2>1. Holds(buf, X, c)
    BY <1>6 DEF Carries
  <2>2. c[n] \in 0 .. Len(X) /\ c[n - 1] \in 0 .. Len(X) /\ c[n] = c[n - 1] + 1 /\ X[c[n]] # 0
    <3>1. n \in 0 .. Len(buf) /\ n - 1 \in 0 .. Len(buf)
      BY <1>7
    <3>2. X[c[n]] \in {FA, FE} /\ c[n] = c[n - 1] + 1
      BY DEF First
    <3>3. c[n] \in 0 .. Len(X) /\ c[n - 1] \in 0 .. Len(X)
      BY <2>1, <3>1 DEF Holds
    <3>4. X[c[n]] # 0
      BY <3>2 DEF FA, FE
    <3> QED BY <3>2, <3>3, <3>4
  <2>3. c[n] \in 1 .. M
    <3> DEFINE k == c[n]
    <3>1. k \in 1 .. Len(X) /\ X[k] # 0
      BY <2>2
    <3> HIDE DEF k
    <3>2. ASSUME k > M PROVE FALSE
      <4>1. k - M \in 1 .. 20 /\ M + (k - M) = k
        BY <1>8, <3>1, <3>2
      <4>2. X[M + (k - M)] = 0
        BY <1>8, <4>1, Zenon
      <4> QED BY <3>1, <4>1, <4>2, Zenon
    <3>3. k \in 1 .. M
      BY <1>8, <3>1, <3>2
    <3> QED BY <3>3 DEF k
  <2>4. Reached(X, c[n])
    <3>1. c[n] \in 1 .. 26
      <4> DEFINE k == c[n]
      <4> HIDE DEF k
      <4>1. k \in 1 .. M /\ M \in 7 .. 26
        BY <1>8, <2>3 DEF k
      <4>2. k \in 1 .. 26
        BY <4>1
      <4> QED BY <4>2 DEF k
    <3>3. X[6] # 0
      <4>1. 6 \in 1 .. M
        BY <1>8
      <4>2. X[6] = f[6]
        BY <1>8, <4>1, Zenon
      <4> QED BY <4>2, Zenon
    <3> QED BY <1>8, <3>1, <3>3, ReachedInFrame
  <2> QED BY <1>7, <1>8, <2>1, <2>4, ReachedInBuffer
<1>10. ES_opt_recv(buf) = [buf |-> X \o [j \in 1 .. Len(buf) - Len(X) |-> buf[Len(buf)]],
                           removed |-> Len(buf) - Len(X)]
       /\ Len(X) <= Len(buf)
  <2>1. Holds(buf, X, c)
    BY <1>6 DEF Carries
  <2> QED BY <1>7, <1>8, <1>9, <2>1, UnescapeHolds
<1> DEFINE pads == [j \in 1 .. Len(buf) - Len(X) |-> buf[Len(buf)]]
<1>11. pads \in Seq(Byte)
  <2>1. buf[Len(buf)] \in Byte /\ Len(buf) - Len(X) \in Nat
    BY <1>7, <1>8, <1>10
  <2> QED BY <2>1
<1>12. ES_opt_recv(buf).buf = X \o pads /\ ES_opt_recv(buf).removed = Len(buf) - Len(X)
  BY <1>10
<1> HIDE DEF pads
<1>13. Len(l) - ES_opt_recv(buf).removed = M
  BY <1>7, <1>8, <1>12
<1>14. \A i \in 1 .. Len(f) : (X \o pads)[i] = f[i]
  <2>1. /\ X \o pads \in Seq(Byte) /\ Len(pads) \in Nat
        /\ Len(X \o pads) = Len(X) + Len(pads)
        /\ \A i \in 1 .. Len(X) : (X \o pads)[i] = X[i]
    BY <1>8, <1>11, Joined
  <2> DEFINE q == X \o pads
  <2>2. q \in Seq(Byte) /\ M <= Len(q) /\ M \in Nat
    <3> DEFINE x == Len(X)
    <3> DEFINE p == Len(pads)
    <3>1. q \in Seq(Byte) /\ Len(q) = x + p /\ p \in Nat
      BY <2>1, Zenon
    <3>2. x = M + 20 /\ M \in Nat
      BY <1>8
    <3> HIDE DEF q, x, p
    <3> QED BY <3>1, <3>2
  <2>3. \A i \in 1 .. M : q[i] = f[i]
    <3> TAKE i \in 1 .. M
    <3>1. i \in 1 .. Len(X)
      BY <1>8
    <3>2. q[i] = X[i]
      BY <2>1, <3>1
    <3> QED BY <1>8, <3>2
  <2> HIDE DEF q
  <2>4. M = Len(f)
    BY DEF M
  <2>5. \A i \in 1 .. Len(f) : q[i] = f[i]
    BY <2>3, <2>4
  <2> QED BY <2>4, <2>5 DEF q
<1> QED BY <1>12, <1>13, <1>14 DEF buf, l, z, M

(* A receiver has as many bytes again, and those that were intact, as long  *)
(* as a payload is too short for twenty zeros in a row: the gateway's have  *)
(* at most 9 bytes.                                                         *)
THEOREM LineIsReadBack ==
  ASSUME PayloadMax <= 19
  PROVE  SenderSpec => []LineReadsBack
<1>1. SenderInv => LineReadsBack
  <2> SUFFICES ASSUME SenderInv, written # NoLine
               PROVE  LET got == ES_opt_recv(written \o [i \in 1 .. 20 |-> 0])
                      IN  /\ Len(written) - got.removed = Len(data)
                          /\ \A i \in DOMAIN data : Intact(i) => got.buf[i] = data[i]
    BY DEF LineReadsBack
  <2>1. PICK X \in Seq(Byte) : SentAs(X)
    BY DEF SenderInv
  <2>2. /\ data \in Seq(Byte) /\ Len(data) \in 7 .. 26
        /\ data[1] = FA /\ data[2] = 255 /\ data[3] = 255 /\ data[4] = 0
        /\ data[6] = Len(data)
    <3>1. /\ data \in Seq(Byte) /\ Len(data) \in 7 .. PayloadMax + 7 /\ PayloadMax \in 0 .. 23
          /\ data[1] = FA /\ data[2] = 255 /\ data[3] = 255 /\ data[4] = 0
          /\ data[6] = Len(data)
      BY SenderFrame
    <3> DEFINE N == Len(data)
    <3>2. N \in 7 .. PayloadMax + 7 /\ PayloadMax \in 0 .. 23
      BY <3>1
    <3> HIDE DEF N
    <3>3. N \in 7 .. 26
      BY <3>2
    <3> QED BY <3>1, <3>3 DEF N
  <2>3. /\ Len(X) = Len(data) /\ written = Escaped(X)
        /\ \A i \in 1 .. Len(data) : Intact(i) => X[i] = data[i]
    BY <2>1 DEF SentAs
  <2>4. Intact(1) /\ Intact(6)
    <3>1. \A j \in 2 .. 6 - 2 : data[j] \notin {FA, FE}
      BY <2>2 DEF FA, FE
    <3> QED BY <3>1 DEF Intact
  <2>5. X[1] = data[1] /\ X[6] = data[6]
    <3>1. 1 \in 1 .. Len(data) /\ 6 \in 1 .. Len(data)
      BY <2>2
    <3> QED BY <2>3, <2>4, <3>1
  <2>6. Len(X) \in 7 .. 26 /\ X[1] # FE /\ X[6] # 0
    <3>1. X[1] = FA /\ X[6] = Len(X) /\ Len(X) \in 7 .. 26
      BY <2>2, <2>3, <2>5
    <3> QED BY <3>1 DEF FA, FE
  <2> DEFINE got == ES_opt_recv(written \o [i \in 1 .. 20 |-> 0])
  <2>7. /\ Len(written) - got.removed = Len(X)
        /\ \A i \in 1 .. Len(X) : got.buf[i] = X[i]
    BY <2>3, <2>6, ReadBack
  <2>8. DOMAIN data = 1 .. Len(data)
    BY <2>2
  <2> HIDE DEF got
  <2>9. \A i \in DOMAIN data : Intact(i) => got.buf[i] = data[i]
    BY <2>3, <2>7, <2>8
  <2> QED BY <2>3, <2>7, <2>9 DEF got
<1> QED BY <1>1, SenderStarts, SenderStep, PTL DEF SenderSpec

--------------------------------------------------------------------------------
(* A run of zeros.                                                          *)
LEMMA ZerosType ==
  ASSUME NEW n \in Nat
  PROVE  /\ Zeros(n) \in Seq(Byte)
         /\ Len(Zeros(n)) = n
         /\ \A i \in 1 .. n : Zeros(n)[i] = 0
<1>1. 0 \in Byte
  BY Marks
<1> HIDE DEF Byte
<1> QED BY <1>1 DEF Zeros

(* The larger and the smaller of two numbers.                               *)
LEMMA LargerSmaller ==
  ASSUME NEW a \in Int, NEW b \in Int
  PROVE  /\ Max({a, b}) = IF a >= b THEN a ELSE b
         /\ Min({a, b}) = IF a <= b THEN a ELSE b
BY DEF Max, Min

(* read_to_tmp's copy leaves the buffer its length.                         *)
LEMMA PlacedType ==
  ASSUME NEW buf \in Seq(Byte), NEW index \in Int, NEW bytes \in Seq(Byte),
         index + Len(bytes) < Len(buf)
  PROVE  Placed(buf, index, bytes) \in Seq(Byte) /\ Len(Placed(buf, index, bytes)) = Len(buf)
<1> DEFINE first == Max({index, 0})
           seen == SubSeq(bytes, first - index + 1, Len(bytes))
           n == Len(bytes)
           N == Len(buf)
           k == Len(seen)
           head == SubSeq(buf, 1, first)
           rest == SubSeq(buf, first + k + 1, N)
<1>1. first = (IF index >= 0 THEN index ELSE 0) /\ n \in Nat /\ N \in Nat
  BY LargerSmaller
<1> HIDE DEF first
<1>2. first - index + 1 \in Nat \ {0} /\ first \in Nat
  BY <1>1
<1>3. seen \in Seq(Byte) /\ k = IF first - index + 1 <= n THEN n - (first - index + 1) + 1 ELSE 0
  <2>1. n \in Int /\ n <= Len(bytes)
    OBVIOUS
  <2> QED BY <1>2, <2>1, Cutout
<1> HIDE DEF seen, k
<1>4. k \in Nat /\ first + k <= N /\ first <= N
  <2>1. index + n < N
    OBVIOUS
  <2> HIDE DEF n, N
  <2> QED BY <1>1, <1>2, <1>3, <2>1
<1>5. head \in Seq(Byte) /\ Len(head) = first
  <2>1. 1 \in Nat \ {0} /\ first \in Int /\ first <= Len(buf)
    BY <1>2, <1>4
  <2>2. head \in Seq(Byte) /\ Len(head) = IF 1 <= first THEN first - 1 + 1 ELSE 0
    BY <2>1, Cutout
  <2> HIDE DEF head
  <2> QED BY <1>2, <2>2
<1>6. rest \in Seq(Byte) /\ Len(rest) = N - first - k
  <2>1. first + k + 1 \in Nat \ {0} /\ N \in Int /\ N <= Len(buf)
    BY <1>1, <1>2, <1>4
  <2>2. rest \in Seq(Byte) /\ Len(rest) = IF first + k + 1 <= N THEN N - (first + k + 1) + 1 ELSE 0
    BY <2>1, Cutout
  <2> HIDE DEF rest, N
  <2> QED BY <1>1, <1>2, <1>4, <2>2
<1> HIDE DEF head, rest, n, N
<1>7. head \o seen \in Seq(Byte) /\ Len(head \o seen) = first + k
  BY <1>3, <1>5, Joined DEF k
<1>8. (head \o seen) \o rest \in Seq(Byte) /\ Len((head \o seen) \o rest) = N
  <2> DEFINE p == head \o seen
  <2>1. p \in Seq(Byte) /\ Len(p) = first + k
    BY <1>7
  <2> HIDE DEF p
  <2>2. p \o rest \in Seq(Byte) /\ Len(p \o rest) = Len(p) + Len(rest)
    BY <1>6, <2>1, Joined
  <2>3. Len(p \o rest) = N
    BY <1>1, <1>2, <1>4, <1>6, <2>1, <2>2
  <2> QED BY <2>2, <2>3 DEF p
<1> QED BY <1>8 DEF Placed, head, seen, rest, first, k, n, N

(* So does ES_opt_recv.                                                     *)
LEMMA UnescapeType ==
  ASSUME NEW buf \in Seq(Byte)
  PROVE  /\ Unescape(buf).buf \in Seq(Byte)
         /\ Len(Unescape(buf).buf) = Len(buf)
         /\ Unescape(buf).removed \in Nat
<1>1. CASE port # "clowire"
  <2>1. Unescape(buf) = [buf |-> buf, removed |-> 0]
    BY <1>1 DEF Unescape
  <2> QED BY <2>1
<1>2. CASE port = "clowire"
  <2> DEFINE K == Cardinality(Pairs(buf))
             pad == [j \in 1 .. K |-> buf[Len(buf)]]
  <2>1. PICK g \in [0 .. Len(buf) -> Seq(Byte)] :
          /\ K \in Nat
          /\ Len(g[Len(buf)]) + K = Len(buf)
          /\ ES_opt_recv(buf) = [buf |-> g[Len(buf)] \o pad, removed |-> K]
    BY UnescapeRounds
  <2> DEFINE all == g[Len(buf)]
  <2>2. Len(buf) \in 0 .. Len(buf) /\ Len(buf) \in Nat
    OBVIOUS
  <2>3. all \in Seq(Byte) /\ Len(all) + K = Len(buf) /\ K \in Nat
    BY <2>1, <2>2
  <2>4. ES_opt_recv(buf) = [buf |-> all \o pad, removed |-> K]
    BY <2>1
  <2> HIDE DEF all, K
  <2>5. pad \in Seq(Byte) /\ Len(pad) = K
    <3>1. K > 0 => Len(buf) \in 1 .. Len(buf)
      BY <2>2, <2>3
    <3>2. K > 0 => buf[Len(buf)] \in Byte
      BY <3>1
    <3> QED BY <2>3, <3>2
  <2> HIDE DEF pad
  <2>6. all \o pad \in Seq(Byte) /\ Len(all \o pad) = Len(all) + Len(pad)
    BY <2>3, <2>5, Joined
  <2>7. Unescape(buf) = [buf |-> all \o pad, removed |-> K]
    BY <1>2, <2>4 DEF Unescape
  <2> QED BY <2>3, <2>5, <2>6, <2>7
<1> QED BY <1>1, <1>2

--------------------------------------------------------------------------------
(* The reader keeps its types, whatever comes.                              *)
ReceiverTypes ==
  /\ port \in {"clowire", "qiyuan"}
  /\ wire \in Seq(Byte) /\ buf_tmp \in Seq(Byte) /\ buf_final \in Seq(Byte)
  /\ Len(buf_tmp) = BUF_MAX
  /\ p_index \in Int /\ len \in Nat
  /\ reader \in {"read", "cut"}
  /\ p_flag \in {0, 1}
  /\ workers \in 0 .. p_flag

(* What is cut out is made of bytes, and the buffer keeps its length.       *)
LEMMA BytesType ==
  ASSUME ReceiverTypes, NEW i \in 1 .. BUF_MAX, NEW n \in 0 .. DATA_MAX - 1
  PROVE  /\ Bytes(i, n) \in Seq(Byte)
         /\ Len(Bytes(i, n)) = n
         /\ \A j \in 1 .. n : Bytes(i, n)[j] = (buf_tmp \o Zeros(DATA_MAX))[i + j - 1]
<1> DEFINE q == buf_tmp \o Zeros(DATA_MAX)
           z == i + n - 1
<1>1. BUF_MAX \in Nat /\ DATA_MAX = 30
  BY ReceiverAssumption DEF DATA_MAX
<1>2. q \in Seq(Byte) /\ Len(q) = BUF_MAX + 30
  <2>1. Zeros(DATA_MAX) \in Seq(Byte) /\ Len(Zeros(DATA_MAX)) = 30
    BY <1>1, ZerosType
  <2>2. buf_tmp \in Seq(Byte) /\ Len(buf_tmp) = BUF_MAX
    BY DEF ReceiverTypes
  <2>3. q \in Seq(Byte) /\ Len(q) = Len(buf_tmp) + Len(Zeros(DATA_MAX))
    BY <2>1, <2>2, Joined, ZenonT(60)
  <2> HIDE DEF q
  <2> QED BY <2>1, <2>2, <2>3
<1> HIDE DEF q
<1>3. i \in Nat \ {0} /\ z \in Int /\ z <= Len(q)
  BY <1>1, <1>2
<1>4. /\ SubSeq(q, i, z) \in Seq(Byte)
      /\ Len(SubSeq(q, i, z)) = IF i <= z THEN z - i + 1 ELSE 0
      /\ \A j \in 1 .. z - i + 1 : SubSeq(q, i, z)[j] = q[i + j - 1]
  BY <1>2, <1>3, Cutout
<1>5. z - i + 1 = n /\ (i <= z <=> n > 0) /\ n \in Nat
  BY <1>1
<1> HIDE DEF z
<1>6. Len(SubSeq(q, i, z)) = n
  BY <1>4, <1>5
<1> QED BY <1>4, <1>5, <1>6 DEF Bytes, q, z

(* What stands at a head: its length, and how much is cut.                  *)
LEMMA PackageType ==
  ASSUME ReceiverTypes, NEW i \in Heads
  PROVE  /\ i \in 1 .. BUF_MAX
         /\ package_size(i) \in 1 .. DATA_MAX - 1
         /\ len - package_size(i) \in Nat
         /\ Cut(i) \in Nat \ {0}
         /\ Cut(i) = i + package_size(i) - 1
<1>1. i \in DOMAIN buf_tmp /\ FrameAt(i)
  BY DEF Heads
<1>2. i \in 1 .. BUF_MAX
  BY <1>1 DEF ReceiverTypes
<1>3. package_size(i) \in 1 .. 29 /\ len >= package_size(i) /\ DATA_MAX = 30
  BY <1>1 DEF FrameAt, DATA_MAX
<1> DEFINE n == package_size(i)
<1>4. n \in 1 .. 29 /\ len >= n /\ len \in Nat /\ i \in Nat \ {0} /\ Cut(i) = i + n - 1
  BY <1>2, <1>3, ReceiverAssumption DEF Cut, ReceiverTypes
<1> HIDE DEF n
<1>5. len - n \in Nat /\ i + n - 1 \in Nat \ {0}
  BY <1>4
<1> QED BY <1>2, <1>3, <1>4, <1>5 DEF n

(* The first place with a frame is one.                                     *)
LEMMA FirstHead ==
  ASSUME ReceiverTypes, Heads # {}
  PROVE  Min(Heads) \in Heads
<1>1. Heads \subseteq Nat
  BY DEF Heads, ReceiverTypes
<1> QED BY <1>1, Least

(* The first d of N bytes are gone, zeros come in at the end.               *)
MovedUp(shifted, buf, d, N) ==
  /\ shifted \in Seq(Byte)
  /\ Len(shifted) = N
  /\ \A j \in 1 .. N : shifted[j] = IF d + j <= N THEN buf[d + j] ELSE 0

(* That is the buffer after a cut.                                          *)
LEMMA ShiftType ==
  ASSUME NEW buf \in Seq(Byte), NEW d \in Nat, NEW N, N = Len(buf)
  PROVE  MovedUp(SubSeq(buf, d + 1, N) \o Zeros(Min({d, N})), buf, d, N)
<1> DEFINE kept == SubSeq(buf, d + 1, N)
           z == Min({d, N})
           pad == Zeros(z)
<1>1. N \in Nat
  OBVIOUS
<1>2. z = IF d <= N THEN d ELSE N
  <2>1. d \in Int /\ N \in Int
    BY <1>1
  <2> QED BY <2>1, LargerSmaller
<1> HIDE DEF z
<1>3. pad \in Seq(Byte) /\ Len(pad) = z /\ \A i \in 1 .. z : pad[i] = 0
  BY <1>1, <1>2, ZerosType
<1>4. /\ kept \in Seq(Byte)
      /\ Len(kept) = IF d + 1 <= N THEN N - (d + 1) + 1 ELSE 0
      /\ \A i \in 1 .. N - (d + 1) + 1 : kept[i] = buf[(d + 1) + i - 1]
  <2>1. d + 1 \in Nat \ {0} /\ N \in Int /\ N <= Len(buf)
    BY <1>1
  <2> QED BY <2>1, Cutout
<1> HIDE DEF kept, pad
<1> DEFINE k == Len(kept)
<1>5. k = (IF d <= N THEN N - d ELSE 0) /\ k \in Nat /\ k + z = N
  <2>1. k = IF d + 1 <= N THEN N - (d + 1) + 1 ELSE 0
    BY <1>4
  <2> HIDE DEF k
  <2>2. CASE d <= N
    <3>1. d + 1 <= N + 1 /\ (d + 1 <= N \/ d = N)
      BY <1>1, <2>2
    <3>2. k = N - d
      BY <1>1, <2>1, <2>2, <3>1
    <3> QED BY <1>1, <1>2, <2>2, <3>2
  <2>3. CASE ~ (d <= N)
    BY <1>1, <1>2, <2>1, <2>3
  <2> QED BY <2>2, <2>3
<1>6. /\ kept \o pad \in Seq(Byte)
      /\ Len(kept \o pad) = k + z
      /\ \A i \in 1 .. k : (kept \o pad)[i] = kept[i]
      /\ \A i \in 1 .. z : (kept \o pad)[k + i] = pad[i]
  BY <1>3, <1>4, Joined
<1> DEFINE q == kept \o pad
<1> HIDE DEF k, q
<1>7. ASSUME NEW j \in 1 .. N PROVE q[j] = IF d + j <= N THEN buf[d + j] ELSE 0
  <2>1. CASE d + j <= N
    <3>1. j \in 1 .. k /\ j \in 1 .. N - (d + 1) + 1 /\ (d + 1) + j - 1 = d + j
      BY <1>1, <1>5, <2>1
    <3>2. q[j] = kept[j]
      BY <1>6, <3>1 DEF q
    <3> QED BY <1>4, <2>1, <3>1, <3>2
  <2>2. CASE ~ (d + j <= N)
    <3>1. j - k \in 1 .. z /\ k + (j - k) = j
      BY <1>1, <1>2, <1>5, <2>2
    <3>2. q[k + (j - k)] = pad[j - k]
      BY <1>6, <3>1 DEF q
    <3> QED BY <1>3, <2>2, <3>1, <3>2
  <2> QED BY <2>1, <2>2
<1>8. q \in Seq(Byte) /\ Len(q) = N
  BY <1>5, <1>6 DEF q
<1> QED BY <1>7, <1>8 DEF q, kept, pad, z, MovedUp

(* The bytes of a line.                                                     *)
LEMMA EscapedType ==
  ASSUME NEW f \in Seq(Byte), f # <<>>
  PROVE  Escaped(f) \in Seq(Byte)
<1> DEFINE N == Len(f)
           seqs == [i \in 1 .. N - 1 |-> EscapedByte(f[i + 1])]
<1>1. N \in Nat /\ N >= 1 /\ Head(f) = f[1] /\ f[1] \in Byte
  OBVIOUS
<1>2. seqs \in Seq(Seq(Byte))
  <2>1. \A i \in 1 .. N - 1 : EscapedByte(f[i + 1]) \in Seq(Byte)
    <3> TAKE i \in 1 .. N - 1
    <3>1. i + 1 \in 1 .. Len(f)
      BY <1>1
    <3>2. f[i + 1] \in Byte
      BY <3>1
    <3> QED BY <3>2, EscapedByteType
  <2> HIDE DEF N
  <2> DEFINE T == Seq(Byte)
  <2>2. N - 1 \in Nat
    BY <1>1
  <2>3. \A i \in 1 .. N - 1 : EscapedByte(f[i + 1]) \in T
    BY <2>1
  <2> HIDE DEF T
  <2>4. seqs \in Seq(T)
    BY <2>2, <2>3
  <2> QED BY <2>4 DEF T
<1> HIDE DEF seqs
<1>3. FlattenSeq(seqs) \in Seq(Byte)
  <2>1. PICK g \in [0 .. Len(seqs) -> Seq(Byte)] : FlattenSeq(seqs) = g[Len(seqs)]
    BY <1>2, FlattenBytes
  <2>2. Len(seqs) \in 0 .. Len(seqs)
    BY <1>2
  <2> QED BY <2>1, <2>2
<1>4. <<Head(f)>> \in Seq(Byte)
  BY <1>1
<1>5. <<Head(f)>> \o FlattenSeq(seqs) \in Seq(Byte)
  BY <1>3, <1>4, Joined
<1> QED BY <1>5 DEF Escaped, seqs, N

(* What is on the line at the start.                                        *)
LEMMA LineType ==
  ASSUME Init
  PROVE  /\ wire \in Seq(Byte) /\ noise \in Seq(Byte)
         /\ sent \in Seq(Seq(Byte) \ {<<>>})
         /\ [i \in DOMAIN sent |-> OnLine(sent[i])] \in Seq(Seq(Byte))
<1> DEFINE F == Seq(Byte) \ {<<>>}
           T == Seq(Byte)
           seqs == [i \in DOMAIN sent |-> OnLine(sent[i])]
           n == Len(sent)
<1>1. sent \in Seq(F) /\ noise \in T
  <2>1. (sent \in Traffic /\ noise \in Noise) \/ (sent \in Reports /\ noise \in Strays)
    BY DEF Init
  <2>2. Traffic \cup Reports \subseteq Seq(F) /\ Noise \cup Strays \subseteq T
    BY ReceiverAssumption DEF Byte
  <2> HIDE DEF F, T
  <2> QED BY <2>1, <2>2
<1>2. F \subseteq T /\ \A f \in F : OnLine(f) \in T
  <2>1. \A f \in F : Escaped(f) \in T
    BY EscapedType
  <2> QED BY <2>1 DEF OnLine
<1> HIDE DEF F, T
<1>3. n \in Nat /\ DOMAIN sent = 1 .. n /\ \A i \in 1 .. n : sent[i] \in F
  BY <1>1
<1> HIDE DEF n
<1>4. seqs \in Seq(T)
  BY <1>2, <1>3
<1> HIDE DEF seqs
<1>5. FlattenSeq(seqs) \in T
  <2>1. PICK g \in [0 .. Len(seqs) -> Seq(Byte)] : FlattenSeq(seqs) = g[Len(seqs)]
    BY <1>4, FlattenBytes DEF T
  <2>2. Len(seqs) \in 0 .. Len(seqs)
    BY <1>4
  <2> QED BY <2>1, <2>2 DEF T
<1>6. wire = noise \o FlattenSeq(seqs)
  BY DEF Init, seqs
<1>7. wire \in T
  BY <1>1, <1>5, <1>6, Joined DEF T
<1> QED BY <1>1, <1>4, <1>7 DEF F, T, seqs

(* An empty buffer has the types.                                           *)
LEMMA ReceiverTypesInit == Init => ReceiverTypes
<1> SUFFICES ASSUME Init PROVE ReceiverTypes
  OBVIOUS
<1>1. wire \in Seq(Byte)
  BY LineType
<1>2. BUF_MAX \in Nat
  BY ReceiverAssumption
<1>3. buf_tmp \in Seq(Byte) /\ Len(buf_tmp) = BUF_MAX
  BY <1>2, ZerosType DEF Init
<1>4. buf_final \in Seq(Byte)
  BY DEF Init
<1>5. /\ port \in {"clowire", "qiyuan"} /\ p_index = 0 /\ len = 0
      /\ reader = "read" /\ p_flag = 0 /\ workers = 0
  BY DEF Init
<1> QED BY <1>1, <1>3, <1>4, <1>5 DEF ReceiverTypes

(* One read.                                                                *)
LEMMA ReadTypes ==
  ASSUME ReceiverTypes, NEW n \in 1 .. MaxRead, n <= Len(wire)
  PROVE  /\ SubSeq(wire, 1, n) \in Seq(Byte)
         /\ Len(SubSeq(wire, 1, n)) = n
         /\ \A i \in 1 .. n : SubSeq(wire, 1, n)[i] = wire[i]
         /\ SubSeq(wire, n + 1, Len(wire)) \in Seq(Byte)
         /\ Len(SubSeq(wire, n + 1, Len(wire))) = Len(wire) - n
         /\ \A i \in 1 .. Len(wire) - n : SubSeq(wire, n + 1, Len(wire))[i] = wire[n + i]
<1> DEFINE N == Len(wire)
           a == SubSeq(wire, 1, n)
           z == SubSeq(wire, n + 1, N)
<1>1. n \in Nat \ {0} /\ n <= N /\ N \in Nat
  BY ReceiverAssumption DEF ReceiverTypes
<1>2. wire \in Seq(Byte)
  BY DEF ReceiverTypes
<1>3. /\ a \in Seq(Byte) /\ Len(a) = IF 1 <= n THEN n - 1 + 1 ELSE 0
      /\ \A i \in 1 .. n - 1 + 1 : a[i] = wire[1 + i - 1]
  <2>1. 1 \in Nat \ {0} /\ n \in Int
    BY <1>1
  <2> QED BY <1>1, <1>2, <2>1, Cutout
<1>4. /\ z \in Seq(Byte) /\ Len(z) = IF n + 1 <= N THEN N - (n + 1) + 1 ELSE 0
      /\ \A i \in 1 .. N - (n + 1) + 1 : z[i] = wire[n + 1 + i - 1]
  <2>1. n + 1 \in Nat \ {0} /\ N \in Int /\ N <= Len(wire)
    BY <1>1
  <2> QED BY <1>2, <2>1, Cutout
<1> HIDE DEF a, z
<1>5. Len(a) = n /\ n - 1 + 1 = n
  BY <1>1, <1>3
<1>6. Len(z) = N - n /\ N - (n + 1) + 1 = N - n
  <2> DEFINE y == Len(z)
  <2>1. y = IF n + 1 <= N THEN N - (n + 1) + 1 ELSE 0
    BY <1>4
  <2> HIDE DEF y, N
  <2> QED BY <1>1, <2>1 DEF y
<1> HIDE DEF N
<1>7. \A i \in 1 .. n : a[i] = wire[i]
  <2> TAKE i \in 1 .. n
  <2>1. 1 + i - 1 = i
    BY <1>1
  <2> QED BY <1>3, <1>5, <2>1
<1>8. \A i \in 1 .. N - n : z[i] = wire[n + i]
  <2> TAKE i \in 1 .. N - n
  <2>1. n + 1 + i - 1 = n + i
    BY <1>1
  <2> QED BY <1>4, <1>6, <2>1
<1> QED BY <1>3, <1>4, <1>5, <1>6, <1>7, <1>8 DEF N, a, z

(* A read, a cut and a worker's end keep them.                              *)
LEMMA ReceiverTypesStep == ReceiverTypes /\ [Next]_vars => ReceiverTypes'
<1> SUFFICES ASSUME ReceiverTypes, [Next]_vars PROVE ReceiverTypes'
  OBVIOUS
<1> USE DEF line, vars
<1>1. CASE general_serial_read
  <2>1. PICK n \in 1 .. MaxRead :
          /\ n <= Len(wire)
          /\ wire' = SubSeq(wire, n + 1, Len(wire))
          /\ len' = len + n
          /\ Collect(SubSeq(wire, 1, n)) \/ read_to_tmp_reset(SubSeq(wire, 1, n))
    BY <1>1 DEF general_serial_read
  <2>2. wire' \in Seq(Byte) /\ SubSeq(wire, 1, n) \in Seq(Byte) /\ Len(SubSeq(wire, 1, n)) = n
    BY <2>1, ReadTypes
  <2>3. len' \in Nat
    <3>1. len \in Nat /\ n \in Nat /\ len' = len + n
      BY <2>1, ReceiverAssumption DEF ReceiverTypes
    <3> QED BY <3>1
  <2>4. /\ buf_tmp' \in Seq(Byte) /\ Len(buf_tmp') = BUF_MAX /\ p_index' \in Int
        /\ reader' \in {"read", "cut"}
    <3> DEFINE bytes == SubSeq(wire, 1, n)
    <3>0. bytes \in Seq(Byte) /\ Len(bytes) \in Nat
      BY <2>2
    <3> HIDE DEF bytes
    <3>1. CASE Collect(bytes)
      <4> DEFINE filled == Placed(buf_tmp, p_index, bytes)
                 got == Unescape(filled)
      <4>1. filled \in Seq(Byte) /\ Len(filled) = BUF_MAX
        <5>1. buf_tmp \in Seq(Byte) /\ Len(buf_tmp) = BUF_MAX /\ p_index \in Int
          BY DEF ReceiverTypes
        <5>2. p_index + Len(bytes) < Len(buf_tmp)
          BY <3>1, <5>1 DEF Collect
        <5> QED BY <3>0, <5>1, <5>2, PlacedType
      <4>2. /\ buf_tmp' = got.buf /\ reader' = "cut"
            /\ p_index' = p_index + Len(bytes) - got.removed
        BY <3>1 DEF Collect
      <4> HIDE DEF filled
      <4>3. got.buf \in Seq(Byte) /\ Len(got.buf) = BUF_MAX /\ got.removed \in Nat
        BY <4>1, UnescapeType
      <4> HIDE DEF got
      <4>4. p_index' \in Int
        <5> DEFINE r == got.removed
                   b == Len(bytes)
        <5>1. r \in Nat /\ b \in Nat /\ p_index \in Int /\ p_index' = p_index + b - r
          BY <3>0, <4>2, <4>3 DEF ReceiverTypes
        <5> HIDE DEF r, b
        <5> QED BY <5>1
      <4> QED BY <4>2, <4>3, <4>4
    <3>2. CASE read_to_tmp_reset(bytes)
      <4>1. buf_tmp' = Zeros(BUF_MAX) /\ p_index' = 0 /\ reader' = reader
        BY <3>2 DEF read_to_tmp_reset
      <4>2. Zeros(BUF_MAX) \in Seq(Byte) /\ Len(Zeros(BUF_MAX)) = BUF_MAX
        BY ReceiverAssumption, ZerosType
      <4> QED BY <4>1, <4>2 DEF ReceiverTypes
    <3> QED BY <2>1, <3>1, <3>2 DEF bytes
  <2> QED BY <1>1, <2>2, <2>3, <2>4 DEF general_serial_read, ReceiverTypes
<1>2. CASE CutFrame
  <2> DEFINE i == Min(Heads)
             d == Cut(i)
  <2>0. Heads # {} /\ p_flag = 0
    BY <1>2 DEF CutFrame
  <2>1. i \in Heads
    BY <2>0, FirstHead
  <2>2. /\ buf_final' = Bytes(i, package_size(i))
        /\ len' = len - package_size(i)
        /\ p_index' = p_index - d
        /\ buf_tmp' = SubSeq(buf_tmp, d + 1, BUF_MAX) \o Zeros(Min({d, BUF_MAX}))
        /\ p_flag' = 1
        /\ workers' \in {workers, workers + 1}
        /\ UNCHANGED <<line, reader, delivered>>
    BY <1>2 DEF CutFrame
  <2> HIDE DEF i
  <2>3. /\ i \in 1 .. BUF_MAX /\ package_size(i) \in 1 .. DATA_MAX - 1
        /\ len - package_size(i) \in Nat /\ d \in Nat \ {0}
    BY <2>1, PackageType
  <2>4. buf_final' \in Seq(Byte)
    <3>1. package_size(i) \in 0 .. DATA_MAX - 1
      BY <2>3 DEF DATA_MAX
    <3> QED BY <2>2, <2>3, <3>1, BytesType
  <2> HIDE DEF d
  <2>5. buf_tmp' \in Seq(Byte) /\ Len(buf_tmp') = BUF_MAX
    <3>1. buf_tmp \in Seq(Byte) /\ BUF_MAX = Len(buf_tmp) /\ d \in Nat
      BY <2>3 DEF ReceiverTypes
    <3> DEFINE shifted == SubSeq(buf_tmp, d + 1, BUF_MAX) \o Zeros(Min({d, BUF_MAX}))
    <3>2. shifted \in Seq(Byte) /\ Len(shifted) = BUF_MAX
      BY <3>1, ShiftType DEF MovedUp
    <3> HIDE DEF shifted
    <3>3. buf_tmp' = shifted
      BY <2>2 DEF shifted
    <3> QED BY <3>2, <3>3
  <2>6. p_index' \in Int /\ len' \in Nat
    BY <2>2, <2>3 DEF ReceiverTypes
  <2>7. workers' \in 0 .. p_flag'
    BY <2>0, <2>2 DEF ReceiverTypes
  <2> QED BY <2>2, <2>4, <2>5, <2>6, <2>7 DEF ReceiverTypes
<1>3. CASE NoFrame
  BY <1>3 DEF NoFrame, ReceiverTypes
<1>4. CASE data_to_other_thread
  <2>1. workers' \in 0 .. p_flag' /\ p_flag' \in {0, 1}
    BY <1>4 DEF data_to_other_thread, ReceiverTypes
  <2> QED BY <1>4, <2>1 DEF data_to_other_thread, ReceiverTypes
<1>5. CASE Done \/ UNCHANGED vars
  BY <1>5 DEF Done, ReceiverTypes
<1> QED BY <1>1, <1>2, <1>3, <1>4, <1>5 DEF Next

(* So they hold throughout.                                                 *)
LEMMA ReceiverTyped == Spec => []ReceiverTypes
BY ReceiverTypesInit, ReceiverTypesStep, PTL DEF Spec

(* Whatever stands on the line, the reader's variables keep their types:    *)
(* no frame is cut longer than what was counted, and one worker at most has *)
(* buf_final.                                                               *)
THEOREM ReceiverTypeCorrect == Spec => []TypeOK
<1>1. ReceiverTypes => TypeOK
  <2> SUFFICES ASSUME ReceiverTypes PROVE TypeOK
    OBVIOUS
  <2>1. \A q \in {wire, buf_tmp, buf_final} : \A i \in DOMAIN q : q[i] \in 0 .. 255
    <3>1. ASSUME NEW q \in Seq(Byte) PROVE \A i \in DOMAIN q : q[i] \in 0 .. 255
      <4>1. \A i \in DOMAIN q : q[i] \in Byte
        OBVIOUS
      <4> QED BY <4>1 DEF Byte
    <3>2. {wire, buf_tmp, buf_final} \subseteq Seq(Byte)
      BY DEF ReceiverTypes
    <3> QED BY <3>1, <3>2
  <2> QED BY <2>1 DEF TypeOK, ReceiverTypes
<1> QED BY <1>1, ReceiverTyped, PTL

--------------------------------------------------------------------------------
(* Frame k in the stream.                                                   *)
FramePlace(before, frames, all, k) ==
  /\ frames[k] \in Seq(Byte)
  /\ Before(before, frames, k) \in Nat
  /\ Len(frames[k]) \in Nat
  /\ Before(before, frames, k) + Len(frames[k]) <= Len(all)
  /\ \A j \in 1 .. Len(frames[k]) : all[Before(before, frames, k) + j] = frames[k][j]
  /\ k = 1 => Before(before, frames, k) = Len(before)
  /\ k < Len(frames) =>
       Before(before, frames, k + 1) = Before(before, frames, k) + Len(frames[k])
  /\ k = Len(frames) => Len(all) = Before(before, frames, k) + Len(frames[k])

(* Frames stand one after the other in their stream.                        *)
LEMMA FramePlaces ==
  ASSUME NEW before \in Seq(Byte), NEW frames \in Seq(Seq(Byte)),
         NEW all, all = Stream(before, frames)
  PROVE  /\ all \in Seq(Byte)
         /\ frames = <<>> => Len(all) = Len(before)
         /\ \A k \in 1 .. Len(frames) : FramePlace(before, frames, all, k)
         /\ \A k, j \in 1 .. Len(frames) : k < j =>
              Before(before, frames, k) + Len(frames[k]) <= Before(before, frames, j)
<1> DEFINE N == Len(frames)
           b == Len(before)
<1>0. PICK f \in [0 .. N -> Seq(Byte)] : Flattened(f, frames, N)
  <2>1. N = Len(frames)
    OBVIOUS
  <2> HIDE DEF N
  <2> QED BY <2>1, FlattenPrefixes, Zenon
<1>1. /\ f[0] = <<>>
      /\ \A n \in 1 .. N : f[n] = f[n - 1] \o frames[n]
      /\ FlattenSeq(frames) = f[N]
      /\ \A k \in 0 .. N : FlattenSeq(SubSeq(frames, 1, k)) = f[k]
  BY <1>0 DEF Flattened
<1> DEFINE g == [n \in 0 .. N |-> Len(f[n])]
<1>2. N \in Nat /\ b \in Nat /\ f \in [0 .. N -> Seq(Byte)]
      /\ \A n \in 1 .. N : frames[n] \in Seq(Byte) /\ Len(frames[n]) \in Nat
  <2> DEFINE T == Seq(Byte)
  <2>1. frames \in Seq(T)
    OBVIOUS
  <2>2. \A t \in T : Len(t) \in Nat
    OBVIOUS
  <2> HIDE DEF T
  <2>3. N \in Nat /\ \A n \in 1 .. N : frames[n] \in T
    BY <2>1
  <2> QED BY <2>2, <2>3 DEF T
<1>2b. b \in Nat /\ N \in Nat
  OBVIOUS
<1>3. \A n \in 0 .. N : g[n] \in Nat /\ f[n] \in Seq(Byte) /\ g[n] = Len(f[n])
  <2> DEFINE T == Seq(Byte)
  <2>1. \A t \in T : Len(t) \in Nat
    OBVIOUS
  <2>2. f \in [0 .. N -> T]
    OBVIOUS
  <2> HIDE DEF T, N
  <2> QED BY <2>1, <2>2 DEF T
<1>4. g[0] = 0
  BY <1>1, <1>2
<1> HIDE DEF g
<1>5. ASSUME NEW n \in 1 .. N
      PROVE  /\ g[n] = g[n - 1] + Len(frames[n])
             /\ \A i \in 1 .. g[n - 1] : f[n][i] = f[n - 1][i]
             /\ \A i \in 1 .. Len(frames[n]) : f[n][g[n - 1] + i] = frames[n][i]
  <2>1. n - 1 \in 0 .. N /\ n \in 0 .. N
    BY <1>2
  <2>2. f[n - 1] \in Seq(Byte) /\ frames[n] \in Seq(Byte) /\ f[n] = f[n - 1] \o frames[n]
    BY <1>1, <1>2, <2>1
  <2>3. g[n - 1] = Len(f[n - 1]) /\ g[n] = Len(f[n])
    BY <1>3, <2>1
  <2> DEFINE u == f[n - 1]
             v == frames[n]
             w == f[n]
  <2>4. u \in Seq(Byte) /\ v \in Seq(Byte) /\ w = u \o v
    BY <2>2
  <2> HIDE DEF u, v, w
  <2>5. /\ Len(w) = Len(u) + Len(v)
        /\ \A i \in 1 .. Len(u) : w[i] = u[i]
        /\ \A i \in 1 .. Len(v) : w[Len(u) + i] = v[i]
    BY <2>4, Joined
  <2> QED BY <2>3, <2>5, Zenon DEF u, v, w
<1> HIDE DEF N
<1>6. ASSUME NEW m \in 0 .. N, NEW n \in m .. N
      PROVE  g[m] <= g[n] /\ \A i \in 1 .. g[m] : f[n][i] = f[m][i]
  <2> DEFINE S == {d \in Nat : m + d <= N =>
                     g[m] <= g[m + d] /\ \A i \in 1 .. g[m] : f[m + d][i] = f[m][i]}
  <2>1. 0 \in S
    <3>1. m + 0 = m /\ g[m] \in Nat
      BY <1>3
    <3> QED BY <3>1
  <2>2. ASSUME NEW d \in Nat, d \in S PROVE d + 1 \in S
    <3> SUFFICES ASSUME m + (d + 1) <= N
                 PROVE  g[m] <= g[m + (d + 1)]
                        /\ \A i \in 1 .. g[m] : f[m + (d + 1)][i] = f[m][i]
      OBVIOUS
    <3> DEFINE y == m + (d + 1)
               x == m + d
    <3>1. y \in 1 .. N /\ y - 1 = x /\ x \in 0 .. N /\ x <= N
      BY <1>2
    <3>2. g[m] <= g[x] /\ \A i \in 1 .. g[m] : f[x][i] = f[m][i]
      BY <2>2, <3>1
    <3> HIDE DEF x, y
    <3>3. g[y] = g[x] + Len(frames[y]) /\ \A i \in 1 .. g[x] : f[y][i] = f[x][i]
      BY <1>5, <3>1
    <3>4. g[m] \in Nat /\ g[x] \in Nat /\ Len(frames[y]) \in Nat
      BY <1>2, <1>3, <3>1
    <3>5. g[m] <= g[y]
      BY <3>2, <3>3, <3>4
    <3>6. \A i \in 1 .. g[m] : f[y][i] = f[m][i]
      <4> TAKE i \in 1 .. g[m]
      <4>1. i \in 1 .. g[x]
        BY <3>2, <3>4
      <4> QED BY <3>2, <3>3, <4>1, Zenon
    <3> QED BY <3>5, <3>6 DEF y
  <2>3. Nat \subseteq S
    <3> HIDE DEF S
    <3> QED BY <2>1, <2>2, SetInduction
  <2>4. n - m \in S /\ m + (n - m) = n /\ n <= N
    <3>1. n - m \in Nat /\ m + (n - m) = n /\ n <= N
      BY <1>2
    <3> HIDE DEF S
    <3> QED BY <2>3, <3>1
  <2> QED BY <2>4
<1>7. /\ all \in Seq(Byte) /\ Len(all) = b + g[N]
      /\ \A i \in 1 .. g[N] : all[b + i] = f[N][i]
  <2>1. N \in 0 .. N
    BY <1>2
  <2>2. f[N] \in Seq(Byte) /\ g[N] = Len(f[N])
    BY <1>3, <2>1
  <2>3. all = before \o f[N]
    BY <1>1 DEF Stream, N
  <2> QED BY <2>2, <2>3, Joined
<1>8. ASSUME NEW k \in 1 .. N
      PROVE  Before(before, frames, k) = b + g[k - 1]
  <2>1. k - 1 \in 0 .. N
    BY <1>2
  <2>2. FlattenSeq(SubSeq(frames, 1, k - 1)) = f[k - 1]
    BY <1>1, <2>1 DEF N
  <2>3. g[k - 1] = Len(f[k - 1])
    BY <1>3, <2>1
  <2> QED BY <2>2, <2>3 DEF Before
<1> HIDE DEF b
<1>9. ASSUME NEW k \in 1 .. N
      PROVE  FramePlace(before, frames, all, k)
  <2> DEFINE l == Len(frames[k])
             u == g[k - 1]
             v == g[k]
             w == g[N]
             e == Before(before, frames, k)
  <2>1. k - 1 \in 0 .. N /\ k \in 0 .. N /\ N \in 0 .. N /\ N \in k .. N
    BY <1>2
  <2>2. u \in Nat /\ v \in Nat /\ w \in Nat /\ b \in Nat
    BY <1>2, <1>3, <2>1
  <2>3. l \in Nat /\ frames[k] \in Seq(Byte)
    BY <1>2
  <2>4. v = u + l /\ \A i \in 1 .. l : f[k][u + i] = frames[k][i]
    BY <1>5
  <2>5. v <= w /\ \A i \in 1 .. v : f[N][i] = f[k][i]
    BY <1>6, <2>1
  <2>6. e = b + u
    BY <1>8
  <2>7. Len(all) = b + w /\ \A i \in 1 .. w : all[b + i] = f[N][i]
    BY <1>7
  <2>8. k < N => Before(before, frames, k + 1) = b + v
    <3> SUFFICES ASSUME k < N PROVE Before(before, frames, k + 1) = b + v
      OBVIOUS
    <3>1. k + 1 \in 1 .. N /\ (k + 1) - 1 = k
      BY <1>2
    <3> QED BY <1>8, <3>1
  <2>9. k = 1 => u = 0
    BY <1>4
  <2>10. k = N => v = w
    OBVIOUS
  <2> HIDE DEF l, u, v, w, e
  <2>11. \A j \in 1 .. l : all[e + j] = frames[k][j]
    <3> TAKE j \in 1 .. l
    <3>1. u + j \in 1 .. v /\ u + j \in 1 .. w /\ e + j = b + (u + j)
      BY <2>2, <2>3, <2>4, <2>5, <2>6
    <3>2. all[b + (u + j)] = f[N][u + j] /\ f[N][u + j] = f[k][u + j]
      BY <2>5, <2>7, <3>1
    <3> QED BY <2>4, <3>1, <3>2
  <2>12. e \in Nat /\ e + l <= Len(all) /\ (k = 1 => e = b) /\ b + v = e + l
         /\ (k = N => Len(all) = e + l)
    BY <2>2, <2>3, <2>4, <2>5, <2>6, <2>7, <2>9, <2>10
  <2>13. k < N => Before(before, frames, k + 1) = e + l
    BY <2>8, <2>12
  <2> QED BY <2>3, <2>11, <2>12, <2>13 DEF l, e, b, N, FramePlace
<1>10. ASSUME NEW k \in 1 .. N, NEW j \in 1 .. N, k < j
       PROVE  Before(before, frames, k) + Len(frames[k]) <= Before(before, frames, j)
  <2>1. k - 1 \in 0 .. N /\ k \in 0 .. N /\ j - 1 \in k .. N /\ j - 1 \in 0 .. N
    BY <1>2b, <1>10
  <2>2. g[k] <= g[j - 1] /\ g[k] = g[k - 1] + Len(frames[k])
    BY <1>5, <1>6, <2>1
  <2>3. /\ Before(before, frames, k) = b + g[k - 1]
        /\ Before(before, frames, j) = b + g[j - 1]
    BY <1>8
  <2> DEFINE l == Len(frames[k])
             u == g[k - 1]
             v == g[k]
             w == g[j - 1]
  <2>4. b \in Nat /\ u \in Nat /\ v \in Nat /\ w \in Nat /\ l \in Nat
    BY <1>2, <1>3, <2>1
  <2>5. v <= w /\ v = u + l
    BY <2>2
  <2> HIDE DEF l, u, v, w
  <2>6. b + u + l <= b + w
    BY <2>4, <2>5
  <2> QED BY <2>3, <2>6 DEF u, w, l
<1>11. frames = <<>> => Len(all) = b
  <2>1. frames = <<>> => N = 0
    BY DEF N
  <2>2. b \in Nat
    BY <1>2b
  <2> QED BY <1>4, <1>7, <2>1, <2>2
<1> QED BY <1>7, <1>9, <1>10, <1>11 DEF N, b

--------------------------------------------------------------------------------
(* A line that has been read in part.                                       *)

(* Every byte of a line brings at most one byte.                            *)
LEMMA CountBound ==
  ASSUME NEW buf \in Seq(Byte), NEW X \in Seq(Byte), NEW c, Holds(buf, X, c),
         NEW i \in 0 .. Len(buf)
  PROVE  c[i] \in 0 .. Len(X) /\ c[i] <= i
<1> DEFINE S == {m \in Nat : m <= Len(buf) => c[m] <= m}
<1>1. \A n \in 0 .. Len(buf) : c[n] \in 0 .. Len(X) /\ c[n] \in Nat
  BY DEF Holds
<1>2. 0 \in S
  BY DEF Holds
<1>3. ASSUME NEW m \in Nat, m \in S PROVE m + 1 \in S
  <2> SUFFICES ASSUME m + 1 <= Len(buf) PROVE c[m + 1] <= m + 1
    OBVIOUS
  <2>1. /\ m + 1 \in 1 .. Len(buf) /\ (m + 1) - 1 = m
        /\ m \in 0 .. Len(buf) /\ m + 1 \in 0 .. Len(buf)
    OBVIOUS
  <2>2. c[m + 1] \in {c[m], c[m] + 1}
    BY <2>1 DEF Holds, Plain, First, Second
  <2>3. c[m] <= m
    BY <1>3, <2>1
  <2> QED BY <1>1, <2>1, <2>2, <2>3
<1>4. Nat \subseteq S
  <2> HIDE DEF S
  <2> QED BY <1>2, <1>3, SetInduction
<1>5. i \in Nat /\ i <= Len(buf)
  OBVIOUS
<1> QED BY <1>1, <1>4, <1>5

(* What follows the first m bytes of a line carries what follows the bytes  *)
(* they brought, unless an escape begins with the last of them.             *)
LEMMA CarriesRest ==
  ASSUME NEW T \in Seq(Byte), NEW Y \in Seq(Byte), NEW c, Carries(T, Y, c),
         NEW m \in 0 .. Len(T), m > 0 => T[m] # FE
  PROVE  \E e : Carries(SubSeq(T, m + 1, Len(T)), SubSeq(Y, c[m] + 1, Len(Y)), e)
<1> DEFINE d == c[m]
           L == Len(T)
           M == Len(Y)
           l2 == SubSeq(T, m + 1, L)
           d2 == SubSeq(Y, d + 1, M)
           e == [i \in 0 .. L - m |-> c[m + i] - d]
<1>1. Holds(T, Y, c) /\ L \in Nat /\ M \in Nat /\ m \in Nat /\ m <= L
  BY DEF Carries
<1>2. d \in 0 .. M /\ d \in Nat
  BY <1>1, CountBound
<1>3. \A i \in 0 .. L : c[i] \in Nat
  BY <1>1 DEF Holds
<1>4. ASSUME NEW i \in 0 .. L - m PROVE d <= c[m + i] /\ c[m + i] \in d .. M
  <2>1. m + i \in m .. Len(T) /\ m + i \in 0 .. Len(T)
    BY <1>1
  <2>2. d <= c[m + i]
    BY <1>1, <2>1, CountGrows
  <2>3. c[m + i] \in 0 .. M
    BY <1>1, <2>1, CountBound
  <2> QED BY <1>2, <2>2, <2>3
<1>5. l2 \in Seq(Byte) /\ Len(l2) = L - m /\ \A i \in 1 .. L - m : l2[i] = T[m + i]
  <2>1. m + 1 \in Nat \ {0} /\ L \in Int /\ L <= Len(T)
    BY <1>1
  <2>2. /\ l2 \in Seq(Byte) /\ Len(l2) = IF m + 1 <= L THEN L - (m + 1) + 1 ELSE 0
        /\ \A i \in 1 .. L - (m + 1) + 1 : l2[i] = T[(m + 1) + i - 1]
    BY <2>1, Cutout
  <2> HIDE DEF l2, L
  <2>3. L - (m + 1) + 1 = L - m
    BY <1>1
  <2>4. \A i \in 1 .. L - m : (m + 1) + i - 1 = m + i
    BY <1>1
  <2>5. Len(l2) = L - m
    BY <1>1, <2>2
  <2> QED BY <2>2, <2>3, <2>4, <2>5
<1>6. d2 \in Seq(Byte) /\ Len(d2) = M - d /\ \A i \in 1 .. M - d : d2[i] = Y[d + i]
  <2> HIDE DEF d
  <2>1. d + 1 \in Nat \ {0} /\ M \in Int /\ M <= Len(Y)
    BY <1>1, <1>2
  <2>2. /\ d2 \in Seq(Byte) /\ Len(d2) = IF d + 1 <= M THEN M - (d + 1) + 1 ELSE 0
        /\ \A i \in 1 .. M - (d + 1) + 1 : d2[i] = Y[(d + 1) + i - 1]
    BY <2>1, Cutout
  <2> HIDE DEF d2, M
  <2>3. M - (d + 1) + 1 = M - d
    BY <1>1, <1>2
  <2>4. \A i \in 1 .. M - d : (d + 1) + i - 1 = d + i
    BY <1>1, <1>2
  <2>5. Len(d2) = M - d
    BY <1>1, <1>2, <2>2
  <2> QED BY <2>2, <2>3, <2>4, <2>5
<1>7. \A i \in 0 .. L - m : e[i] = c[m + i] - d
  OBVIOUS
<1>8. e \in [0 .. L - m -> 0 .. M - d]
  <2>1. \A i \in 0 .. L - m : c[m + i] - d \in 0 .. M - d
    <3> TAKE i \in 0 .. L - m
    <3> DEFINE x == c[m + i]
    <3>1. x \in d .. M
      BY <1>4
    <3> HIDE DEF x, d, M
    <3> QED BY <1>1, <1>2, <3>1 DEF x
  <2> HIDE DEF d, L, M
  <2> QED BY <2>1
<1>9. e[0] = 0 /\ e[L - m] = M - d
  <2>1. 0 \in 0 .. L - m /\ L - m \in 0 .. L - m /\ m + 0 = m /\ m + (L - m) = L
    BY <1>1
  <2>2. c[L] = M
    BY <1>1 DEF Holds
  <2>3. e[0] = c[m] - d /\ e[L - m] = c[L] - d
    <3> HIDE DEF e
    <3> QED BY <1>7, <2>1
  <2> HIDE DEF e
  <2> QED BY <1>2, <2>2, <2>3
<1> HIDE DEF e, l2, d2, L, M
<1>10. ASSUME NEW i \in 1 .. L - m
       PROVE  /\ Plain(T, Y, c, m + i) => Plain(l2, d2, e, i)
              /\ First(T, Y, c, m + i) => First(l2, d2, e, i)
              /\ Second(T, c, m + i) => Second(l2, e, i)
  <2> DEFINE n == m + i
  <2>1. /\ n \in 1 .. L /\ n - 1 \in 0 .. L /\ n \in 0 .. L
        /\ i - 1 \in 0 .. L - m /\ i \in 0 .. L - m
        /\ m + (i - 1) = n - 1
    BY <1>1
  <2>2. e[i] = c[n] - d /\ e[i - 1] = c[n - 1] - d
    BY <1>7, <2>1
  <2>3. l2[i] = T[n]
    BY <1>5
  <2>4. d <= c[n] /\ c[n] \in d .. M
    BY <1>4, <2>1
  <2>4a. d <= c[n - 1] /\ c[n - 1] \in Nat /\ c[n] \in Nat
    <3>1. d <= c[m + (i - 1)]
      BY <1>4, <2>1
    <3> QED BY <1>3, <2>1, <3>1
  <2>5. ASSUME c[n] = c[n - 1] + 1 PROVE e[i] = e[i - 1] + 1 /\ d2[e[i]] = Y[c[n]]
    <3> DEFINE x == c[n]
               y == c[n - 1]
    <3>1. x = y + 1 /\ d <= y /\ y \in Nat /\ x \in d .. M /\ e[i] = x - d /\ e[i - 1] = y - d
      BY <2>2, <2>4, <2>4a, <2>5
    <3> HIDE DEF x, y, d
    <3>2. x - d \in 1 .. M - d /\ d + (x - d) = x /\ x - d = (y - d) + 1
      BY <1>1, <1>2, <3>1
    <3>3. d2[x - d] = Y[d + (x - d)]
      BY <1>6, <3>2
    <3> QED BY <3>1, <3>2, <3>3 DEF x
  <2>6. i < L - m => l2[i + 1] = T[n + 1] /\ e[i + 1] = c[n + 1] - d
    <3> SUFFICES ASSUME i < L - m PROVE l2[i + 1] = T[n + 1] /\ e[i + 1] = c[n + 1] - d
      OBVIOUS
    <3>1. i + 1 \in 1 .. L - m /\ i + 1 \in 0 .. L - m /\ m + (i + 1) = n + 1
      BY <1>1
    <3> QED BY <1>5, <1>7, <3>1
  <2>7. i < Len(l2) <=> n < Len(T)
    BY <1>1, <1>5 DEF L
  <2>7a. i = Len(l2) <=> n = Len(T)
    BY <1>1, <1>5 DEF L
  <2>8. ASSUME Plain(T, Y, c, n) PROVE Plain(l2, d2, e, i)
    <3>1. c[n] = c[n - 1] + 1 /\ T[n] = Y[c[n]]
          /\ (T[n] = FE => n = Len(T) \/ T[n + 1] \notin {1, 2})
      BY <2>8 DEF Plain
    <3>2. e[i] = e[i - 1] + 1 /\ d2[e[i]] = Y[c[n]]
      BY <2>5, <3>1
    <3>3. l2[i] = FE => i = Len(l2) \/ l2[i + 1] \notin {1, 2}
      <4> SUFFICES ASSUME l2[i] = FE, i # Len(l2) PROVE l2[i + 1] \notin {1, 2}
        OBVIOUS
      <4>1. T[n] = FE /\ n # Len(T)
        BY <2>3, <2>7a
      <4>2. i < L - m
        BY <1>1, <1>5
      <4> QED BY <2>6, <3>1, <4>1, <4>2
    <3> QED BY <2>3, <3>1, <3>2, <3>3 DEF Plain
  <2>9. ASSUME First(T, Y, c, n) PROVE First(l2, d2, e, i)
    <3>1. /\ c[n] = c[n - 1] + 1 /\ n < Len(T) /\ c[n + 1] = c[n]
          /\ T[n] = FE /\ T[n + 1] \in {1, 2}
          /\ Y[c[n]] = IF T[n + 1] = 1 THEN FA ELSE FE
      BY <2>9 DEF First
    <3>2. e[i] = e[i - 1] + 1 /\ d2[e[i]] = Y[c[n]]
      BY <2>5, <3>1
    <3>3. i < Len(l2) /\ i < L - m
      BY <1>5, <2>7, <3>1
    <3>4. l2[i + 1] = T[n + 1] /\ e[i + 1] = e[i]
      BY <2>2, <2>6, <3>1, <3>3
    <3> QED BY <2>3, <3>1, <3>2, <3>3, <3>4 DEF First
  <2>10. ASSUME Second(T, c, n) PROVE Second(l2, e, i)
    <3>1. /\ c[n] = c[n - 1] /\ n > 1 /\ c[n - 1] = c[n - 2] + 1
          /\ T[n - 1] = FE /\ T[n] \in {1, 2}
      BY <2>10 DEF Second
    <3>2. i > 1
      <4> SUFFICES ASSUME i = 1 PROVE FALSE
        OBVIOUS
      <4>1. n - 1 = m /\ m > 0
        BY <1>1, <3>1
      <4> QED BY <3>1, <4>1
    <3>3. /\ i - 1 \in 1 .. L - m /\ m + (i - 1) = n - 1
          /\ i - 2 \in 0 .. L - m /\ m + (i - 2) = n - 2 /\ n - 2 \in 0 .. L
      BY <1>1, <3>2
    <3>4. l2[i - 1] = T[n - 1] /\ e[i - 2] = c[n - 2] - d
      BY <1>5, <1>7, <3>3
    <3>5. e[i] = e[i - 1]
      BY <2>2, <3>1
    <3>6. e[i - 1] = e[i - 2] + 1
      <4> DEFINE x == c[n - 1]
                 y == c[n - 2]
      <4>1. x = y + 1 /\ y \in Nat /\ e[i - 1] = x - d /\ e[i - 2] = y - d
        BY <1>3, <2>2, <3>1, <3>3, <3>4
      <4> HIDE DEF x, y, d
      <4>2. x - d = (y - d) + 1
        BY <1>2, <4>1
      <4> QED BY <4>1, <4>2
    <3> QED BY <2>3, <3>1, <3>2, <3>4, <3>5, <3>6 DEF Second
  <2> QED BY <2>8, <2>9, <2>10
<1>11. Holds(l2, d2, e)
  <2>1. \A i \in 1 .. L - m : Plain(l2, d2, e, i) \/ First(l2, d2, e, i) \/ Second(l2, e, i)
    <3> TAKE i \in 1 .. L - m
    <3>1. m + i \in 1 .. Len(T)
      BY <1>1 DEF L
    <3>2. Plain(T, Y, c, m + i) \/ First(T, Y, c, m + i) \/ Second(T, c, m + i)
      BY <1>1, <3>1 DEF Holds
    <3> QED BY <1>10, <3>2
  <2> QED BY <1>5, <1>6, <1>8, <1>9, <2>1 DEF Holds
<1>12. \A i \in 1 .. Len(l2) : l2[i] = FE => First(l2, d2, e, i)
  <2> SUFFICES ASSUME NEW i \in 1 .. L - m, l2[i] = FE PROVE First(l2, d2, e, i)
    BY <1>5
  <2>1. m + i \in 1 .. Len(T) /\ T[m + i] = FE
    BY <1>1, <1>5 DEF L
  <2>2. First(T, Y, c, m + i)
    BY <2>1 DEF Carries
  <2> QED BY <1>10, <2>2
<1> QED BY <1>11, <1>12 DEF Carries, l2, d2, L, M

(* Byte m of a line that carries Y is the first half of an escape.          *)
HalfAt(T, Y, c, m) ==
  /\ m < Len(T) /\ T[m + 1] \in {1, 2}
  /\ c[m] \in 1 .. Len(Y) /\ c[m] = c[m - 1] + 1 /\ c[m + 1] = c[m]
  /\ Y[c[m]] \in {FA, FE}
  /\ m > 1 => T[m - 1] # FE

(* Its byte is told by that half alone.                                     *)
LEMMA HalfCarried ==
  ASSUME NEW T \in Seq(Byte), NEW Y \in Seq(Byte), NEW c, Carries(T, Y, c),
         NEW m \in 1 .. Len(T), T[m] = FE
  PROVE  HalfAt(T, Y, c, m)
<1>1. First(T, Y, c, m)
  BY DEF Carries
<1>2. Holds(T, Y, c)
  BY DEF Carries
<1>3. m \in 0 .. Len(T) /\ m - 1 \in 0 .. Len(T)
  OBVIOUS
<1>4. c[m] \in 0 .. Len(Y) /\ c[m - 1] \in 0 .. Len(Y)
  BY <1>2, <1>3, CountBound
<1>5. c[m] = c[m - 1] + 1
  BY <1>1 DEF First
<1>6. c[m] \in 1 .. Len(Y)
  <2> DEFINE x == c[m]
             y == c[m - 1]
  <2>1. x \in 0 .. Len(Y) /\ y \in 0 .. Len(Y) /\ x = y + 1
    BY <1>4, <1>5
  <2> HIDE DEF x, y
  <2>2. x \in 1 .. Len(Y)
    BY <2>1
  <2> QED BY <2>2 DEF x
<1>7. ASSUME m > 1, T[m - 1] = FE PROVE FALSE
  <2>1. m - 1 \in 1 .. Len(T)
    BY <1>7
  <2>2. First(T, Y, c, m - 1)
    BY <1>7, <2>1 DEF Carries
  <2>3. T[(m - 1) + 1] \in {1, 2} /\ (m - 1) + 1 = m
    BY <2>2 DEF First
  <2> QED BY <2>3 DEF FE
<1> QED BY <1>1, <1>5, <1>6, <1>7 DEF First, HalfAt

(* A line that loses the first half of an escape begins with the second,    *)
(* which stands for itself.                                                 *)
LEMMA CarriesSplit ==
  ASSUME NEW T \in Seq(Byte), NEW Y \in Seq(Byte), NEW c, Carries(T, Y, c),
         NEW m \in 1 .. Len(T), T[m] = FE
  PROVE  \E e : Carries(SubSeq(T, m + 1, Len(T)),
                        <<T[m + 1]>> \o SubSeq(Y, c[m] + 1, Len(Y)), e)
<1> DEFINE t == <<T[m + 1]>>
           l2 == SubSeq(T, m + 2, Len(T))
           d2 == SubSeq(Y, c[m] + 1, Len(Y))
<1>1. /\ m < Len(T) /\ T[m + 1] \in {1, 2} /\ c[m] \in 1 .. Len(Y) /\ c[m + 1] = c[m]
  BY HalfCarried DEF HalfAt
<1>2. m + 1 \in 0 .. Len(T) /\ (m + 1 > 0 => T[m + 1] # FE) /\ (m + 1) + 1 = m + 2
  BY <1>1 DEF FE
<1>3. PICK e : Carries(l2, d2, e)
  BY <1>1, <1>2, CarriesRest
<1>4. m + 1 \in 1 .. Len(T) /\ Len(T) \in m + 1 .. Len(T) /\ m + 2 \in Nat \ {0} /\ Len(T) \in Int
  BY <1>1
<1>5. SubSeq(T, m + 1, Len(T)) = t \o l2
  BY <1>2, <1>4, SubSeqRecursiveFirst
<1>6. l2 \in Seq(Byte)
  <2>1. Len(T) <= Len(T)
    OBVIOUS
  <2> QED BY <1>4, <2>1, Cutout
<1>7. d2 \in Seq(Byte)
  <2>1. c[m] + 1 \in Nat \ {0} /\ Len(Y) \in Int /\ Len(Y) <= Len(Y)
    BY <1>1
  <2> QED BY <2>1, Cutout
<1>8. t \in Seq(Byte) /\ \A i \in 1 .. Len(t) : t[i] # FE
  <2>1. T[m + 1] \in Byte /\ T[m + 1] # FE
    BY <1>2, <1>4
  <2> QED BY <2>1
<1>9. PICK g : Carries(t, t, g)
  BY <1>8, PlainCarried
<1> HIDE DEF t, l2, d2
<1>10. \E h : Carries(t \o l2, t \o d2, h)
  BY <1>3, <1>6, <1>7, <1>8, <1>9, CarriesJoin
<1> QED BY <1>5, <1>10 DEF t, d2

(* A buffer of N bytes begins with s bytes, then come the first m of a line *)
(* that carries Y, then zeros.                                              *)
Filled(buf, N, s, T, m) ==
  /\ buf \in Seq(Byte) /\ Len(buf) = N
  /\ s + m < N
  /\ \A j \in 1 .. m : buf[s + j] = T[j]
  /\ \A j \in s + m + 1 .. N : buf[j] = 0

(* X is those s bytes and Y.                                                *)
Decoded(X, buf, s, Y) ==
  /\ X \in Seq(Byte) /\ Len(X) = s + Len(Y)
  /\ \A j \in 1 .. s : X[j] = buf[j]
  /\ \A j \in 1 .. Len(Y) : X[s + j] = Y[j]

(* No FE in it looks like an escape, nowhere are twenty zeros.              *)
Clean(X) ==
  /\ \A i \in 1 .. Len(X) - 1 : X[i] = FE => X[i + 1] \notin {1, 2}
  /\ \A i \in 1 .. Len(X) : Reached(X, i)

(* Byte j of what ES_opt_recv leaves.                                       *)
Arrived(s, T, Y, c, m, buf, j) ==
  IF j <= s THEN buf[j]
  ELSE IF j > s + c[m] THEN 0
  ELSE IF j = s + c[m] /\ T[m] = FE THEN FE
  ELSE Y[j - s]

(* What a read leaves after ES_opt_recv.                                    *)
Undone(got, buf, s, T, Y, c, m, N) ==
  /\ c[m] \in 0 .. Len(Y) /\ c[m] <= m
  /\ got.removed = m - c[m]
  /\ \A j \in 1 .. N : got.buf[j] = Arrived(s, T, Y, c, m, buf, j)

(* ES_opt_recv undoes the escapes of what has been read, up to a first half *)
(* that comes last.                                                         *)
LEMMA ReadUnescape ==
  ASSUME NEW N \in Nat, NEW buf, NEW s \in Nat, NEW T \in Seq(Byte), NEW Y \in Seq(Byte),
         NEW c, Carries(T, Y, c), NEW m \in 0 .. Len(T), Filled(buf, N, s, T, m),
         NEW X, Decoded(X, buf, s, Y), Clean(X)
  PROVE  Undone(ES_opt_recv(buf), buf, s, T, Y, c, m, N)
<1> DEFINE d == c[m]
           K == N - (m - d)
           Z == [j \in 1 .. K |-> Arrived(s, T, Y, c, m, buf, j)]
           e == [n \in 0 .. N |-> IF n <= s THEN n
                                  ELSE IF n <= s + m THEN s + c[n - s]
                                  ELSE n - (m - d)]
           y == Len(Y)
<1>1. Holds(T, Y, c) /\ m \in Nat /\ m <= Len(T) /\ Len(T) \in Nat /\ y \in Nat
  BY DEF Carries
<1>2. /\ buf \in Seq(Byte) /\ Len(buf) = N /\ s + m < N
      /\ \A j \in 1 .. m : buf[s + j] = T[j]
      /\ \A j \in s + m + 1 .. N : buf[j] = 0
  BY DEF Filled
<1>3. /\ X \in Seq(Byte) /\ Len(X) = s + y
      /\ \A j \in 1 .. s : X[j] = buf[j]
      /\ \A j \in 1 .. y : X[s + j] = Y[j]
  BY DEF Decoded
<1>4. d \in 0 .. y /\ d <= m /\ d \in Nat
  <2>1. d \in 0 .. Len(Y) /\ d <= m
    BY <1>1, CountBound
  <2> QED BY <2>1
<1> HIDE DEF y
<1>5. ASSUME NEW k \in 0 .. m PROVE c[k] \in 0 .. d /\ c[k] \in Nat
  <2>1. k \in 0 .. Len(T) /\ m \in k .. Len(T)
    BY <1>1
  <2>2. c[k] <= d /\ c[k] \in 0 .. Len(Y)
    BY <1>1, <2>1, CountGrows, CountBound
  <2> QED BY <1>4, <2>2
<1>6. ASSUME T[m] = FE, m > 0, NEW k \in 0 .. m - 1 PROVE c[k] < d
  <2>1. m \in 1 .. Len(T)
    BY <1>1, <1>6
  <2>2. d = c[m - 1] + 1
    BY <1>6, <2>1, HalfCarried DEF HalfAt
  <2>3. k \in 0 .. Len(T) /\ m - 1 \in k .. Len(T)
    BY <1>1, <1>6
  <2>4. c[k] <= c[m - 1]
    BY <1>1, <2>3, CountGrows
  <2>5. c[k] \in Nat /\ c[m - 1] \in Nat
    <3>1. k \in 0 .. m /\ m - 1 \in 0 .. m
      BY <1>1, <1>6
    <3> QED BY <1>5, <3>1
  <2> HIDE DEF d
  <2> QED BY <2>2, <2>4, <2>5
<1> HIDE DEF d
<1>7. K \in Nat /\ s + d < K /\ K <= N /\ N - K = m - d
  BY <1>1, <1>2, <1>4
<1>8. /\ \A n \in 0 .. s : e[n] = n
      /\ \A k \in 0 .. m : e[s + k] = s + c[k]
      /\ \A n \in s + m .. N : e[n] = n - (m - d)
  <2>1. \A n \in 0 .. s : e[n] = n
    <3> TAKE n \in 0 .. s
    <3>1. n \in 0 .. N /\ n <= s
      BY <1>1, <1>2
    <3> QED BY <3>1
  <2>2. \A k \in 0 .. m : e[s + k] = s + c[k]
    <3> TAKE k \in 0 .. m
    <3>1. s + k \in 0 .. N /\ s + k <= s + m /\ (s + k) - s = k
      BY <1>1, <1>2
    <3>2. CASE k = 0
      <4>1. c[0] = 0 /\ s + k = s /\ s + k <= s
        BY <1>1, <3>2 DEF Holds
      <4> QED BY <2>1, <3>2, <4>1
    <3>3. CASE k > 0
      <4>1. ~ (s + k <= s)
        BY <3>3
      <4> QED BY <3>1, <4>1
    <3> QED BY <3>2, <3>3
  <2>3. \A n \in s + m .. N : e[n] = n - (m - d)
    <3> TAKE n \in s + m .. N
    <3>1. CASE n = s + m
      <4>1. m \in 0 .. m /\ e[s + m] = s + c[m]
        BY <1>1, <2>2
      <4>2. s + d = (s + m) - (m - d)
        BY <1>1, <1>4
      <4> QED BY <3>1, <4>1, <4>2 DEF d
    <3>2. CASE n > s + m
      <4>1. n \in 0 .. N /\ ~ (n <= s) /\ ~ (n <= s + m)
        BY <1>1, <3>2
      <4> QED BY <4>1
    <3> QED BY <1>1, <3>1, <3>2
  <2> QED BY <2>1, <2>2, <2>3
<1>9. e \in [0 .. N -> 0 .. K]
  <2>1. ASSUME NEW n \in 0 .. N PROVE e[n] \in 0 .. K
    <3> HIDE DEF e
    <3>1. CASE n <= s
      <4>1. n \in 0 .. s /\ n <= K
        BY <1>1, <1>4, <1>7, <3>1
      <4> QED BY <1>8, <4>1, <1>7
    <3>2. CASE n > s /\ n <= s + m
      <4> DEFINE k == n - s
      <4>1. k \in 0 .. m /\ s + k = n
        BY <1>1, <3>2
      <4> HIDE DEF k
      <4>2. e[n] = s + c[k] /\ c[k] \in 0 .. d
        BY <1>5, <1>8, <4>1
      <4> HIDE DEF K
      <4> QED BY <1>4, <1>7, <4>2
    <3>3. CASE n > s + m
      <4>1. n \in s + m .. N
        BY <1>1, <3>3
      <4>2. e[n] = n - (m - d)
        BY <1>8, <4>1
      <4>3. n - (m - d) \in 0 .. K
        BY <1>1, <1>2, <1>4, <4>1
      <4> QED BY <4>2, <4>3
    <3> QED BY <1>1, <3>1, <3>2, <3>3
  <2>2. DOMAIN e = 0 .. N
    OBVIOUS
  <2> HIDE DEF K
  <2>3. e = [n \in 0 .. N |-> e[n]]
    OBVIOUS
  <2> HIDE DEF e
  <2> QED BY <2>1, <2>3
<1>10. /\ \A j \in 1 .. s : Z[j] = buf[j]
       /\ \A j \in 1 .. d : Z[s + j] = IF j = d /\ T[m] = FE THEN FE ELSE Y[j]
       /\ \A j \in s + d + 1 .. K : Z[j] = 0
  <2>1. \A j \in 1 .. K : Z[j] = Arrived(s, T, Y, c, m, buf, j)
    OBVIOUS
  <2> HIDE DEF Z, K
  <2>2. \A j \in 1 .. s : Z[j] = buf[j]
    <3> TAKE j \in 1 .. s
    <3>1. j \in 1 .. K /\ j <= s
      BY <1>4, <1>7
    <3> QED BY <2>1, <3>1 DEF Arrived
  <2>3. \A j \in 1 .. d : Z[s + j] = IF j = d /\ T[m] = FE THEN FE ELSE Y[j]
    <3> TAKE j \in 1 .. d
    <3>1. /\ s + j \in 1 .. K /\ ~ (s + j <= s) /\ ~ (s + j > s + d)
          /\ (s + j = s + d <=> j = d) /\ (s + j) - s = j
      BY <1>4, <1>7
    <3>2. Z[s + j] = IF s + j = s + d /\ T[m] = FE THEN FE ELSE Y[(s + j) - s]
      BY <2>1, <3>1 DEF Arrived, d
    <3> QED BY <3>1, <3>2
  <2>4. \A j \in s + d + 1 .. K : Z[j] = 0
    <3> TAKE j \in s + d + 1 .. K
    <3>1. j \in 1 .. K /\ ~ (j <= s) /\ j > s + d
      BY <1>4, <1>7
    <3> QED BY <2>1, <3>1 DEF Arrived, d
  <2> QED BY <2>2, <2>3, <2>4
<1>11. Z \in Seq(Byte) /\ Len(Z) = K
  <2>1. ASSUME NEW j \in 1 .. K PROVE Z[j] \in Byte
    <3> HIDE DEF Z, K
    <3>1. CASE j <= s
      <4>1. j \in 1 .. s /\ j \in 1 .. N
        BY <1>7, <3>1
      <4>2. buf[j] \in Byte
        BY <1>2, <4>1
      <4> QED BY <1>10, <4>1, <4>2
    <3>2. CASE j > s /\ j <= s + d
      <4> DEFINE i == j - s
      <4>1. i \in 1 .. d /\ i \in 1 .. y /\ s + i = j
        BY <1>1, <1>4, <1>7, <3>2
      <4> HIDE DEF i
      <4>2. Y[i] \in Byte
        BY <4>1 DEF y
      <4>3. Z[j] = FE \/ Z[j] = Y[i]
        BY <1>10, <4>1
      <4> QED BY <4>2, <4>3, Marks
    <3>3. CASE j > s + d
      <4>1. j \in s + d + 1 .. K
        BY <1>4, <1>7, <3>3
      <4> QED BY <1>10, <4>1, Marks
    <3> QED BY <1>4, <1>7, <3>1, <3>2, <3>3
  <2>2. Z = [j \in 1 .. K |-> Z[j]]
    OBVIOUS
  <2> HIDE DEF Z, K
  <2>3. K \in Nat
    BY <1>7
  <2> HIDE DEF Byte
  <2>4. Z \in [1 .. K -> Byte]
    BY <2>1, <2>2
  <2> QED BY <2>3, <2>4
<1> HIDE DEF e, Z, K
<1>12. ASSUME NEW n \in 1 .. s PROVE Plain(buf, Z, e, n)
  <2>1. n - 1 \in 0 .. s /\ n \in 0 .. s
    OBVIOUS
  <2>2. e[n] = n /\ e[n - 1] = n - 1
    BY <1>8, <2>1
  <2>3. Z[n] = buf[n]
    BY <1>10
  <2>4. ASSUME buf[n] = FE PROVE buf[n + 1] \notin {1, 2}
    <3>1. X[n] = FE
      BY <1>3, <2>4
    <3>2. CASE n < s
      <4>1. n + 1 \in 1 .. s /\ n \in 1 .. Len(X) - 1
        BY <1>1, <1>3, <3>2
      <4> QED BY <1>3, <3>1, <4>1 DEF Clean
    <3>3. CASE n = s /\ m = 0
      <4>1. n + 1 \in s + m + 1 .. N
        BY <1>2, <3>3
      <4> QED BY <1>2, <4>1
    <3>4. CASE n = s /\ m > 0
      <4>1. 1 \in 1 .. m /\ 1 \in 1 .. Len(T) /\ 1 - 1 = 0 /\ 1 \in 0 .. m
        BY <1>1, <3>4
      <4>2. buf[n + 1] = T[1]
        BY <1>2, <3>4, <4>1
      <4>3. ASSUME T[1] \in {1, 2} PROVE FALSE
        <5>1. Plain(T, Y, c, 1)
          <6>1. ~ First(T, Y, c, 1) /\ ~ Second(T, c, 1)
            BY <4>3 DEF First, Second, FE
          <6> QED BY <1>1, <4>1, <6>1 DEF Holds
        <5>2. c[1] = c[0] + 1 /\ T[1] = Y[c[1]] /\ c[0] = 0
          BY <1>1, <4>1, <5>1 DEF Plain, Holds
        <5>3. Y[1] = T[1] /\ c[1] = 1
          BY <5>2
        <5>4. 1 \in 1 .. y
          <6>1. c[1] \in 0 .. d
            BY <1>5, <4>1
          <6> QED BY <1>1, <1>4, <5>3, <6>1
        <5>5. X[s + 1] = Y[1] /\ n \in 1 .. Len(X) - 1
          BY <1>1, <1>3, <3>4, <5>4
        <5> QED BY <3>1, <3>4, <4>3, <5>3, <5>5 DEF Clean
      <4> QED BY <4>2, <4>3
    <3> QED BY <1>1, <3>2, <3>3, <3>4
  <2> QED BY <2>2, <2>3, <2>4 DEF Plain
<1>13. ASSUME NEW n \in s + m + 1 .. N PROVE Plain(buf, Z, e, n)
  <2>1. n - 1 \in s + m .. N /\ n \in s + m .. N
    BY <1>1
  <2>2. e[n] = n - (m - d) /\ e[n - 1] = (n - 1) - (m - d)
    BY <1>8, <2>1
  <2>3. n - (m - d) \in s + d + 1 .. K /\ n - (m - d) = ((n - 1) - (m - d)) + 1
    BY <1>1, <1>4, <2>1 DEF K
  <2>4. Z[n - (m - d)] = 0
    BY <1>10, <2>3
  <2>5. buf[n] = 0
    BY <1>2
  <2> QED BY <2>2, <2>3, <2>4, <2>5 DEF Plain, FE
<1>14. ASSUME NEW k \in 1 .. m
       PROVE  Plain(buf, Z, e, s + k) \/ First(buf, Z, e, s + k) \/ Second(buf, e, s + k)
  <2> DEFINE n == s + k
  <2>1. /\ k - 1 \in 0 .. m /\ k \in 0 .. m /\ s + (k - 1) = n - 1 /\ k \in 1 .. Len(T)
        /\ n < N /\ n \in 1 .. N
    BY <1>1, <1>2
  <2>2. e[n] = s + c[k] /\ e[n - 1] = s + c[k - 1] /\ c[k] \in 0 .. d /\ c[k - 1] \in 0 .. d
    <3>1. e[s + k] = s + c[k] /\ e[s + (k - 1)] = s + c[k - 1]
      BY <1>8, <2>1
    <3> QED BY <1>5, <2>1, <3>1
  <2>3. buf[n] = T[k]
    BY <1>2
  <2>4. k < m => /\ buf[n + 1] = T[k + 1] /\ e[n + 1] = s + c[k + 1] /\ c[k + 1] \in 0 .. d
    <3> SUFFICES ASSUME k < m
                 PROVE  buf[n + 1] = T[k + 1] /\ e[n + 1] = s + c[k + 1] /\ c[k + 1] \in 0 .. d
      OBVIOUS
    <3>1. k + 1 \in 1 .. m /\ k + 1 \in 0 .. m /\ s + (k + 1) = n + 1
      BY <1>1
    <3>2. buf[s + (k + 1)] = T[k + 1] /\ e[s + (k + 1)] = s + c[k + 1]
      BY <1>2, <1>8, <3>1
    <3> QED BY <1>5, <3>1, <3>2
  <2>5. ASSUME c[k] = c[k - 1] + 1
        PROVE  e[n] = e[n - 1] + 1 /\ c[k] \in 1 .. d
    <3> DEFINE u == c[k]
               v == c[k - 1]
    <3>1. u = v + 1 /\ u \in 0 .. d /\ v \in 0 .. d /\ e[n] = s + u /\ e[n - 1] = s + v
      BY <2>2, <2>5
    <3> HIDE DEF u, v
    <3>2. u \in 1 .. d /\ s + u = (s + v) + 1
      BY <1>4, <3>1
    <3> QED BY <3>1, <3>2 DEF u
  <2>6. CASE T[k] = FE
    <3>1. /\ c[k] = c[k - 1] + 1 /\ k < Len(T) /\ c[k + 1] = c[k] /\ T[k + 1] \in {1, 2}
          /\ Y[c[k]] = IF T[k + 1] = 1 THEN FA ELSE FE
      BY <2>1, <2>6 DEF Carries, First
    <3>2. e[n] = e[n - 1] + 1 /\ c[k] \in 1 .. d
      BY <2>5, <3>1
    <3>3. CASE k = m
      <4>1. Z[s + c[k]] = FE
        BY <1>10, <2>6, <3>2, <3>3 DEF d
      <4>2. buf[n + 1] = 0
        <5>1. n + 1 \in s + m + 1 .. N
          BY <1>1, <2>1, <3>3
        <5> QED BY <1>2, <5>1
      <4> QED BY <2>2, <2>3, <2>6, <3>2, <4>1, <4>2 DEF Plain
    <3>4. CASE k < m
      <4>1. Z[s + c[k]] = Y[c[k]]
        <5>1. T[m] = FE => c[k] # d
          <6> SUFFICES ASSUME T[m] = FE PROVE c[k] # d
            OBVIOUS
          <6>1. m > 0 /\ k \in 0 .. m - 1
            BY <1>1, <3>4
          <6>2. c[k] < d
            BY <1>6, <6>1
          <6> QED BY <1>4, <3>2, <6>2
        <5> QED BY <1>10, <3>2, <5>1
      <4>2. buf[n + 1] = T[k + 1] /\ e[n + 1] = e[n]
        BY <2>2, <2>4, <3>1, <3>4
      <4>3. n < Len(buf)
        BY <1>2, <2>1
      <4>4. First(buf, Z, e, n)
        BY <2>2, <2>3, <2>6, <3>1, <3>2, <4>1, <4>2, <4>3 DEF First
      <4> QED BY <4>4
    <3> QED BY <1>1, <3>3, <3>4
  <2>7. CASE T[k] # FE
    <3>1. ~ First(T, Y, c, k)
      BY <2>7 DEF First
    <3>2. CASE Plain(T, Y, c, k)
      <4>1. c[k] = c[k - 1] + 1 /\ T[k] = Y[c[k]]
        BY <3>2 DEF Plain
      <4>2. e[n] = e[n - 1] + 1 /\ c[k] \in 1 .. d
        BY <2>5, <4>1
      <4>3. Z[s + c[k]] = Y[c[k]]
        <5>1. T[m] = FE => c[k] # d
          <6> SUFFICES ASSUME T[m] = FE PROVE c[k] # d
            OBVIOUS
          <6>0. k # m
            BY <2>7
          <6>1. m > 0 /\ k \in 0 .. m - 1
            BY <1>1, <6>0
          <6>2. c[k] < d
            BY <1>6, <6>1
          <6> QED BY <1>4, <4>2, <6>2
        <5> QED BY <1>10, <4>2, <5>1
      <4> QED BY <2>2, <2>3, <2>7, <4>1, <4>2, <4>3 DEF Plain
    <3>3. CASE Second(T, c, k)
      <4>1. c[k] = c[k - 1] /\ k > 1 /\ c[k - 1] = c[k - 2] + 1 /\ T[k - 1] = FE /\ T[k] \in {1, 2}
        BY <3>3 DEF Second
      <4>2. k - 2 \in 0 .. m /\ s + (k - 2) = n - 2 /\ k - 1 \in 1 .. m /\ s + (k - 1) = n - 1 /\ n > 1
        BY <1>1, <4>1
      <4>3. e[n - 2] = s + c[k - 2] /\ c[k - 2] \in Nat
        <5>1. e[s + (k - 2)] = s + c[k - 2]
          BY <1>8, <4>2
        <5> QED BY <1>5, <4>2, <5>1
      <4>4. buf[n - 1] = FE
        <5>1. buf[s + (k - 1)] = T[k - 1]
          BY <1>2, <4>2
        <5> QED BY <4>1, <4>2, <5>1
      <4>5. e[n - 1] = e[n - 2] + 1 /\ e[n] = e[n - 1]
        <5> DEFINE u == c[k - 1]
                   v == c[k - 2]
        <5>1. u = v + 1 /\ v \in Nat /\ e[n - 1] = s + u /\ e[n - 2] = s + v /\ e[n] = s + u
          BY <2>2, <4>1, <4>3
        <5> HIDE DEF u, v
        <5> QED BY <5>1
      <4>6. Second(buf, e, n)
        BY <2>3, <4>1, <4>2, <4>4, <4>5 DEF Second
      <4> QED BY <4>6
    <3> QED BY <1>1, <2>1, <3>1, <3>2, <3>3 DEF Holds
  <2> QED BY <2>6, <2>7
<1>15. Holds(buf, Z, e)
  <2>1. \A n \in 1 .. N : Plain(buf, Z, e, n) \/ First(buf, Z, e, n) \/ Second(buf, e, n)
    <3> TAKE n \in 1 .. N
    <3>1. CASE n <= s
      BY <1>12, <3>1
    <3>2. CASE n > s /\ n <= s + m
      <4>1. n - s \in 1 .. m /\ s + (n - s) = n
        BY <1>1, <3>2
      <4> QED BY <1>14, <4>1
    <3>3. CASE n > s + m
      <4>1. n \in s + m + 1 .. N
        BY <1>1, <3>3
      <4> QED BY <1>13, <4>1
    <3> QED BY <1>1, <3>1, <3>2, <3>3
  <2>2. e[0] = 0
    <3>1. 0 \in 0 .. s
      OBVIOUS
    <3> QED BY <1>8, <3>1
  <2>3. e[N] = K
    <3>1. N \in s + m .. N
      BY <1>1, <1>2
    <3> QED BY <1>8, <3>1 DEF K
  <2> QED BY <1>2, <1>9, <1>11, <2>1, <2>2, <2>3 DEF Holds
<1>16. AllReached(buf, Z, e)
  <2> SUFFICES ASSUME NEW n \in 1 .. Len(buf), First(buf, Z, e, n) PROVE Reached(buf, n)
    BY DEF AllReached
  <2> DEFINE p == e[n]
  <2>1. p \in 0 .. K /\ Z[p] # 0 /\ p # 0
    <3>1. n \in 0 .. N /\ n - 1 \in 0 .. N
      BY <1>2
    <3>2. p \in 0 .. K /\ e[n - 1] \in 0 .. K /\ p = e[n - 1] + 1
      BY <1>9, <3>1 DEF First
    <3>3. Z[p] \in {FA, FE}
      BY DEF First
    <3> QED BY <1>7, <3>2, <3>3, Marks, SMTT(30)
  <2> HIDE DEF p
  <2>2. p \in 1 .. s + d
    <3>1. ASSUME p > s + d PROVE FALSE
      <4>1. p \in s + d + 1 .. K
        BY <1>4, <1>7, <2>1, <3>1
      <4> QED BY <1>10, <2>1, <4>1
    <3> QED BY <1>4, <1>7, <2>1, <3>1
  <2>3. p \in 1 .. Len(X)
    BY <1>1, <1>3, <1>4, <2>2
  <2>4. ASSUME NEW k \in 1 .. s + d, X[k] # 0 PROVE Z[k] # 0
    <3>1. CASE k <= s
      BY <1>3, <1>10, <2>4, <3>1
    <3>2. CASE k > s
      <4> DEFINE i == k - s
      <4>1. i \in 1 .. d /\ i \in 1 .. y /\ s + i = k
        BY <1>1, <1>4, <3>2
      <4> HIDE DEF i
      <4>2. X[k] = Y[i]
        BY <1>3, <4>1
      <4>3. Z[k] = FE \/ Z[k] = Y[i]
        BY <1>10, <4>1
      <4> QED BY <2>4, <4>2, <4>3, Marks
    <3> QED BY <3>1, <3>2
  <2>5. Reached(Z, p)
    <3> SUFFICES ASSUME NEW j \in 20 .. p - 1 PROVE \E k \in j - 19 .. j : Z[k] # 0
      BY DEF Reached
    <3>1. PICK k \in j - 19 .. j : X[k] # 0
      BY <2>3 DEF Clean, Reached
    <3>2. k \in 1 .. s + d
      BY <1>4, <2>2
    <3> QED BY <2>4, <3>1, <3>2
  <2> QED BY <1>2, <1>11, <1>15, <2>5, ReachedInBuffer DEF p
<1>17. ES_opt_recv(buf) = [buf |-> Z \o [j \in 1 .. N - K |-> buf[N]], removed |-> N - K]
  BY <1>2, <1>11, <1>15, <1>16, UnescapeHolds, ZenonT(60)
<1> DEFINE pads == [j \in 1 .. N - K |-> buf[N]]
<1>18. /\ pads \in Seq(Byte) /\ Len(pads) = N - K
       /\ \A j \in 1 .. N - K : pads[j] = 0
  <2>1. buf[N] = 0
    <3>1. N \in s + m + 1 .. N
      BY <1>1, <1>2
    <3> QED BY <1>2, <3>1
  <2>2. N - K \in Nat /\ 0 \in Byte
    BY <1>7, Marks
  <2> HIDE DEF Byte
  <2> QED BY <2>1, <2>2
<1>19. ES_opt_recv(buf).buf = Z \o pads /\ ES_opt_recv(buf).removed = N - K
  <2> DEFINE a == Z \o pads
             r == N - K
  <2>1. ES_opt_recv(buf) = [buf |-> a, removed |-> r]
    BY <1>17
  <2> HIDE DEF a, r
  <2>2. ES_opt_recv(buf).buf = a /\ ES_opt_recv(buf).removed = r
    BY <2>1
  <2> QED BY <2>2 DEF a, r
<1> HIDE DEF pads
<1>20. ASSUME NEW j \in 1 .. N PROVE (Z \o pads)[j] = Arrived(s, T, Y, c, m, buf, j)
  <2> DEFINE q == Z \o pads
  <2>1. /\ \A i \in 1 .. K : q[i] = Z[i]
        /\ \A i \in 1 .. N - K : q[K + i] = pads[i]
    <3>1. /\ \A i \in 1 .. Len(Z) : q[i] = Z[i]
          /\ \A i \in 1 .. Len(pads) : q[Len(Z) + i] = pads[i]
      BY <1>11, <1>18, Joined
    <3> QED BY <1>11, <1>18, <3>1
  <2> HIDE DEF q
  <2>2. CASE j <= K
    <3>1. j \in 1 .. K
      BY <1>7, <2>2
    <3>2. Z[j] = Arrived(s, T, Y, c, m, buf, j)
      BY <3>1 DEF Z
    <3> QED BY <2>1, <3>1, <3>2 DEF q
  <2>3. CASE j > K
    <3>1. j - K \in 1 .. N - K /\ K + (j - K) = j /\ ~ (j <= s) /\ j > s + d
      BY <1>4, <1>7, <2>3
    <3>2. q[j] = 0
      BY <1>18, <2>1, <3>1
    <3> QED BY <3>1, <3>2 DEF Arrived, d, q
  <2>4. j <= K \/ j > K
    BY <1>7
  <2> QED BY <2>2, <2>3, <2>4, Zenon
<1> QED BY <1>4, <1>7, <1>19, <1>20 DEF d, y, Undone

--------------------------------------------------------------------------------
(* Genuine frames.                                                          *)

(* What was sent can be read.                                               *)
SentReadable ==
  /\ noise \in Seq(Byte) /\ sent \in Seq(Seq(Byte) \ {<<>>})
  /\ port = "clowire" => CheckTells(noise, sent) /\ Escapable(noise, sent)
  /\ port = "qiyuan" => noise = <<>> /\ \A k \in DOMAIN sent : Report(sent[k])

(* The frames passed on, with the one a worker still has.                   *)
Pending == IF workers = 0 THEN delivered ELSE Append(delivered, buf_final)

(* These are frames sent, in their order, that begin in the first b bytes   *)
(* of the stream.                                                           *)
FromFirst(q, b) ==
  \E place \in [1 .. Len(q) -> 1 .. Len(sent)] :
    /\ \A i \in 1 .. Len(q) : q[i] = sent[place[i]]
    /\ \A i \in 1 .. Len(q) : Before(noise, sent, place[i]) < b
    /\ \A i, j \in 1 .. Len(q) : i < j => place[i] < place[j]

(* All that is passed on begins there.                                      *)
Handed(b) == FromFirst(Pending, b)

(* The first half of an escape that has been read.                          *)
Held(half) == IF half = 1 THEN <<FE>> ELSE <<>>

(* A buffer with index p, and the rest w of a line that brings the stream   *)
(* D.  b + s bytes of D have been taken.  The last s of them are in the     *)
(* buffer, perhaps with half of the next one after them, and Y is still to  *)
(* come.  Where the buffer was emptied in the middle of an escape, its      *)
(* second half stands for the byte.                                         *)
Holding(D, buf, p, w, b, s, half, Y, c) ==
  /\ b \in Nat /\ s \in Nat /\ half \in {0, 1}
  /\ b + s <= Len(D)
  /\ p = s + half /\ p < BUF_MAX
  /\ \A j \in 1 .. s : buf[j] = D[b + j] \/ (j = 1 /\ buf[1] \in {1, 2})
  /\ half = 1 => buf[s + 1] = FE
  /\ \A j \in p + 1 .. BUF_MAX : buf[j] = 0
  /\ Y \in Seq(Byte) /\ Len(Y) = Len(D) - (b + s)
  /\ \A j \in 1 .. Len(Y) : Y[j] = D[b + s + j] \/ (j = 1 /\ s = 0 /\ Y[1] \in {1, 2})
  /\ Carries(Held(half) \o w, Y, c)

(* Reader and line hold the Clowire stream together, and what has been      *)
(* passed on lies before what is held.                                      *)
ClowireInv ==
  port = "clowire" =>
    \E b, s, half, Y, c :
      Holding(Stream(noise, sent), buf_tmp, p_index, wire, b, s, half, Y, c) /\ Handed(b)

(* What was handed on before is handed on later.                            *)
LEMMA HandedLater ==
  ASSUME NEW b \in Int, NEW z \in Int, b <= z, Handed(b), SentReadable
  PROVE  Handed(z)
<1>1. PICK place \in [1 .. Len(Pending) -> 1 .. Len(sent)] :
         /\ \A i \in 1 .. Len(Pending) : Pending[i] = sent[place[i]]
         /\ \A i \in 1 .. Len(Pending) : Before(noise, sent, place[i]) < b
         /\ \A i, j \in 1 .. Len(Pending) : i < j => place[i] < place[j]
  BY DEF Handed, FromFirst
<1>2. ASSUME NEW i \in 1 .. Len(Pending) PROVE Before(noise, sent, place[i]) < z
  <2> DEFINE k == place[i]
             e == Before(noise, sent, k)
  <2>1. k \in 1 .. Len(sent) /\ e < b
    BY <1>1
  <2> HIDE DEF k
  <2>2. noise \in Seq(Byte) /\ sent \in Seq(Seq(Byte))
    BY DEF SentReadable
  <2>3. e \in Nat
    BY <2>1, <2>2, FramePlaces DEF FramePlace
  <2> HIDE DEF e
  <2>4. e < z
    BY <2>1, <2>3
  <2> QED BY <2>4 DEF e, k
<1> QED BY <1>1, <1>2 DEF Handed, FromFirst

(* The frames a worker passed on are among them.                            *)
LEMMA HandedGenuine ==
  ASSUME NEW b, Handed(b), delivered \in Seq(Seq(Byte)), sent \in Seq(Seq(Byte)),
         buf_final \in Seq(Byte)
  PROVE  Genuine
<1> DEFINE n == Len(delivered)
           N == Len(Pending)
<1>1. PICK place \in [1 .. N -> 1 .. Len(sent)] :
         /\ \A i \in 1 .. N : Pending[i] = sent[place[i]]
         /\ \A i, j \in 1 .. N : i < j => place[i] < place[j]
  BY DEF Handed, FromFirst
<1>2. n \in Nat /\ DOMAIN delivered = 1 .. n /\ DOMAIN sent = 1 .. Len(sent)
  OBVIOUS
<1>3. N \in Nat /\ n <= N /\ \A i \in 1 .. n : Pending[i] = delivered[i]
  <2>1. CASE workers = 0
    BY <2>1 DEF Pending
  <2>2. CASE workers # 0
    <3> DEFINE T == Seq(Byte)
               q == Append(delivered, buf_final)
    <3>1. Pending = q
      BY <2>2 DEF Pending
    <3>2. delivered \in Seq(T) /\ buf_final \in T
      OBVIOUS
    <3> HIDE DEF T
    <3>3. Len(q) = n + 1 /\ \A i \in 1 .. n : q[i] = delivered[i]
      BY <3>2
    <3> HIDE DEF q, n
    <3>4. Len(Pending) = n + 1 /\ \A i \in 1 .. n : Pending[i] = delivered[i]
      BY <3>1, <3>3
    <3> QED BY <1>2, <3>4
  <2> QED BY <2>1, <2>2
<1> HIDE DEF n, N
<1> DEFINE early == [i \in 1 .. n |-> place[i]]
<1>4. early \in [1 .. n -> 1 .. Len(sent)]
  <2>1. 1 .. n \subseteq 1 .. N
    BY <1>2, <1>3
  <2> QED BY <2>1
<1>5. \A i \in 1 .. n : delivered[i] = sent[early[i]]
  <2>1. 1 .. n \subseteq 1 .. N
    BY <1>2, <1>3
  <2> QED BY <1>1, <1>3, <2>1
<1>6. \A i, j \in 1 .. n : i < j => early[i] < early[j]
  <2>1. 1 .. n \subseteq 1 .. N
    BY <1>2, <1>3
  <2> QED BY <1>1, <2>1
<1>7. early \in [DOMAIN delivered -> DOMAIN sent] /\ DOMAIN early = 1 .. n
  BY <1>2, <1>4
<1> HIDE DEF early
<1> QED BY <1>2, <1>5, <1>6, <1>7 DEF Genuine

(* A frame that begins after b bytes may be handed on next.                 *)
LEMMA HandedNext ==
  ASSUME SentReadable, NEW b \in Int, NEW z \in Int, Handed(b), b <= z,
         delivered \in Seq(Seq(Byte)), workers = 0,
         NEW k \in 1 .. Len(sent), b <= Before(noise, sent, k), Before(noise, sent, k) < z,
         NEW q, q = Append(delivered, sent[k])
  PROVE  FromFirst(q, z)
<1> DEFINE n == Len(delivered)
           B(i) == Before(noise, sent, i)
<1>1. Pending = delivered
  BY DEF Pending
<1>2. PICK place \in [1 .. n -> 1 .. Len(sent)] :
         /\ \A i \in 1 .. n : delivered[i] = sent[place[i]]
         /\ \A i \in 1 .. n : B(place[i]) < b
         /\ \A i, j \in 1 .. n : i < j => place[i] < place[j]
  BY <1>1 DEF Handed, FromFirst
<1>3. /\ \A i \in 1 .. Len(sent) : B(i) \in Nat /\ Len(sent[i]) \in Nat
      /\ \A i, j \in 1 .. Len(sent) : i < j => B(i) + Len(sent[i]) <= B(j)
  <2>1. noise \in Seq(Byte) /\ sent \in Seq(Seq(Byte))
    BY DEF SentReadable
  <2> QED BY <2>1, FramePlaces DEF FramePlace
<1> HIDE DEF B
<1>4. ASSUME NEW i \in 1 .. n PROVE place[i] < k /\ B(place[i]) < z
  <2> DEFINE h == place[i]
  <2>1. h \in 1 .. Len(sent) /\ B(h) < b
    BY <1>2
  <2> HIDE DEF h
  <2>2. B(h) \in Nat /\ B(k) \in Nat /\ b <= B(k) /\ B(h) < B(k) /\ Len(sent[k]) \in Nat
    BY <1>3, <2>1 DEF B
  <2>3. ASSUME h = k \/ k < h PROVE FALSE
    <3>1. CASE h = k
      BY <2>2, <3>1
    <3>2. CASE k < h
      <4>1. B(k) + Len(sent[k]) <= B(h)
        BY <1>3, <2>1, <3>2
      <4> QED BY <2>2, <4>1, SMTT(30)
    <3> QED BY <2>3, <3>1, <3>2
  <2>4. h < k /\ B(h) < z
    BY <2>1, <2>2, <2>3
  <2> QED BY <2>4 DEF h
<1>5. n \in Nat /\ Len(q) = n + 1 /\ (\A i \in 1 .. n : q[i] = delivered[i]) /\ q[n + 1] = sent[k]
  <2> DEFINE T == Seq(Byte)
             f == sent[k]
  <2>1. sent \in Seq(T)
    BY DEF SentReadable
  <2>2. delivered \in Seq(T) /\ f \in T /\ q = Append(delivered, f)
    BY <2>1
  <2> HIDE DEF T, f
  <2>3. n \in Nat /\ Len(q) = n + 1 /\ (\A i \in 1 .. n : q[i] = delivered[i]) /\ q[n + 1] = f
    BY <2>2
  <2> QED BY <2>3 DEF f
<1> HIDE DEF n
<1> DEFINE all == [i \in 1 .. n + 1 |-> IF i = n + 1 THEN k ELSE place[i]]
<1>6. /\ all \in [1 .. n + 1 -> 1 .. Len(sent)]
      /\ all[n + 1] = k
      /\ \A i \in 1 .. n : all[i] = place[i]
  <2>1. \A i \in 1 .. n + 1 : i # n + 1 => i \in 1 .. n
    BY <1>5
  <2>2. n + 1 \in 1 .. n + 1
    BY <1>5
  <2>3. \A i \in 1 .. n : i \in 1 .. n + 1 /\ i # n + 1
    BY <1>5
  <2>4. all \in [1 .. n + 1 -> 1 .. Len(sent)]
    BY <2>1
  <2>5. all[n + 1] = k
    BY <2>2
  <2>6. \A i \in 1 .. n : all[i] = place[i]
    BY <2>3
  <2> QED BY <2>4, <2>5, <2>6
<1> HIDE DEF all
<1>7. \A i \in 1 .. n + 1 : q[i] = sent[all[i]] /\ B(all[i]) < z
  <2> TAKE i \in 1 .. n + 1
  <2>1. CASE i = n + 1
    BY <1>5, <1>6, <2>1 DEF B
  <2>2. CASE i # n + 1
    <3>1. i \in 1 .. n
      BY <1>5, <2>2
    <3> QED BY <1>2, <1>4, <1>5, <1>6, <3>1
  <2> QED BY <2>1, <2>2
<1>8. \A i, j \in 1 .. n + 1 : i < j => all[i] < all[j]
  <2> SUFFICES ASSUME NEW i \in 1 .. n + 1, NEW j \in 1 .. n + 1, i < j
               PROVE  all[i] < all[j]
    OBVIOUS
  <2>1. i \in 1 .. n
    BY <1>5
  <2>2. CASE j = n + 1
    BY <1>4, <1>6, <2>1, <2>2
  <2>3. CASE j # n + 1
    <3>1. j \in 1 .. n
      BY <1>5, <2>3
    <3> QED BY <1>2, <1>6, <2>1, <3>1
  <2> QED BY <2>2, <2>3
<1>9. Len(q) = n + 1
  BY <1>5
<1>10. \A i \in 1 .. n + 1 : q[i] = sent[all[i]]
  BY <1>7
<1>11. \A i \in 1 .. n + 1 : Before(noise, sent, all[i]) < z
  BY <1>7 DEF B
<1>12. all \in [1 .. n + 1 -> 1 .. Len(sent)]
  BY <1>6
<1>13. \E h \in [1 .. Len(q) -> 1 .. Len(sent)] :
         /\ \A i \in 1 .. Len(q) : q[i] = sent[h[i]]
         /\ \A i \in 1 .. Len(q) : Before(noise, sent, h[i]) < z
         /\ \A i, j \in 1 .. Len(q) : i < j => h[i] < h[j]
  BY ONLY <1>8, <1>9, <1>10, <1>11, <1>12, Zenon
<1> QED BY <1>13 DEF FromFirst

--------------------------------------------------------------------------------
(* What a read brings.                                                      *)

(* Sequences with the same elements are the same.                           *)
LEMMA SameBytes ==
  ASSUME NEW q \in Seq(Byte), NEW r \in Seq(Byte), Len(q) = Len(r),
         \A i \in 1 .. Len(q) : q[i] = r[i]
  PROVE  q = r
OBVIOUS

(* Where the bytes go.                                                      *)
PlacedWell(q, buf, index, bytes) ==
  /\ q \in Seq(Byte) /\ Len(q) = Len(buf)
  /\ \A j \in 1 .. index : q[j] = buf[j]
  /\ \A j \in 1 .. Len(bytes) : q[index + j] = bytes[j]
  /\ \A j \in index + Len(bytes) + 1 .. Len(buf) : q[j] = buf[j]

(* A copy that ends in the buffer puts them there.                          *)
LEMMA PlacedAt ==
  ASSUME NEW buf \in Seq(Byte), NEW index \in Nat, NEW bytes \in Seq(Byte),
         index + Len(bytes) < Len(buf), NEW q, q = Placed(buf, index, bytes)
  PROVE  PlacedWell(q, buf, index, bytes)
<1> DEFINE n == Len(bytes)
           N == Len(buf)
           head == SubSeq(buf, 1, index)
           rest == SubSeq(buf, index + n + 1, N)
           t == head \o bytes
<1>1. Max({index, 0}) = index
  BY LargerSmaller
<1>2. index - index + 1 = 1 /\ n \in Nat /\ N \in Nat /\ index + n < N
  OBVIOUS
<1>3. SubSeq(bytes, 1, n) = bytes
  BY SubSeqFull
<1>4. q = t \o rest
  BY <1>1, <1>2, <1>3 DEF Placed
<1>5. head \in Seq(Byte) /\ Len(head) = index /\ \A j \in 1 .. index : head[j] = buf[j]
  <2>1. 1 \in Nat \ {0} /\ index \in Int /\ index <= Len(buf)
    BY <1>2
  <2>2. /\ head \in Seq(Byte) /\ Len(head) = IF 1 <= index THEN index - 1 + 1 ELSE 0
        /\ \A j \in 1 .. index - 1 + 1 : head[j] = buf[1 + j - 1]
    BY <2>1, Cutout
  <2> HIDE DEF head, N, n
  <2>3. index - 1 + 1 = index /\ \A j \in 1 .. index : 1 + j - 1 = j
    OBVIOUS
  <2>4. Len(head) = index
    BY <2>2
  <2> QED BY <2>2, <2>3, <2>4
<1>6. /\ rest \in Seq(Byte) /\ Len(rest) = N - (index + n)
      /\ \A j \in 1 .. N - (index + n) : rest[j] = buf[index + n + j]
  <2>1. index + n + 1 \in Nat \ {0} /\ N \in Int /\ N <= Len(buf)
    BY <1>2
  <2>2. /\ rest \in Seq(Byte)
        /\ Len(rest) = IF index + n + 1 <= N THEN N - (index + n + 1) + 1 ELSE 0
        /\ \A j \in 1 .. N - (index + n + 1) + 1 : rest[j] = buf[index + n + 1 + j - 1]
    BY <2>1, Cutout
  <2> HIDE DEF rest, N, n
  <2>3. N - (index + n + 1) + 1 = N - (index + n)
        /\ \A j \in 1 .. N - (index + n) : index + n + 1 + j - 1 = index + n + j
    BY <1>2
  <2>4. Len(rest) = N - (index + n)
    BY <1>2, <2>2
  <2> QED BY <2>2, <2>3, <2>4
<1> HIDE DEF head, rest
<1>7. /\ t \in Seq(Byte) /\ Len(t) = index + n
      /\ \A j \in 1 .. index : t[j] = head[j]
      /\ \A j \in 1 .. n : t[index + j] = bytes[j]
  <2>1. /\ t \in Seq(Byte) /\ Len(t) = Len(head) + Len(bytes)
        /\ \A j \in 1 .. Len(head) : t[j] = head[j]
        /\ \A j \in 1 .. Len(bytes) : t[Len(head) + j] = bytes[j]
    BY <1>5, Joined
  <2> HIDE DEF t
  <2> QED BY <1>5, <2>1
<1> HIDE DEF t
<1>8. /\ q \in Seq(Byte) /\ Len(q) = Len(t) + Len(rest)
      /\ \A j \in 1 .. Len(t) : q[j] = t[j]
      /\ \A j \in 1 .. Len(rest) : q[Len(t) + j] = rest[j]
  <2> DEFINE x == t \o rest
  <2>1. /\ x \in Seq(Byte) /\ Len(x) = Len(t) + Len(rest)
        /\ \A j \in 1 .. Len(t) : x[j] = t[j]
        /\ \A j \in 1 .. Len(rest) : x[Len(t) + j] = rest[j]
    BY <1>6, <1>7, Joined
  <2>2. x = q
    BY <1>4
  <2> HIDE DEF x
  <2> QED BY ONLY <2>1, <2>2, Zenon
<1> HIDE DEF n, N
<1>9. Len(q) = N
  BY <1>2, <1>6, <1>7, <1>8
<1>10. ASSUME NEW j \in 1 .. index PROVE q[j] = buf[j]
  <2>1. j \in 1 .. Len(t)
    BY <1>2, <1>7
  <2> QED BY <1>5, <1>7, <1>8, <2>1
<1>11. ASSUME NEW j \in 1 .. n PROVE q[index + j] = bytes[j]
  <2>1. index + j \in 1 .. Len(t)
    BY <1>2, <1>7
  <2> QED BY <1>7, <1>8, <2>1
<1>12. ASSUME NEW j \in index + n + 1 .. N PROVE q[j] = buf[j]
  <2> DEFINE i == j - (index + n)
  <2>1. i \in 1 .. N - (index + n) /\ index + n + i = j
    BY <1>2
  <2> HIDE DEF i
  <2>2. q[(index + n) + i] = rest[i] /\ (index + n) + i = j
    BY <1>2, <1>6, <1>7, <1>8, <2>1
  <2> QED BY <1>6, <2>1, <2>2
<1> QED BY <1>8, <1>9, <1>10, <1>11, <1>12 DEF n, N, PlacedWell

(* The text that is still to be undone.                                     *)
LEMMA HeldText ==
  ASSUME NEW half \in {0, 1}, NEW w \in Seq(Byte), NEW T, T = Held(half) \o w
  PROVE  /\ T \in Seq(Byte) /\ Len(T) = half + Len(w)
         /\ half = 1 => T[1] = FE
         /\ \A j \in 1 .. Len(w) : T[half + j] = w[j]
<1>1. CASE half = 0
  <2>1. Held(half) = <<>>
    BY <1>1 DEF Held
  <2>2. T = w
    BY <2>1
  <2> DEFINE l == Len(w)
  <2>3. l \in Nat
    OBVIOUS
  <2> HIDE DEF l
  <2>4. half + l = l /\ \A j \in 1 .. l : half + j = j
    BY <1>1, <2>3
  <2>5. \A j \in 1 .. l : T[half + j] = w[j]
    <3> TAKE j \in 1 .. l
    <3>1. half + j = j
      BY <2>4
    <3> QED BY <2>2, <3>1, Zenon
  <2>6. T \in Seq(Byte) /\ Len(T) = half + Len(w)
    <3>1. half + l = Len(T)
      BY <2>2, <2>4 DEF l
    <3> QED BY <2>2, <3>1 DEF l
  <2>7. half # 1
    BY <1>1
  <2> QED BY <2>5, <2>6, <2>7 DEF l
<1>2. CASE half = 1
  <2> DEFINE h == <<FE>>
  <2>1. FE \in Byte
    BY Marks
  <2>2. h \in Seq(Byte) /\ Len(h) = 1 /\ h[1] = FE
    BY <2>1
  <2>3. T = h \o w
    BY <1>2 DEF Held
  <2> HIDE DEF h
  <2>4. /\ T \in Seq(Byte) /\ Len(T) = Len(h) + Len(w)
        /\ \A j \in 1 .. Len(h) : T[j] = h[j]
        /\ \A j \in 1 .. Len(w) : T[Len(h) + j] = w[j]
    <3> DEFINE x == h \o w
    <3>1. /\ x \in Seq(Byte) /\ Len(x) = Len(h) + Len(w)
          /\ \A j \in 1 .. Len(h) : x[j] = h[j]
          /\ \A j \in 1 .. Len(w) : x[Len(h) + j] = w[j]
      BY <2>2, Joined
    <3>2. x = T
      BY <2>3
    <3> HIDE DEF x
    <3> QED BY ONLY <3>1, <3>2, Zenon
  <2> QED BY <1>2, <2>2, <2>4
<1> QED BY <1>1, <1>2

(* What n bytes leave of it.                                                *)
LeftOver(half, w, n, m, T, v) ==
  /\ SubSeq(T, m + 1, Len(T)) = v
  /\ m \in 1 .. Len(T)
  /\ T[m] = FE => SubSeq(T, m, Len(T)) = <<FE>> \o v
  /\ v \in Seq(Byte)

(* A line without its first n bytes leaves just that.                       *)
LEMMA HeldRest ==
  ASSUME NEW half \in {0, 1}, NEW w \in Seq(Byte), NEW T, T = Held(half) \o w,
         NEW n \in 1 .. Len(w), NEW m, m = half + n
  PROVE  LeftOver(half, w, n, m, T, SubSeq(w, n + 1, Len(w)))
<1> DEFINE L == Len(w)
           K == Len(T)
           r == SubSeq(T, m + 1, K)
           v == SubSeq(w, n + 1, L)
<1>1. T \in Seq(Byte) /\ K = half + L /\ \A j \in 1 .. L : T[half + j] = w[j]
  BY HeldText
<1>2. L \in Nat /\ n \in 1 .. L /\ K \in Nat /\ m \in 1 .. K
  BY <1>1
<1>3. /\ r \in Seq(Byte) /\ Len(r) = (IF m + 1 <= K THEN K - (m + 1) + 1 ELSE 0)
      /\ \A i \in 1 .. K - (m + 1) + 1 : r[i] = T[m + 1 + i - 1]
  <2>1. m + 1 \in Nat \ {0} /\ K \in Int /\ K <= Len(T)
    BY <1>2
  <2>2. T \in Seq(Byte)
    BY <1>1
  <2> DEFINE a == m + 1
  <2>3. a \in Nat \ {0}
    BY <2>1
  <2> HIDE DEF a, K
  <2>4. /\ SubSeq(T, a, K) \in Seq(Byte)
        /\ Len(SubSeq(T, a, K)) = IF a <= K THEN K - a + 1 ELSE 0
        /\ \A i \in 1 .. K - a + 1 : SubSeq(T, a, K)[i] = T[a + i - 1]
    BY <2>1, <2>2, <2>3, Cutout
  <2> QED BY <2>4 DEF a
<1>4. /\ v \in Seq(Byte) /\ Len(v) = (IF n + 1 <= L THEN L - (n + 1) + 1 ELSE 0)
      /\ \A i \in 1 .. L - (n + 1) + 1 : v[i] = w[n + 1 + i - 1]
  <2>1. n + 1 \in Nat \ {0} /\ L \in Int /\ L <= Len(w)
    BY <1>2
  <2> QED BY <2>1, Cutout
<1> HIDE DEF r, v, L, K
<1>5. Len(r) = L - n /\ Len(v) = L - n /\ L - n \in Nat
      /\ K - (m + 1) + 1 = L - n /\ L - (n + 1) + 1 = L - n
  BY <1>1, <1>2, <1>3, <1>4
<1>6. \A i \in 1 .. L - n : r[i] = v[i]
  <2> TAKE i \in 1 .. L - n
  <2>1. n + i \in 1 .. L /\ m + 1 + i - 1 = half + (n + i) /\ n + 1 + i - 1 = n + i
    BY <1>2
  <2>2. r[i] = T[half + (n + i)] /\ v[i] = w[n + i]
    BY <1>3, <1>4, <1>5, <2>1
  <2> QED BY <1>1, <2>1, <2>2
<1>7. r = v
  BY <1>3, <1>4, <1>5, <1>6, SameBytes
<1>8. T[m] = FE => SubSeq(T, m, K) = <<FE>> \o v
  <2>1. K \in m .. Len(T) /\ m \in 1 .. Len(T)
    BY <1>2 DEF K
  <2>2. SubSeq(T, m, K) = <<T[m]>> \o SubSeq(T, m + 1, K)
    BY <1>1, <2>1, SubSeqRecursiveFirst
  <2> QED BY <1>7, <2>2 DEF r
<1> QED BY <1>2, <1>4, <1>7, <1>8 DEF r, v, L, K, LeftOver

(* Z is the end of D from byte g + 1 on; the first may be a second half.    *)
ToCome(D, g, first, Z) ==
  /\ Z \in Seq(Byte) /\ g <= Len(D) /\ Len(Z) = Len(D) - g
  /\ \A j \in 1 .. Len(Z) : Z[j] = D[g + j] \/ (j = 1 /\ first = 0 /\ Z[1] \in {1, 2})

(* What is still to come when the line has brought r bytes more.            *)
LEMMA StillToCome ==
  ASSUME NEW D, NEW buf, NEW p, NEW w, NEW b, NEW s, NEW half, NEW Y, NEW c,
         Holding(D, buf, p, w, b, s, half, Y, c), D \in Seq(Byte),
         NEW r \in 0 .. Len(Y), NEW Z, Z = SubSeq(Y, r + 1, Len(Y))
  PROVE  ToCome(D, b + s + r, s + r, Z)
<1> DEFINE y == Len(Y)
           L == Len(D)
           v == SubSeq(Y, r + 1, y)
<1>1. /\ b \in Nat /\ s \in Nat /\ b + s <= L /\ y = L - (b + s) /\ Y \in Seq(Byte)
      /\ \A j \in 1 .. y : Y[j] = D[b + s + j] \/ (j = 1 /\ s = 0 /\ Y[1] \in {1, 2})
  BY DEF Holding
<1>2. L \in Nat /\ y \in Nat /\ r \in 0 .. y
  BY <1>1
<1>3. /\ v \in Seq(Byte) /\ Len(v) = (IF r + 1 <= y THEN y - (r + 1) + 1 ELSE 0)
      /\ \A i \in 1 .. y - (r + 1) + 1 : v[i] = Y[r + 1 + i - 1]
  <2>1. r + 1 \in Nat \ {0} /\ y \in Int /\ y <= Len(Y)
    BY <1>2
  <2> QED BY <1>1, <2>1, Cutout
<1> HIDE DEF v, y, L
<1>4. Len(v) = y - r /\ y - (r + 1) + 1 = y - r /\ y - r = L - (b + s + r) /\ b + s + r <= L
  BY <1>1, <1>2, <1>3
<1>5. ASSUME NEW j \in 1 .. y - r
      PROVE  v[j] = D[b + s + r + j] \/ (j = 1 /\ s + r = 0 /\ v[1] \in {1, 2})
  <2>1. r + j \in 1 .. y /\ r + 1 + j - 1 = r + j /\ b + s + (r + j) = b + s + r + j
    BY <1>1, <1>2
  <2>2. v[j] = Y[r + j]
    BY <1>3, <1>4, <2>1
  <2>3. CASE Y[r + j] = D[b + s + (r + j)]
    BY <2>1, <2>2, <2>3
  <2>4. CASE r + j = 1 /\ s = 0 /\ Y[1] \in {1, 2}
    <3>1. j = 1 /\ r = 0
      BY <1>2, <2>4
    <3> QED BY <2>2, <2>4, <3>1
  <2> QED BY <1>1, <2>1, <2>3, <2>4
<1> QED BY <1>3, <1>4, <1>5 DEF v, y, L, ToCome

(* The line v after T's first m bytes, when d bytes of Y have come whole.   *)
After(T, Y, d, m, v) ==
  /\ d \in 0 .. Len(Y)
  /\ T[m] # FE => \E e : Carries(v, SubSeq(Y, d + 1, Len(Y)), e)
  /\ T[m] = FE =>
       /\ d \in 1 .. Len(Y)
       /\ \E e : Carries(<<FE>> \o v, SubSeq(Y, d, Len(Y)), e)
       /\ \E t \in {1, 2} : \E e : Carries(v, <<t>> \o SubSeq(Y, d + 1, Len(Y)), e)

(* What the line carries after n bytes.                                     *)
LEMMA LineAfter ==
  ASSUME NEW T, NEW half \in {0, 1}, NEW w \in Seq(Byte), T = Held(half) \o w,
         NEW Y \in Seq(Byte), NEW c, Carries(T, Y, c),
         NEW n \in 1 .. Len(w), NEW m, m = half + n, NEW d, d = c[m],
         NEW v, v = SubSeq(w, n + 1, Len(w))
  PROVE  After(T, Y, d, m, v)
<1>1. T \in Seq(Byte)
  BY HeldText
<1>2. /\ SubSeq(T, m + 1, Len(T)) = v /\ m \in 1 .. Len(T)
      /\ T[m] = FE => SubSeq(T, m, Len(T)) = <<FE>> \o v
  <2>1. /\ SubSeq(T, m + 1, Len(T)) = SubSeq(w, n + 1, Len(w)) /\ m \in 1 .. Len(T)
        /\ T[m] = FE => SubSeq(T, m, Len(T)) = <<FE>> \o SubSeq(w, n + 1, Len(w))
    <3>1. LeftOver(half, w, n, m, T, SubSeq(w, n + 1, Len(w)))
      BY HeldRest
    <3> QED BY <3>1 DEF LeftOver
  <2> QED BY <2>1
<1>3. m \in 0 .. Len(T) /\ m \in Nat
  BY <1>2
<1>4. d \in 0 .. Len(Y)
  <2>1. Holds(T, Y, c)
    BY DEF Carries
  <2> QED BY <1>1, <1>3, <2>1, CountBound
<1>5. ASSUME T[m] # FE PROVE \E e : Carries(v, SubSeq(Y, d + 1, Len(Y)), e)
  <2>1. \E e : Carries(SubSeq(T, m + 1, Len(T)), SubSeq(Y, c[m] + 1, Len(Y)), e)
    BY <1>1, <1>3, <1>5, CarriesRest
  <2> QED BY <1>2, <2>1
<1>6. ASSUME T[m] = FE
      PROVE  /\ d \in 1 .. Len(Y)
             /\ \E e : Carries(<<FE>> \o v, SubSeq(Y, d, Len(Y)), e)
             /\ \E t \in {1, 2} : \E e : Carries(v, <<t>> \o SubSeq(Y, d + 1, Len(Y)), e)
  <2>1. /\ T[m + 1] \in {1, 2} /\ d \in 1 .. Len(Y) /\ d = c[m - 1] + 1
        /\ m > 1 => T[m - 1] # FE
    <3>1. /\ T[m + 1] \in {1, 2} /\ c[m] \in 1 .. Len(Y) /\ c[m] = c[m - 1] + 1
          /\ m > 1 => T[m - 1] # FE
      <4>1. HalfAt(T, Y, c, m)
        BY <1>1, <1>2, <1>6, HalfCarried
      <4> QED BY <4>1 DEF HalfAt
    <3> QED BY <3>1
  <2>2. \E e : Carries(SubSeq(T, m + 1, Len(T)),
                       <<T[m + 1]>> \o SubSeq(Y, c[m] + 1, Len(Y)), e)
    BY <1>1, <1>2, <1>6, CarriesSplit
  <2>3. \E t \in {1, 2} : \E e : Carries(v, <<t>> \o SubSeq(Y, d + 1, Len(Y)), e)
    <3> DEFINE t == T[m + 1]
    <3>1. t \in {1, 2} /\ \E e : Carries(v, <<t>> \o SubSeq(Y, d + 1, Len(Y)), e)
      BY <1>2, <2>1, <2>2
    <3> HIDE DEF t
    <3> QED BY <3>1
  <2>4. \E e : Carries(<<FE>> \o v, SubSeq(Y, d, Len(Y)), e)
    <3> DEFINE k == m - 1
    <3>1. k \in 0 .. Len(T) /\ (k > 0 => T[k] # FE) /\ k + 1 = m
      BY <1>2, <1>3, <2>1
    <3>2. c[k] + 1 = d
      BY <2>1
    <3> HIDE DEF k
    <3>3. \E e : Carries(SubSeq(T, k + 1, Len(T)), SubSeq(Y, c[k] + 1, Len(Y)), e)
      BY <1>1, <3>1, CarriesRest
    <3> QED BY <1>2, <1>6, <3>1, <3>2, <3>3
  <2> QED BY <2>1, <2>3, <2>4
<1> QED BY <1>4, <1>5, <1>6 DEF After

(* What has been read and is still to come, is clean as the stream is.      *)
LEMMA CleanRest ==
  ASSUME NEW D \in Seq(Byte), Clean(D), NEW b \in 0 .. Len(D),
         NEW X \in Seq(Byte), Len(X) = Len(D) - b,
         \A j \in 1 .. Len(X) : X[j] = D[b + j] \/ (j = 1 /\ X[1] \in {1, 2})
  PROVE  Clean(X)
<1> DEFINE n == Len(X)
           L == Len(D)
<1>1. n \in Nat /\ L \in Nat /\ n = L - b /\ b \in Nat
  OBVIOUS
<1>2. \A j \in 1 .. n : X[j] = D[b + j] \/ (j = 1 /\ X[1] \in {1, 2})
  OBVIOUS
<1>3. /\ \A i \in 1 .. L - 1 : D[i] = FE => D[i + 1] \notin {1, 2}
      /\ \A i \in 1 .. L : Reached(D, i)
  BY DEF Clean
<1> HIDE DEF n, L
<1>4. ASSUME NEW i \in 1 .. n - 1, X[i] = FE PROVE X[i + 1] \notin {1, 2}
  <2>1. i \in 1 .. n /\ i + 1 \in 1 .. n /\ i + 1 # 1 /\ b + i \in 1 .. L - 1 /\ b + (i + 1) = (b + i) + 1
    BY <1>1
  <2>2. D[b + i] = FE
    <3>1. X[i] = D[b + i] \/ (i = 1 /\ X[1] \in {1, 2})
      BY <1>2, <2>1
    <3> QED BY <1>4, <3>1, Marks
  <2>3. X[i + 1] = D[(b + i) + 1]
    BY <1>2, <2>1
  <2> QED BY <1>3, <2>1, <2>2, <2>3
<1>5. ASSUME NEW i \in 1 .. n PROVE Reached(X, i)
  <2> SUFFICES ASSUME NEW j \in 20 .. i - 1 PROVE \E k \in j - 19 .. j : X[k] # 0
    BY DEF Reached
  <2>1. b + i \in 1 .. L /\ b + j \in 20 .. (b + i) - 1
    BY <1>1
  <2>2. PICK k \in (b + j) - 19 .. b + j : D[k] # 0
    BY <1>3, <2>1 DEF Reached
  <2> DEFINE h == k - b
  <2>3. h \in j - 19 .. j /\ h \in 1 .. n /\ b + h = k
    BY <1>1, <2>2
  <2> HIDE DEF h
  <2>4. X[h] = D[b + h] \/ X[h] \in {1, 2}
    BY <1>2, <2>3
  <2>5. X[h] # 0
    <3>1. D[b + h] # 0
      BY <2>2, <2>3, Zenon
    <3>2. ASSUME X[h] \in {1, 2} PROVE X[h] # 0
      BY <3>2
    <3> QED BY <2>4, <3>1, <3>2
  <2> QED BY <2>3, <2>5
<1> QED BY <1>4, <1>5 DEF Clean, n

(* A read of n bytes that has room.                                         *)
LEMMA ReadUndone ==
  ASSUME NEW D \in Seq(Byte), Clean(D), NEW buf \in Seq(Byte), Len(buf) = BUF_MAX,
         NEW w \in Seq(Byte), NEW p, NEW b, NEW s, NEW half, NEW Y, NEW c,
         Holding(D, buf, p, w, b, s, half, Y, c),
         NEW n \in 1 .. Len(w), p + n < BUF_MAX,
         NEW T, T = Held(half) \o w, NEW m, m = half + n,
         NEW fill, fill = Placed(buf, p, SubSeq(w, 1, n))
  PROVE  Undone(ES_opt_recv(fill), buf, s, T, Y, c, m, BUF_MAX)
<1> DEFINE a == SubSeq(w, 1, n)
           N == BUF_MAX
           L == Len(D)
           y == Len(Y)
<1>1. /\ b \in Nat /\ s \in Nat /\ half \in {0, 1} /\ b + s <= L
      /\ p = s + half /\ p < N
      /\ half = 1 => buf[s + 1] = FE
      /\ \A j \in p + 1 .. N : buf[j] = 0
      /\ Y \in Seq(Byte) /\ y = L - (b + s)
      /\ Carries(T, Y, c)
  BY DEF Holding
<1>1a. \A j \in 1 .. s : buf[j] = D[b + j] \/ (j = 1 /\ buf[1] \in {1, 2})
  BY DEF Holding
<1>1b. \A j \in 1 .. y : Y[j] = D[b + s + j] \/ (j = 1 /\ s = 0 /\ Y[1] \in {1, 2})
  BY DEF Holding
<1>2. N \in Nat /\ Len(w) \in Nat /\ n \in Nat /\ y \in Nat /\ L \in Nat
  BY <1>1, ReceiverAssumption
<1>3. a \in Seq(Byte) /\ Len(a) = n /\ \A j \in 1 .. n : a[j] = w[j]
  <2>1. 1 \in Nat \ {0} /\ n \in Int /\ n <= Len(w)
    OBVIOUS
  <2>2. /\ a \in Seq(Byte) /\ Len(a) = IF 1 <= n THEN n - 1 + 1 ELSE 0
        /\ \A j \in 1 .. n - 1 + 1 : a[j] = w[1 + j - 1]
    BY <2>1, Cutout
  <2> HIDE DEF a
  <2>3. 1 <= n /\ n - 1 + 1 = n /\ \A j \in 1 .. n : 1 + j - 1 = j
    BY <1>2
  <2> QED BY <2>2, <2>3
<1>4. /\ fill \in Seq(Byte) /\ Len(fill) = N
      /\ \A j \in 1 .. p : fill[j] = buf[j]
      /\ \A j \in 1 .. n : fill[p + j] = a[j]
      /\ \A j \in p + n + 1 .. N : fill[j] = buf[j]
  <2>1. p \in Nat /\ p + Len(a) < Len(buf)
    BY <1>1, <1>2, <1>3
  <2> HIDE DEF a
  <2>2. /\ fill \in Seq(Byte) /\ Len(fill) = Len(buf)
        /\ \A j \in 1 .. p : fill[j] = buf[j]
        /\ \A j \in 1 .. Len(a) : fill[p + j] = a[j]
        /\ \A j \in p + Len(a) + 1 .. Len(buf) : fill[j] = buf[j]
    <3> DEFINE q == Placed(buf, p, a)
    <3>1. /\ q \in Seq(Byte) /\ Len(q) = Len(buf)
          /\ \A j \in 1 .. p : q[j] = buf[j]
          /\ \A j \in 1 .. Len(a) : q[p + j] = a[j]
          /\ \A j \in p + Len(a) + 1 .. Len(buf) : q[j] = buf[j]
      <4>1. a \in Seq(Byte) /\ buf \in Seq(Byte) /\ p \in Nat
        BY <1>3, <2>1
      <4> HIDE DEF q
      <4>2. q = Placed(buf, p, a)
        BY DEF q
      <4>3. PlacedWell(q, buf, p, a)
        BY ONLY <2>1, <4>1, <4>2, PlacedAt
      <4> QED BY <4>3 DEF PlacedWell
    <3>2. fill = q
      BY DEF a
    <3> HIDE DEF q
    <3> QED BY ONLY <3>1, <3>2, Zenon
  <2> QED BY <1>3, <2>2
<1>5. /\ T \in Seq(Byte) /\ Len(T) = half + Len(w)
      /\ half = 1 => T[1] = FE
      /\ \A j \in 1 .. Len(w) : T[half + j] = w[j]
  <2>1. half \in {0, 1} /\ w \in Seq(Byte) /\ T = Held(half) \o w
    BY <1>1
  <2> QED BY ONLY <2>1, HeldText, ZenonT(60)
<1> HIDE DEF a, N, L, y
<1>6. Filled(fill, N, s, T, m)
  <2>1. s + m = p + n /\ s + m < N
    BY <1>1, <1>2 DEF N
  <2>2. ASSUME NEW j \in 1 .. m PROVE fill[s + j] = T[j]
    <3>1. CASE half = 1 /\ j = 1
      <4>1. s + j \in 1 .. p /\ s + j = s + 1
        BY <1>1, <3>1
      <4>2. fill[s + j] = buf[s + 1]
        BY <1>4, <4>1
      <4> QED BY <1>1, <1>5, <3>1, <4>2
    <3>2. CASE ~ (half = 1 /\ j = 1)
      <4> DEFINE i == j - half
      <4>1. i \in 1 .. n /\ half + i = j /\ p + i = s + j /\ i \in 1 .. Len(w)
        BY <1>1, <1>2, <3>2
      <4> HIDE DEF i
      <4>2. T[half + i] = w[i] /\ fill[p + i] = a[i] /\ a[i] = w[i]
        BY <1>3, <1>4, <1>5, <4>1
      <4> QED BY <4>1, <4>2
    <3> QED BY <3>1, <3>2
  <2>3. ASSUME NEW j \in s + m + 1 .. N PROVE fill[j] = 0
    <3>1. j \in p + n + 1 .. N /\ j \in p + 1 .. N
      BY <1>1, <1>2, <2>1
    <3> QED BY <1>1, <1>4, <3>1
  <2> QED BY <1>4, <2>1, <2>2, <2>3 DEF Filled
<1> DEFINE X == [j \in 1 .. s + y |-> IF j <= s THEN fill[j] ELSE Y[j - s]]
<1>7. /\ X \in Seq(Byte) /\ Len(X) = s + y
      /\ \A j \in 1 .. s : X[j] = fill[j]
      /\ \A j \in 1 .. y : X[s + j] = Y[j]
  <2>1. ASSUME NEW j \in 1 .. s + y PROVE (IF j <= s THEN fill[j] ELSE Y[j - s]) \in Byte
    <3>1. CASE j <= s
      <4>1. j \in 1 .. Len(fill)
        BY <1>1, <1>2, <1>4, <3>1, SMTT(30)
      <4>2. fill[j] \in Byte
        BY <1>4, <4>1
      <4> QED BY <3>1, <4>2
    <3>2. CASE ~ (j <= s)
      <4> DEFINE i == j - s
      <4>1. i \in 1 .. Len(Y)
        BY <1>1, <1>2, <3>2 DEF y
      <4> HIDE DEF i
      <4>2. Y[i] \in Byte
        BY <1>1, <4>1, SMTT(30)
      <4> QED BY <3>2, <4>2 DEF i
    <3> QED BY <3>1, <3>2
  <2>2. X \in [1 .. s + y -> Byte]
    BY <2>1
  <2>3. s + y \in Nat
    BY <1>1, <1>2
  <2>4. X \in Seq(Byte) /\ Len(X) = s + y
    <3> DEFINE k == s + y
    <3>1. X \in [1 .. k -> Byte] /\ k \in Nat
      BY <2>2, <2>3
    <3> HIDE DEF X, k
    <3>2. X \in Seq(Byte) /\ Len(X) = k
      BY ONLY <3>1
    <3> QED BY <3>2 DEF k
  <2>5. \A j \in 1 .. s : j \in 1 .. s + y /\ j <= s
    BY <1>1, <1>2
  <2>6. \A j \in 1 .. y : s + j \in 1 .. s + y /\ ~ (s + j <= s) /\ (s + j) - s = j
    BY <1>1, <1>2
  <2>7. \A j \in 1 .. s : X[j] = fill[j]
    BY <2>5
  <2>8. \A j \in 1 .. y : X[s + j] = Y[j]
    BY <2>6
  <2> QED BY <2>4, <2>7, <2>8
<1> HIDE DEF X
<1>8. Decoded(X, fill, s, Y)
  BY <1>7 DEF Decoded, y
<1>9. Clean(X)
  <2>1. b \in 0 .. Len(D) /\ Len(X) = Len(D) - b
    BY <1>1, <1>2, <1>7 DEF L
  <2>2. ASSUME NEW j \in 1 .. Len(X)
        PROVE  X[j] = D[b + j] \/ (j = 1 /\ X[1] \in {1, 2})
    <3>1. CASE j <= s
      <4>1. j \in 1 .. s /\ j \in 1 .. p
        BY <1>1, <3>1
      <4>2. X[j] = buf[j]
        BY <1>4, <1>7, <4>1
      <4> QED BY <1>1a, <4>1, <4>2
    <3>2. CASE ~ (j <= s)
      <4> DEFINE i == j - s
      <4>1. i \in 1 .. y /\ s + i = j /\ b + s + i = b + j
        BY <1>1, <1>2, <1>7, <3>2
      <4>1a. i = 1 /\ s = 0 => j = 1
        BY <1>1
      <4> HIDE DEF i
      <4>2. X[j] = Y[i] /\ D[b + s + i] = D[b + j]
        BY <1>7, <4>1
      <4>3. Y[i] = D[b + s + i] \/ (i = 1 /\ s = 0 /\ Y[1] \in {1, 2})
        BY <1>1b, <4>1
      <4> QED BY <4>1a, <4>2, <4>3
    <3> QED BY <3>1, <3>2
  <2> QED BY <1>7, <2>1, <2>2, CleanRest
<1>10. m \in 0 .. Len(T)
  BY <1>1, <1>2, <1>5
<1>11. Undone(ES_opt_recv(fill), fill, s, T, Y, c, m, N)
  <2>1. /\ N \in Nat /\ s \in Nat /\ T \in Seq(Byte) /\ Y \in Seq(Byte) /\ Carries(T, Y, c)
        /\ m \in 0 .. Len(T)
    BY <1>1, <1>2, <1>5, <1>10
  <2> QED BY ONLY <1>6, <1>8, <1>9, <2>1, ReadUnescape
<1>12. ASSUME NEW j \in 1 .. N
       PROVE  Arrived(s, T, Y, c, m, fill, j) = Arrived(s, T, Y, c, m, buf, j)
  <2>1. CASE j <= s
    <3>1. j \in 1 .. p
      BY <1>1, <1>2, <2>1
    <3> QED BY <1>4, <2>1, <3>1 DEF Arrived
  <2>2. CASE ~ (j <= s)
    BY <2>2 DEF Arrived
  <2> QED BY <2>1, <2>2
<1> QED BY <1>11, <1>12 DEF Undone, N

(* A read that has room keeps hold of the stream.                           *)
LEMMA ReadHolding ==
  ASSUME NEW D \in Seq(Byte), NEW buf \in Seq(Byte), NEW got,
         NEW w \in Seq(Byte), NEW p, NEW b, NEW s, NEW half, NEW Y, NEW c,
         Holding(D, buf, p, w, b, s, half, Y, c),
         NEW n \in 1 .. Len(w), p + n < BUF_MAX,
         NEW T, T = Held(half) \o w, NEW m, m = half + n,
         Undone(got, buf, s, T, Y, c, m, BUF_MAX),
         NEW v, v = SubSeq(w, n + 1, Len(w))
  PROVE  \E z, h, Z, e : Holding(D, got.buf, p + n - got.removed, v, b, z, h, Z, e)
<1> DEFINE N == BUF_MAX
           L == Len(D)
           y == Len(Y)
           d == c[m]
           f == got.buf
           p2 == p + n - got.removed
<1>1. /\ b \in Nat /\ s \in Nat /\ half \in {0, 1} /\ b + s <= L
      /\ p = s + half /\ p < N
      /\ Y \in Seq(Byte) /\ y = L - (b + s)
      /\ Carries(T, Y, c)
  BY DEF Holding
<1>1a. \A j \in 1 .. s : buf[j] = D[b + j] \/ (j = 1 /\ buf[1] \in {1, 2})
  BY DEF Holding
<1>1b. \A j \in 1 .. y : Y[j] = D[b + s + j] \/ (j = 1 /\ s = 0 /\ Y[1] \in {1, 2})
  BY DEF Holding
<1>2. N \in Nat /\ Len(w) \in Nat /\ n \in Nat /\ y \in Nat /\ L \in Nat
  BY <1>1, ReceiverAssumption, SMTT(30)
<1>3. /\ d \in 0 .. y /\ d <= m /\ got.removed = m - d
      /\ \A j \in 1 .. N : f[j] = Arrived(s, T, Y, c, m, buf, j)
  BY DEF Undone
<1>4. After(T, Y, d, m, v)
  <2>1. /\ half \in {0, 1} /\ Y \in Seq(Byte) /\ Carries(T, Y, c) /\ w \in Seq(Byte)
        /\ T = Held(half) \o w /\ m = half + n /\ d = c[m] /\ n \in 1 .. Len(w)
        /\ v = SubSeq(w, n + 1, Len(w))
    BY <1>1
  <2> QED BY ONLY <2>1, LineAfter
<1> HIDE DEF N, L, y, d, f
<1>5. p2 = s + d /\ s + d < N
  BY <1>1, <1>2, <1>3 DEF N
<1> HIDE DEF p2
<1>6. ASSUME NEW j \in 1 .. s + d, T[m] = FE => j # s + d
      PROVE  f[j] = D[b + j] \/ (j = 1 /\ f[1] \in {1, 2})
  <2>1. j \in 1 .. N
    BY <1>1, <1>2, <1>3, <1>5
  <2>2. f[j] = Arrived(s, T, Y, c, m, buf, j)
    BY <1>3, <2>1
  <2>3. CASE j <= s
    <3>1. f[j] = buf[j]
      BY <2>2, <2>3 DEF Arrived
    <3>2. j \in 1 .. s
      BY <2>3
    <3> QED BY <1>1a, <3>1, <3>2
  <2>4. CASE ~ (j <= s)
    <3> DEFINE i == j - s
    <3>1. i \in 1 .. y /\ b + s + i = b + j /\ (i = 1 /\ s = 0 => j = 1)
      BY <1>1, <1>2, <1>3, <2>4
    <3>2. ~ (j > s + d) /\ ~ (j = s + d /\ T[m] = FE)
      <4>1. s \in Nat /\ d \in Nat
        BY <1>1, <1>2, <1>3
      <4>2. ~ (j > s + d)
        BY <4>1
      <4>3. ~ (j = s + d /\ T[m] = FE)
        BY <1>6, Zenon
      <4> QED BY <4>2, <4>3
    <3>3. f[j] = Y[i]
      BY <2>2, <2>4, <3>2 DEF Arrived, d
    <3> HIDE DEF i
    <3>4. Y[i] = D[b + s + i] \/ (i = 1 /\ s = 0 /\ Y[1] \in {1, 2})
      BY <1>1b, <3>1
    <3>5. D[b + s + i] = D[b + j]
      BY <3>1
    <3> QED BY <3>1, <3>3, <3>4, <3>5
  <2> QED BY <2>3, <2>4
<1>7. ASSUME NEW j \in p2 + 1 .. N PROVE f[j] = 0
  <2>1. j \in 1 .. N /\ ~ (j <= s) /\ j > s + d
    BY <1>1, <1>2, <1>3, <1>5
  <2>2. f[j] = Arrived(s, T, Y, c, m, buf, j)
    BY <1>3, <2>1
  <2> QED BY <2>1, <2>2 DEF Arrived, d
<1>8. CASE T[m] # FE
  <2> DEFINE Z == SubSeq(Y, d + 1, Len(Y))
             z == s + d
  <2>1. PICK e : Carries(v, Z, e)
    BY <1>4, <1>8 DEF After
  <2>2. /\ Z \in Seq(Byte) /\ Len(Z) = L - (b + s + d)
        /\ b + s + d <= L
        /\ \A j \in 1 .. Len(Z) : Z[j] = D[b + s + d + j]
                                  \/ (j = 1 /\ s + d = 0 /\ Z[1] \in {1, 2})
    <3>1. d \in 0 .. Len(Y)
      BY <1>3 DEF y
    <3>2. ToCome(D, b + s + d, s + d, Z)
      BY <3>1, StillToCome
    <3> QED BY <3>2 DEF ToCome, L
  <2> HIDE DEF Z
  <2>3. v \in Seq(Byte) /\ Held(0) \o v = v
    <3>1. v \in Seq(Byte)
      BY <1>2
    <3> QED BY <3>1 DEF Held
  <2>4. z \in Nat /\ b + z = b + s + d /\ p2 = z + 0 /\ p2 < N
    BY <1>1, <1>3, <1>5
  <2>5. \A j \in 1 .. z : f[j] = D[b + j] \/ (j = 1 /\ f[1] \in {1, 2})
    BY <1>6, <1>8
  <2> HIDE DEF z
  <2>6. /\ Len(Z) = L - (b + z) /\ b + z <= L
        /\ \A j \in 1 .. Len(Z) : Z[j] = D[b + z + j] \/ (j = 1 /\ z = 0 /\ Z[1] \in {1, 2})
    BY <2>2, <2>4 DEF z
  <2>7. Holding(D, f, p2, v, b, z, 0, Z, e)
    <3>1. /\ b \in Nat /\ z \in Nat /\ 0 \in {0, 1}
          /\ b + z <= Len(D)
          /\ p2 = z + 0 /\ p2 < BUF_MAX
      BY <1>1, <2>4, <2>6 DEF L, N
    <3>2. 0 = 1 => f[z + 1] = FE
      OBVIOUS
    <3>3. \A j \in p2 + 1 .. BUF_MAX : f[j] = 0
      BY <1>7 DEF N
    <3>4. /\ Z \in Seq(Byte) /\ Len(Z) = Len(D) - (b + z)
          /\ \A j \in 1 .. Len(Z) : Z[j] = D[b + z + j] \/ (j = 1 /\ z = 0 /\ Z[1] \in {1, 2})
      BY <2>2, <2>6 DEF L
    <3>5. Carries(Held(0) \o v, Z, e)
      BY <2>1, <2>3
    <3> QED BY ONLY <2>5, <3>1, <3>2, <3>3, <3>4, <3>5 DEF Holding
  <2> QED BY <2>7 DEF f, p2
<1>9. CASE T[m] = FE
  <2> DEFINE r == d - 1
             Z == SubSeq(Y, d, Len(Y))
             z == s + r
  <2>1. PICK e : Carries(<<FE>> \o v, Z, e)
    BY <1>4, <1>9 DEF After
  <2>2. d \in 1 .. y
    BY <1>4, <1>9 DEF After, y
  <2>3. /\ Z \in Seq(Byte) /\ Len(Z) = L - (b + s + r)
        /\ b + s + r <= L
        /\ \A j \in 1 .. Len(Z) : Z[j] = D[b + s + r + j]
                                  \/ (j = 1 /\ s + r = 0 /\ Z[1] \in {1, 2})
    <3>1. r \in 0 .. Len(Y) /\ r + 1 = d
      BY <1>2, <2>2 DEF y
    <3> HIDE DEF r
    <3>2. Z = SubSeq(Y, r + 1, Len(Y))
      BY <3>1
    <3> HIDE DEF Z
    <3>3. ToCome(D, b + s + r, s + r, Z)
      BY <3>1, <3>2, StillToCome
    <3> QED BY <3>3 DEF ToCome, L
  <2> HIDE DEF Z
  <2>4. Held(1) \o v = <<FE>> \o v
    BY DEF Held
  <2>5. z \in Nat /\ b + z = b + s + r /\ p2 = z + 1 /\ p2 < N /\ z + 1 = s + d
    BY <1>1, <1>3, <1>5, <2>2
  <2>6. \A j \in 1 .. z : f[j] = D[b + j] \/ (j = 1 /\ f[1] \in {1, 2})
    <3> TAKE j \in 1 .. z
    <3>1. j \in 1 .. s + d /\ j # s + d
      BY <2>5
    <3> QED BY <1>6, <3>1
  <2>7. f[z + 1] = FE
    <3>1. s + d \in 1 .. N /\ ~ (s + d <= s) /\ ~ (s + d > s + d)
      BY <1>1, <1>2, <1>5, <2>2
    <3>2. f[s + d] = Arrived(s, T, Y, c, m, buf, s + d)
      BY <1>3, <3>1
    <3>3. Arrived(s, T, Y, c, m, buf, s + d) = FE
      BY <1>9, <3>1 DEF Arrived, d
    <3> QED BY <2>5, <3>2, <3>3
  <2> HIDE DEF z
  <2>8. /\ Len(Z) = L - (b + z) /\ b + z <= L
        /\ \A j \in 1 .. Len(Z) : Z[j] = D[b + z + j] \/ (j = 1 /\ z = 0 /\ Z[1] \in {1, 2})
    BY <2>3, <2>5 DEF z
  <2>9. Holding(D, f, p2, v, b, z, 1, Z, e)
    BY <1>1, <1>7, <2>1, <2>3, <2>4, <2>5, <2>6, <2>7, <2>8 DEF Holding, L, N
  <2> QED BY <2>9 DEF f, p2
<1> QED BY <1>8, <1>9

(* A buffer that would be full is emptied: what it had is lost.             *)
LEMMA ResetHolding ==
  ASSUME NEW D \in Seq(Byte), NEW buf \in Seq(Byte), BUF_MAX > 0,
         NEW w \in Seq(Byte), NEW p, NEW b, NEW s, NEW half, NEW Y, NEW c,
         Holding(D, buf, p, w, b, s, half, Y, c),
         NEW n \in 1 .. Len(w), NEW v, v = SubSeq(w, n + 1, Len(w))
  PROVE  \E a, Z, e : a >= b /\ Holding(D, Zeros(BUF_MAX), 0, v, a, 0, 0, Z, e)
<1> DEFINE N == BUF_MAX
           L == Len(D)
           y == Len(Y)
           T == Held(half) \o w
           m == half + n
           d == c[m]
           f == Zeros(N)
<1>1. /\ b \in Nat /\ s \in Nat /\ half \in {0, 1} /\ b + s <= L
      /\ Y \in Seq(Byte) /\ y = L - (b + s)
      /\ Carries(T, Y, c)
  BY DEF Holding
<1>2. N \in Nat /\ y \in Nat /\ L \in Nat
  BY <1>1, ReceiverAssumption
<1>3. v \in Seq(Byte) /\ Held(0) \o v = v
  <2>1. v \in Seq(Byte)
    OBVIOUS
  <2> QED BY <2>1 DEF Held
<1>4. After(T, Y, d, m, v)
  <2>1. /\ half \in {0, 1} /\ Y \in Seq(Byte) /\ Carries(T, Y, c) /\ w \in Seq(Byte)
        /\ T = Held(half) \o w /\ m = half + n /\ d = c[m] /\ n \in 1 .. Len(w)
        /\ v = SubSeq(w, n + 1, Len(w))
    BY <1>1
  <2> QED BY ONLY <2>1, LineAfter
<1>5. \A j \in 0 + 1 .. N : f[j] = 0
  BY DEF Zeros
<1> HIDE DEF N, L, y, T, m, d, f
<1>6. d \in 0 .. y
  BY <1>4 DEF After, y
<1> DEFINE R == SubSeq(Y, d + 1, Len(Y))
           g == b + s + d
<1>7. /\ R \in Seq(Byte) /\ Len(R) = L - g /\ g <= L
      /\ \A j \in 1 .. Len(R) : R[j] = D[g + j] \/ (j = 1 /\ s + d = 0 /\ R[1] \in {1, 2})
  <2>1. d \in 0 .. Len(Y)
    BY <1>6 DEF y
  <2>2. ToCome(D, b + s + d, s + d, R)
    BY <2>1, StillToCome
  <2> QED BY <2>2 DEF ToCome, L
<1>8. g \in Nat /\ g >= b
  BY <1>1, <1>6
<1> HIDE DEF R
<1>9. CASE T[m] # FE
  <2>1. PICK e : Carries(v, R, e)
    BY <1>4, <1>9 DEF After, R
  <2> HIDE DEF g
  <2>2. Holding(D, f, 0, v, g, 0, 0, R, e)
    <3>1. g + 0 = g /\ 0 + 0 = 0 /\ 0 < N
      BY <1>8 DEF N
    <3>2. \A j \in 1 .. 0 : f[j] = D[g + j] \/ (j = 1 /\ f[1] \in {1, 2})
      OBVIOUS
    <3>3. /\ g \in Nat /\ 0 \in Nat /\ 0 \in {0, 1}
          /\ g + 0 <= Len(D)
          /\ 0 = 0 + 0 /\ 0 < BUF_MAX
      BY <1>7, <1>8, <3>1 DEF L, N
    <3>4. 0 = 1 => f[0 + 1] = FE
      OBVIOUS
    <3>5. \A j \in 0 + 1 .. BUF_MAX : f[j] = 0
      BY <1>5 DEF N
    <3>6. /\ R \in Seq(Byte) /\ Len(R) = Len(D) - (g + 0)
          /\ \A j \in 1 .. Len(R) : R[j] = D[g + 0 + j] \/ (j = 1 /\ 0 = 0 /\ R[1] \in {1, 2})
      BY <1>7, <3>1 DEF L
    <3>7. Carries(Held(0) \o v, R, e)
      BY <1>3, <2>1
    <3> QED BY ONLY <3>2, <3>3, <3>4, <3>5, <3>6, <3>7 DEF Holding
  <2> QED BY <1>8, <2>2 DEF f, N
<1>10. CASE T[m] = FE
  <2>0. PICK t \in {1, 2} : \E e : Carries(v, <<t>> \o R, e)
    BY <1>4, <1>10 DEF After, R
  <2>1. PICK e : Carries(v, <<t>> \o R, e)
    BY <2>0
  <2>2. d \in 1 .. y
    BY <1>4, <1>10 DEF After, y
  <2> DEFINE h == <<t>>
             Z == h \o R
             a == g - 1
  <2>3. h \in Seq(Byte) /\ Len(h) = 1 /\ h[1] = t
    <3>1. t \in Byte
      BY DEF Byte
    <3> QED BY <3>1
  <2> HIDE DEF h, g
  <2>4. /\ Z \in Seq(Byte) /\ Len(Z) = Len(h) + Len(R)
        /\ \A j \in 1 .. Len(h) : Z[j] = h[j]
        /\ \A j \in 1 .. Len(R) : Z[Len(h) + j] = R[j]
    BY <1>7, <2>3, Joined
  <2> HIDE DEF Z
  <2>5. a \in Nat /\ a >= b /\ a + 1 = g /\ a + 0 = a /\ a <= L /\ s + d # 0
    <3>1. g = b + s + d
      BY DEF g
    <3>2. g \in Nat /\ g <= L /\ g >= b /\ L \in Nat
      BY <1>2, <1>7, <1>8
    <3>3. b \in Nat /\ s \in Nat /\ d \in Nat /\ d >= 1
      BY <1>1, <1>2, <2>2
    <3> QED BY <3>1, <3>2, <3>3
  <2>6. Len(Z) = L - a
    BY <1>2, <1>7, <1>8, <2>3, <2>4
  <2> HIDE DEF a
  <2>7. \A j \in 1 .. Len(Z) : Z[j] = D[a + j] \/ (j = 1 /\ Z[1] \in {1, 2})
    <3> TAKE j \in 1 .. Len(Z)
    <3>1. CASE j = 1
      BY <2>3, <2>4, <3>1
    <3>2. CASE j # 1
      <4> DEFINE i == j - 1
      <4>1. i \in 1 .. Len(R) /\ 1 + i = j /\ g + i = a + j
        BY <1>2, <1>7, <1>8, <2>5, <2>6, <3>2
      <4> HIDE DEF i
      <4>2. Z[1 + i] = R[i] /\ R[i] = D[g + i]
        BY <1>7, <2>3, <2>4, <2>5, <4>1
      <4> QED BY <4>1, <4>2
    <3> QED BY <3>1, <3>2
  <2>8. Carries(Held(0) \o v, Z, e)
    BY <1>3, <2>1 DEF Z, h
  <2>9. Holding(D, f, 0, v, a, 0, 0, Z, e)
    <3>1. 0 + 0 = 0 /\ 0 < N
      BY DEF N
    <3>2. \A j \in 1 .. 0 : f[j] = D[a + j] \/ (j = 1 /\ f[1] \in {1, 2})
      OBVIOUS
    <3>3. /\ a \in Nat /\ 0 \in Nat /\ 0 \in {0, 1}
          /\ a + 0 <= Len(D)
          /\ 0 = 0 + 0 /\ 0 < BUF_MAX
      BY <2>5, <3>1 DEF L, N
    <3>4. 0 = 1 => f[0 + 1] = FE
      OBVIOUS
    <3>5. \A j \in 0 + 1 .. BUF_MAX : f[j] = 0
      BY <1>5 DEF N
    <3>6. /\ Z \in Seq(Byte) /\ Len(Z) = Len(D) - (a + 0)
          /\ \A j \in 1 .. Len(Z) : Z[j] = D[a + 0 + j] \/ (j = 1 /\ 0 = 0 /\ Z[1] \in {1, 2})
      BY <2>4, <2>5, <2>6, <2>7 DEF L
    <3> QED BY ONLY <3>2, <3>3, <3>4, <3>5, <3>6, <2>8 DEF Holding
  <2> QED BY <2>5, <2>9 DEF f, N
<1> QED BY <1>9, <1>10

(* Half an escape in the buffer: its byte is the next of the stream.        *)
LEMMA HalfNext ==
  ASSUME NEW D \in Seq(Byte), NEW buf, NEW w \in Seq(Byte), NEW p, NEW b, NEW s, NEW Y, NEW c,
         Holding(D, buf, p, w, b, s, 1, Y, c)
  PROVE  /\ b + s < Len(D) /\ D[b + s + 1] \in {FA, FE}
         /\ \E t \in {1, 2} : \E e : Carries(w, <<t>> \o SubSeq(Y, 2, Len(Y)), e)
<1> DEFINE h == <<FE>>
           T == h \o w
<1>1. Y \in Seq(Byte) /\ Carries(T, Y, c) /\ b \in Nat /\ s \in Nat
  BY DEF Holding, Held
<1>1a. \A j \in 1 .. Len(Y) : Y[j] = D[b + s + j] \/ (j = 1 /\ s = 0 /\ Y[1] \in {1, 2})
  BY DEF Holding
<1>1b. Len(Y) = Len(D) - (b + s)
  BY DEF Holding
<1>2. h \in Seq(Byte) /\ Len(h) = 1 /\ h[1] = FE
  BY Marks
<1> HIDE DEF h
<1>3. /\ T \in Seq(Byte) /\ Len(T) = 1 + Len(w)
      /\ T[1] = FE
  <2>1. /\ T \in Seq(Byte) /\ Len(T) = Len(h) + Len(w)
        /\ \A j \in 1 .. Len(h) : T[j] = h[j]
    BY <1>2, Joined
  <2> HIDE DEF T
  <2> QED BY <1>2, <2>1
<1> DEFINE a == Len(w)
<1>4. a \in Nat
  OBVIOUS
<1> HIDE DEF T, a
<1>5. 1 \in 1 .. Len(T)
  BY <1>3, <1>4 DEF a
<1>6. HalfAt(T, Y, c, 1)
  BY <1>1, <1>3, <1>5, HalfCarried
<1>7. c[1] = 1
  <2>1. c[0] = 0
    BY <1>1 DEF Carries, Holds
  <2>2. 1 - 1 = 0 /\ 0 + 1 = 1
    OBVIOUS
  <2> QED BY <1>6, <2>1, <2>2 DEF HalfAt
<1>8. T[2] \in {1, 2} /\ 1 \in 1 .. Len(Y) /\ Y[1] \in {FA, FE}
  <2>1. 1 + 1 = 2
    OBVIOUS
  <2> QED BY <1>6, <1>7, <2>1 DEF HalfAt
<1>9. b + s < Len(D) /\ D[b + s + 1] \in {FA, FE}
  <2>1. Y[1] = D[b + s + 1]
    BY <1>1a, <1>8, Marks
  <2>2. b + s < Len(D)
    <3> DEFINE y == Len(Y)
               L == Len(D)
    <3>1. 1 \in 1 .. y /\ y = L - (b + s) /\ L \in Nat
      BY <1>1b, <1>8
    <3> HIDE DEF y, L
    <3>2. b + s < L
      BY <1>1, <3>1
    <3> QED BY <3>2 DEF L
  <2> QED BY <1>8, <2>1, <2>2
<1>10. SubSeq(T, 2, Len(T)) = w
  <2>1. Tail(T) = w
    <3>1. T = <<FE>> \o w
      BY DEF T, h
    <3> QED BY <3>1
  <2>2. Tail(T) = SubSeq(T, 2, Len(T))
    BY <1>3
  <2> QED BY <2>1, <2>2
<1>11. \E e : Carries(SubSeq(T, 2, Len(T)), <<T[2]>> \o SubSeq(Y, 2, Len(Y)), e)
  <2>1. \E e : Carries(SubSeq(T, 1 + 1, Len(T)), <<T[1 + 1]>> \o SubSeq(Y, c[1] + 1, Len(Y)), e)
    BY <1>1, <1>3, <1>5, CarriesSplit
  <2>2. 1 + 1 = 2
    OBVIOUS
  <2> QED BY <1>7, <2>1, <2>2
<1> QED BY <1>8, <1>9, <1>10, <1>11

(* Where the buffer passes, the stream does, and a frame stands there.      *)
Stands(before, frames, buf, p, b, i, k) ==
  /\ k \in DOMAIN frames
  /\ b + i = Before(before, frames, k) + 1
  /\ At(buf, i + 5) = Len(frames[k])
  /\ i + Len(frames[k]) - 1 <= p
  /\ \A j \in DOMAIN frames[k] : At(buf, i + j - 1) = frames[k][j]

(* CheckTells says so of what has been read of the stream; the zeros behind *)
(* it change nothing.                                                       *)
LEMMA FrameStands ==
  ASSUME NEW before \in Seq(Byte), NEW frames \in Seq(Seq(Byte)),
         CheckTells(before, frames),
         NEW D, D = Stream(before, frames), NEW buf \in Seq(Byte), Len(buf) = BUF_MAX,
         NEW w \in Seq(Byte), NEW p, NEW b, NEW s, NEW half, NEW Y, NEW c,
         Holding(D, buf, p, w, b, s, half, Y, c),
         NEW i \in 1 .. BUF_MAX, Passes(buf, i)
  PROVE  i <= s /\ \E k : Stands(before, frames, buf, p, b, i, k)
<1> DEFINE m == b + s
           q == Seen(D, m, half = 1)
           N == BUF_MAX
           L == Len(D)
<1>1. /\ b \in Nat /\ s \in Nat /\ half \in {0, 1} /\ b + s <= L
      /\ p = s + half /\ p < N
      /\ half = 1 => buf[s + 1] = FE
      /\ \A j \in p + 1 .. N : buf[j] = 0
  BY DEF Holding
<1>1a. \A j \in 1 .. s : buf[j] = D[b + j] \/ (j = 1 /\ buf[1] \in {1, 2})
  BY DEF Holding
<1>2. D \in Seq(Byte)
  BY FramePlaces
<1>3. N \in Nat /\ L \in Nat
  BY <1>2, ReceiverAssumption
<1>4. half = 1 => m < L /\ D[m + 1] \in {FA, FE}
  <2> SUFFICES ASSUME half = 1 PROVE m < L /\ D[m + 1] \in {FA, FE}
    OBVIOUS
  <2>1. Holding(D, buf, p, w, b, s, 1, Y, c)
    OBVIOUS
  <2> QED BY <1>2, <2>1, HalfNext
<1>5. buf[i] = FA
  BY DEF Passes
<1>6. i <= s
  <2>1. CASE i = s + 1 /\ half = 1
    BY <1>1, <1>5, <2>1, Marks
  <2>2. CASE i > p
    <3>1. i \in p + 1 .. N
      BY <1>1, <1>3, <2>2
    <3> QED BY <1>1, <1>5, <3>1, Marks
  <2> QED BY <1>1, <2>1, <2>2
<1>7. /\ q \in Seq(Byte) /\ Len(q) = m + half
      /\ \A j \in 1 .. m : q[j] = D[j]
      /\ half = 1 => q[m + 1] = FE
  <2> DEFINE a == SubSeq(D, 1, m)
             h == IF half = 1 THEN <<FE>> ELSE <<>>
  <2>1. a \in Seq(Byte) /\ Len(a) = m /\ \A j \in 1 .. m : a[j] = D[j]
    <3>1. 1 \in Nat \ {0} /\ m \in Int /\ m <= Len(D)
      BY <1>1
    <3> HIDE DEF m
    <3>2. /\ a \in Seq(Byte) /\ Len(a) = (IF 1 <= m THEN m - 1 + 1 ELSE 0)
          /\ \A j \in 1 .. m - 1 + 1 : a[j] = D[1 + j - 1]
      BY <1>2, <3>1, Cutout
    <3> HIDE DEF a
    <3>3. m \in Nat
      BY <1>1 DEF m
    <3>4. m - 1 + 1 = m /\ \A j \in 1 .. m : 1 + j - 1 = j
      BY <3>3
    <3>5. Len(a) = m
      BY <3>2, <3>3
    <3> QED BY <3>2, <3>4, <3>5
  <2>2. h \in Seq(Byte) /\ Len(h) = half /\ (half = 1 => h[1] = FE)
    BY <1>1, Marks
  <2>3. q = a \o h
    BY DEF Seen
  <2> HIDE DEF a, h, q, m
  <2>4. /\ q \in Seq(Byte) /\ Len(q) = Len(a) + Len(h)
        /\ \A j \in 1 .. Len(a) : q[j] = a[j]
        /\ \A j \in 1 .. Len(h) : q[Len(a) + j] = h[j]
    <3> DEFINE x == a \o h
    <3>1. /\ x \in Seq(Byte) /\ Len(x) = Len(a) + Len(h)
          /\ \A j \in 1 .. Len(a) : x[j] = a[j]
          /\ \A j \in 1 .. Len(h) : x[Len(a) + j] = h[j]
      BY <2>1, <2>2, Joined
    <3>2. x = q
      BY <2>3
    <3> HIDE DEF x
    <3> QED BY ONLY <3>1, <3>2, Zenon
  <2>5. half = 1 => q[m + 1] = FE
    BY <2>1, <2>2, <2>4
  <2> QED BY <2>1, <2>2, <2>4, <2>5
<1> HIDE DEF q, N, L
<1>7a. b \in Nat /\ s \in Nat /\ half \in {0, 1} /\ p = s + half
  BY <1>1
<1>8. DOMAIN q = 1 .. b + p /\ DOMAIN buf = 1 .. N /\ b + i \in DOMAIN q
  <2>1. Len(q) = b + p
    BY <1>1, <1>7
  <2>2. DOMAIN q = 1 .. Len(q)
    BY <1>7
  <2>3. b + i \in 1 .. b + p
    BY <1>1, <1>6
  <2> QED BY <2>1, <2>2, <2>3 DEF N
<1>9. ASSUME NEW j \in Nat, j >= i PROVE At(buf, j) = At(q, b + j)
  <2>1. CASE j <= s
    <3>1. j \in DOMAIN buf /\ b + j \in DOMAIN q /\ j \in 1 .. s /\ b + j \in 1 .. m
      BY <1>1, <1>3, <1>8, <2>1, <1>9
    <3>2. buf[j] = D[b + j]
      <4>1. CASE j = 1 /\ buf[1] \in {1, 2}
        <5>1. i = 1
          BY <1>9, <4>1
        <5> QED BY <1>5, <4>1, <5>1, Marks
      <4> QED BY <1>1a, <3>1, <4>1
    <3> QED BY <1>7, <3>1, <3>2 DEF At
  <2>2. CASE j = s + 1 /\ half = 1
    <3>1. j \in DOMAIN buf /\ b + j \in DOMAIN q /\ b + j = m + 1
      BY <1>1, <1>3, <1>8, <2>2
    <3> QED BY <1>1, <1>7, <2>2, <3>1 DEF At
  <2>3. CASE j > p
    <3>1. b + j \notin DOMAIN q
      BY <1>1, <1>8, <2>3
    <3>2. j \in DOMAIN buf => j \in p + 1 .. N
      BY <1>8, <1>3, <1>1, <2>3
    <3> QED BY <1>1, <3>1, <3>2 DEF At
  <2> QED BY <1>1, <2>1, <2>2, <2>3
<1>10. Passes(q, b + i)
  <2> DEFINE n == At(buf, i + 5)
  <2>1. n = At(q, b + i + 5)
    BY <1>1, <1>9
  <2>2. n \in 1 .. DATA_MAX - 1
        /\ At(buf, i + n - 1) = XOR_check[[j \in 1 .. n - 1 |-> At(buf, i + j - 1)]]
    BY DEF Passes
  <2> HIDE DEF n
  <2>3. At(buf, i + n - 1) = At(q, b + i + n - 1)
    <3>1. n \in Nat /\ n >= 1
      BY <2>2 DEF DATA_MAX
    <3> DEFINE j == i + n - 1
    <3>2. j \in Nat /\ j >= i /\ b + j = b + i + n - 1
      BY <1>1, <3>1
    <3> HIDE DEF j
    <3>3. At(buf, j) = At(q, b + j)
      BY <1>9, <3>2
    <3> QED BY <3>2, <3>3 DEF j
  <2>4. [j \in 1 .. n - 1 |-> At(buf, i + j - 1)] = [j \in 1 .. n - 1 |-> At(q, b + i + j - 1)]
    <3>1. ASSUME NEW j \in 1 .. n - 1 PROVE At(buf, i + j - 1) = At(q, b + i + j - 1)
      <4> DEFINE h == i + j - 1
      <4>1. h \in Nat /\ h >= i /\ b + h = b + i + j - 1
        BY <1>1
      <4> HIDE DEF h
      <4>2. At(buf, h) = At(q, b + h)
        BY <1>9, <4>1
      <4> QED BY <4>1, <4>2 DEF h
    <3> QED BY <3>1
  <2>5. q[b + i] = FA
    <3>1. At(buf, i) = At(q, b + i)
      BY <1>9
    <3>2. i \in DOMAIN buf
      BY <1>8 DEF N
    <3> QED BY <1>5, <1>8, <3>1, <3>2 DEF At
  <2>6. At(q, b + i + n - 1) = XOR_check[[j \in 1 .. n - 1 |-> At(q, b + i + j - 1)]]
    BY <2>2, <2>3, <2>4
  <2> QED BY ONLY <2>1, <2>2, <2>5, <2>6 DEF Passes
<1>11. m \in 0 .. Len(Stream(before, frames))
  BY <1>1, <1>3 DEF L
<1>12. PICK k \in DOMAIN frames :
         /\ b + i = Before(before, frames, k) + 1
         /\ At(q, b + i + 5) = Len(frames[k])
         /\ b + i + Len(frames[k]) - 1 <= Len(q)
         /\ \A j \in DOMAIN frames[k] : q[b + i + j - 1] = frames[k][j]
  BY <1>4, <1>8, <1>10, <1>11 DEF CheckTells, q, L
<1>13. At(buf, i + 5) = Len(frames[k])
  <2>1. i + 5 \in Nat /\ i + 5 >= i /\ b + (i + 5) = b + i + 5
    BY <1>1
  <2>2. At(buf, i + 5) = At(q, b + (i + 5))
    BY <1>9, <2>1
  <2> QED BY <1>12, <2>1, <2>2
<1> DEFINE f == frames[k]
           z == Len(f)
<1>14. z \in Nat /\ DOMAIN f = 1 .. z
  BY <1>12
<1> HIDE DEF f, z
<1>15. i + z - 1 <= p
  <2>1. b + i + z - 1 <= Len(q)
    BY <1>12 DEF z, f
  <2> QED BY <1>1, <1>7, <1>14, <2>1
<1>16. \A j \in DOMAIN f : At(buf, i + j - 1) = f[j]
  <2> TAKE j \in DOMAIN f
  <2> DEFINE h == i + j - 1
  <2>1. h \in Nat /\ h >= i /\ b + h = b + i + j - 1 /\ b + h \in DOMAIN q
    <3>1. j \in 1 .. z
      BY <1>14
    <3>2. h \in Nat /\ h >= i /\ h <= p /\ b + h = b + i + j - 1 /\ h >= 1
      <4>1. i \in Nat /\ i >= 1 /\ j \in Nat /\ j >= 1 /\ j <= z
        BY <1>14, <3>1
      <4>2. h <= p /\ h >= i
        BY <1>7a, <1>14, <1>15, <4>1, SMTT(30)
      <4> QED BY <1>7a, <4>1, <4>2, SMTT(30)
    <3> HIDE DEF h
    <3>3. b + h \in 1 .. b + p
      BY <1>1, <3>2
    <3> QED BY <1>8, <3>2, <3>3
  <2>2. q[b + i + j - 1] = f[j]
    BY <1>12 DEF f
  <2> HIDE DEF h
  <2>3. At(buf, h) = At(q, b + h)
    BY <1>9, <2>1
  <2>4. At(q, b + h) = f[j]
    BY <2>1, <2>2 DEF At
  <2> QED BY <2>3, <2>4 DEF h
<1>17. Stands(before, frames, buf, p, b, i, k)
  BY <1>12, <1>13, <1>15, <1>16 DEF Stands, f, z
<1> QED BY <1>6, <1>17

(* What is held then.                                                       *)
HeldOn(D, f, p, w, b, B) ==
  \E a, z, h, Z, e : /\ Holding(D, f, p, w, a, z, h, Z, e)
                     /\ a \in Nat /\ b \in Nat /\ b <= a /\ b <= B /\ B < a

(* A frame is cut out: what is behind it moves up.                          *)
LEMMA CutHolding ==
  ASSUME NEW before \in Seq(Byte), NEW frames \in Seq(Seq(Byte) \ {<<>>}),
         NEW D, D = Stream(before, frames), NEW buf \in Seq(Byte),
         NEW w \in Seq(Byte), NEW p, NEW b, NEW s, NEW half, NEW Y, NEW c,
         Holding(D, buf, p, w, b, s, half, Y, c),
         NEW i \in 1 .. BUF_MAX, i <= s, NEW k, Stands(before, frames, buf, p, b, i, k),
         NEW d, d = i + Len(frames[k]) - 1, NEW f,
         \A j \in 1 .. BUF_MAX : f[j] = IF d + j <= BUF_MAX THEN buf[d + j] ELSE 0
  PROVE  HeldOn(D, f, p - d, w, b, Before(before, frames, k))
<1> DEFINE N == BUF_MAX
           L == Len(D)
           n == Len(frames[k])
           B == Before(before, frames, k)
<1>1. /\ b \in Nat /\ s \in Nat /\ half \in {0, 1} /\ b + s <= L
      /\ p = s + half /\ p < N
      /\ half = 1 => buf[s + 1] = FE
      /\ \A j \in p + 1 .. N : buf[j] = 0
      /\ Y \in Seq(Byte) /\ Len(Y) = L - (b + s)
      /\ Carries(Held(half) \o w, Y, c)
  BY DEF Holding
<1>1a. \A j \in 1 .. s : buf[j] = D[b + j] \/ (j = 1 /\ buf[1] \in {1, 2})
  BY DEF Holding
<1>1b. \A j \in 1 .. Len(Y) : Y[j] = D[b + s + j] \/ (j = 1 /\ s = 0 /\ Y[1] \in {1, 2})
  BY DEF Holding
<1>2. b + i = B + 1 /\ d <= p /\ k \in DOMAIN frames
  BY DEF Stands
<1>3. n \in Nat /\ n >= 1 /\ B \in Nat /\ D \in Seq(Byte)
  <2>1. frames[k] \in Seq(Byte) \ {<<>>} /\ frames \in Seq(Seq(Byte)) /\ k \in 1 .. Len(frames)
    BY <1>2
  <2>2. B \in Nat /\ D \in Seq(Byte)
    BY <2>1, FramePlaces DEF FramePlace
  <2>3. n \in Nat /\ n >= 1
    BY <2>1
  <2> QED BY <2>2, <2>3
<1>4. N \in Nat /\ L \in Nat
  BY <1>3, ReceiverAssumption
<1> HIDE DEF N, L, n, B
<1>4a. /\ b \in Nat /\ s \in Nat /\ half \in {0, 1} /\ b + s <= L
       /\ p = s + half /\ p < N /\ Len(Y) = L - (b + s) /\ i \in Nat /\ i >= 1 /\ i <= s
  BY <1>1
<1>5. d = i + n - 1 /\ d \in Nat /\ d >= 1
  BY <1>3 DEF n
<1>6. \A j \in 1 .. N : f[j] = IF d + j <= N THEN buf[d + j] ELSE 0
  BY DEF N
<1>7. ASSUME NEW j \in p - d + 1 .. N PROVE f[j] = 0
  <2>1. j \in 1 .. N
    BY <1>1, <1>2, <1>4, <1>5
  <2>2. CASE d + j <= N
    <3>1. d + j \in p + 1 .. N
      BY ONLY <1>4, <1>4a, <1>5, <2>1, <2>2, SMTT(30)
    <3> QED BY <1>1, <1>6, <2>1, <2>2, <3>1
  <2>3. CASE ~ (d + j <= N)
    BY <1>6, <2>1, <2>3
  <2> QED BY <2>2, <2>3
<1>8. CASE d <= s
  <2> DEFINE a == b + d
             z == s - d
  <2>1. /\ a \in Nat /\ z \in Nat /\ a + z = b + s /\ p - d = z + half /\ p - d < N
        /\ b <= a /\ b <= B /\ B < a /\ s # 0
    BY ONLY <1>2, <1>3, <1>4, <1>4a, <1>5, <1>8
  <2>2. ASSUME NEW j \in 1 .. z PROVE f[j] = D[a + j]
    <3>1. j \in 1 .. N /\ d + j <= N /\ d + j \in 1 .. s /\ d + j # 1 /\ b + (d + j) = a + j
      BY ONLY <1>4, <1>4a, <1>5, <1>8, SMTT(30)
    <3> HIDE DEF a, z
    <3>2. f[j] = buf[d + j] /\ buf[d + j] = D[b + (d + j)]
      BY <1>1a, <1>6, <3>1
    <3> QED BY <3>1, <3>2
  <2>3. half = 1 => f[z + 1] = FE
    <3> SUFFICES ASSUME half = 1 PROVE f[z + 1] = FE
      OBVIOUS
    <3>1. z + 1 \in 1 .. N /\ d + (z + 1) <= N /\ d + (z + 1) = s + 1
      BY ONLY <1>4, <1>4a, <1>5, <1>8, SMTT(30)
    <3> HIDE DEF z
    <3>2. f[z + 1] = buf[d + (z + 1)]
      BY <1>6, <3>1
    <3> QED BY <1>1, <3>1, <3>2
  <2> HIDE DEF a, z
  <2>4. \A j \in 1 .. Len(Y) : Y[j] = D[a + z + j] \/ (j = 1 /\ z = 0 /\ Y[1] \in {1, 2})
    <3> TAKE j \in 1 .. Len(Y)
    <3>1. Y[j] = D[b + s + j]
      BY <1>1b, <2>1
    <3> QED BY <2>1, <3>1
  <2>5. /\ a \in Nat /\ z \in Nat /\ half \in {0, 1}
        /\ a + z <= Len(D)
        /\ p - d = z + half /\ p - d < BUF_MAX
    BY <1>1, <2>1 DEF L, N
  <2>6. \A j \in 1 .. z : f[j] = D[a + j] \/ (j = 1 /\ f[1] \in {1, 2})
    BY <2>2
  <2>7. \A j \in p - d + 1 .. BUF_MAX : f[j] = 0
    BY <1>7 DEF N
  <2>8. Y \in Seq(Byte) /\ Len(Y) = Len(D) - (a + z)
    BY <1>1, <2>1 DEF L
  <2>9. Holding(D, f, p - d, w, a, z, half, Y, c)
    BY ONLY <1>1, <2>3, <2>4, <2>5, <2>6, <2>7, <2>8 DEF Holding
  <2>10. B < a /\ b <= B /\ b <= a /\ a \in Nat /\ b \in Nat
    BY <1>1, <2>1
  <2> QED BY <2>9, <2>10 DEF B, HeldOn
<1>9. CASE ~ (d <= s)
  <2>1. half = 1 /\ d = s + 1 /\ p - d = 0 /\ 0 < N
    <3>1. d <= p /\ d > s /\ d \in Nat
      BY ONLY <1>2, <1>4a, <1>5, <1>9
    <3>2. s \in Nat /\ half \in {0, 1} /\ p = s + half /\ p < N /\ N \in Nat
      BY <1>4, <1>4a
    <3> QED BY ONLY <3>1, <3>2
  <2> DEFINE m == b + s
             R == SubSeq(Y, 2, Len(Y))
  <2>2. Holding(D, buf, p, w, b, s, 1, Y, c)
    BY <2>1
  <2>3. m < L /\ \E t \in {1, 2} : \E e : Carries(w, <<t>> \o R, e)
    BY <1>3, <2>2, HalfNext DEF L
  <2>0. PICK t \in {1, 2} : \E e : Carries(w, <<t>> \o R, e)
    BY <2>3
  <2>4. PICK e : Carries(w, <<t>> \o R, e)
    BY <2>0
  <2> DEFINE o == <<t>>
             Z == o \o R
  <2>5. o \in Seq(Byte) /\ Len(o) = 1 /\ o[1] = t
    <3>1. t \in Byte
      BY DEF Byte
    <3> QED BY <3>1
  <2>6. ToCome(D, m + 1, s + 1, R)
    <3>1. 1 \in 0 .. Len(Y) /\ 1 + 1 = 2
      BY <1>1, <1>4, <2>3
    <3>2. ToCome(D, b + s + 1, s + 1, R)
      BY <1>3, <2>2, <3>1, StillToCome
    <3> QED BY <3>2
  <2>7. /\ R \in Seq(Byte) /\ Len(R) = L - (m + 1)
        /\ \A j \in 1 .. Len(R) : R[j] = D[m + 1 + j]
    <3>1. s + 1 # 0
      BY <1>1
    <3> QED BY <2>6, <3>1 DEF ToCome, L
  <2>8. m \in Nat /\ m + 0 = m /\ b <= B /\ B < m /\ b <= m
    BY ONLY <1>2, <1>3, <1>4a
  <2> HIDE DEF o, R, m
  <2>9. /\ Z \in Seq(Byte) /\ Len(Z) = Len(o) + Len(R)
        /\ \A j \in 1 .. Len(o) : Z[j] = o[j]
        /\ \A j \in 1 .. Len(R) : Z[Len(o) + j] = R[j]
    BY <2>5, <2>7, Joined
  <2>10. Carries(w, Z, e)
    BY <2>4 DEF o
  <2> HIDE DEF Z
  <2>11. Len(Z) = Len(D) - (m + 0) /\ m + 0 <= Len(D) /\ Len(R) \in Nat
    <3>1. Len(Z) = L - (m + 0) /\ m + 0 <= L /\ Len(R) \in Nat
      <4> DEFINE r == Len(R)
      <4>1. Len(Z) = 1 + r /\ r = L - (m + 1) /\ m < L /\ m \in Nat
        BY <2>3, <2>5, <2>7, <2>8, <2>9
      <4> HIDE DEF r
      <4>2. Len(Z) = L - (m + 0) /\ m + 0 <= L /\ r \in Nat
        BY <1>4, <4>1
      <4> QED BY <4>2 DEF r
    <3> QED BY <3>1 DEF L
  <2>12. \A j \in 1 .. Len(Z) : Z[j] = D[m + 0 + j] \/ (j = 1 /\ 0 = 0 /\ Z[1] \in {1, 2})
    <3> TAKE j \in 1 .. Len(Z)
    <3>1. CASE j = 1
      BY <2>5, <2>9, <3>1
    <3>2. CASE j # 1
      <4> DEFINE g == j - 1
      <4>1. g \in 1 .. Len(R) /\ 1 + g = j /\ m + 1 + g = m + 0 + j
        BY <2>5, <2>8, <2>9, <2>11, <3>2
      <4> HIDE DEF g
      <4>2. Z[1 + g] = R[g] /\ R[g] = D[m + 1 + g]
        BY <2>5, <2>7, <2>9, <4>1
      <4> QED BY <4>1, <4>2
    <3> QED BY <3>1, <3>2
  <2>13. w \in Seq(Byte) /\ Held(0) \o w = w
    <3>1. w \in Seq(Byte)
      OBVIOUS
    <3> QED BY <3>1 DEF Held
  <2>14. Carries(Held(0) \o w, Z, e)
    BY <2>10, <2>13
  <2>15. \A j \in p - d + 1 .. BUF_MAX : f[j] = 0
    BY <1>7 DEF N
  <2>16. /\ m \in Nat /\ 0 \in Nat /\ 0 \in {0, 1}
         /\ p - d = 0 + 0 /\ p - d < BUF_MAX
    BY <2>1, <2>8 DEF N
  <2>17. \A j \in 1 .. 0 : f[j] = D[m + j] \/ (j = 1 /\ f[1] \in {1, 2})
    OBVIOUS
  <2>18. 0 = 1 => f[0 + 1] = FE
    OBVIOUS
  <2>19. Holding(D, f, p - d, w, m, 0, 0, Z, e)
    BY ONLY <2>9, <2>11, <2>12, <2>14, <2>15, <2>16, <2>17, <2>18 DEF Holding
  <2>20. B < m /\ b <= B /\ b <= m /\ m \in Nat /\ b \in Nat
    BY <1>1, <2>8
  <2> QED BY <2>19, <2>20 DEF B, HeldOn
<1> QED BY <1>8, <1>9

(* What is cut out, byte by byte.                                           *)
LEMMA BytesAt ==
  ASSUME ReceiverTypes, NEW i \in 1 .. BUF_MAX, NEW n \in 0 .. DATA_MAX - 1
  PROVE  \A j \in 1 .. n : Bytes(i, n)[j] = At(buf_tmp, i + j - 1)
<1> DEFINE zs == Zeros(DATA_MAX)
           q == buf_tmp \o zs
<1>1. BUF_MAX \in Nat /\ DATA_MAX = 30
  BY ReceiverAssumption DEF DATA_MAX
<1>2. zs \in Seq(Byte) /\ Len(zs) = 30 /\ \A j \in 1 .. 30 : zs[j] = 0
  BY <1>1, ZerosType
<1>3. buf_tmp \in Seq(Byte) /\ Len(buf_tmp) = BUF_MAX /\ DOMAIN buf_tmp = 1 .. BUF_MAX
  BY DEF ReceiverTypes
<1> HIDE DEF zs
<1>4. /\ \A j \in 1 .. Len(buf_tmp) : q[j] = buf_tmp[j]
      /\ \A j \in 1 .. Len(zs) : q[Len(buf_tmp) + j] = zs[j]
  BY <1>2, <1>3, Joined, ZenonT(60)
<1> TAKE j \in 1 .. n
<1> DEFINE h == i + j - 1
<1>5. Bytes(i, n)[j] = q[h]
  BY BytesType DEF zs
<1>6. h \in 1 .. BUF_MAX + 30
  BY <1>1
<1> HIDE DEF h, q
<1>7. CASE h <= BUF_MAX
  <2>1. h \in 1 .. BUF_MAX
    BY <1>6, <1>7
  <2> QED BY <1>3, <1>4, <1>5, <2>1 DEF At, h
<1>8. CASE ~ (h <= BUF_MAX)
  <2> DEFINE g == h - BUF_MAX
  <2>1. g \in 1 .. 30 /\ BUF_MAX + g = h /\ h \notin 1 .. BUF_MAX
    BY <1>1, <1>6, <1>8
  <2> HIDE DEF g
  <2>2. q[h] = 0
    BY <1>2, <1>3, <1>4, <2>1
  <2> QED BY <1>3, <1>5, <2>1, <2>2 DEF At, h
<1> QED BY <1>7, <1>8

(* What the reader takes for a frame, passes.                               *)
LEMMA HeadPasses ==
  ASSUME ReceiverTypes, port = "clowire", NEW i \in Heads
  PROVE  /\ Passes(buf_tmp, i)
         /\ package_size(i) = At(buf_tmp, i + 5)
<1>1. FrameAt(i) /\ i \in 1 .. BUF_MAX /\ package_size(i) \in 1 .. DATA_MAX - 1
  BY PackageType DEF Heads
<1>2. package_size(i) = At(buf_tmp, i + 5)
  BY DEF package_size
<1> DEFINE n == At(buf_tmp, i + 5)
<1>3. n \in 1 .. DATA_MAX - 1 /\ buf_tmp[i] = FA /\ i \in 1 .. BUF_MAX
  BY <1>1, <1>2 DEF FrameAt, IsHead
<1>4. At(buf_tmp, i + n - 1) = XOR_check[Bytes(i, n - 1)]
  BY <1>1, <1>2 DEF FrameAt, Checked
<1> HIDE DEF n
<1> DEFINE k == n - 1
<1>5. k \in 0 .. DATA_MAX - 1 /\ k \in Nat
  BY <1>3 DEF DATA_MAX
<1> HIDE DEF k
<1>6. Bytes(i, k) = [j \in 1 .. k |-> At(buf_tmp, i + j - 1)]
  <2>1. Bytes(i, k) \in Seq(Byte) /\ Len(Bytes(i, k)) = k
    BY <1>3, <1>5, BytesType
  <2>2. \A j \in 1 .. k : Bytes(i, k)[j] = At(buf_tmp, i + j - 1)
    BY <1>3, <1>5, BytesAt
  <2> DEFINE q == Bytes(i, k)
  <2>3. q = [j \in 1 .. Len(q) |-> q[j]]
    BY <2>1
  <2> HIDE DEF q
  <2>4. q = [j \in 1 .. k |-> q[j]]
    BY <2>1, <2>3 DEF q
  <2>5. [j \in 1 .. k |-> q[j]] = [j \in 1 .. k |-> At(buf_tmp, i + j - 1)]
    BY <2>2 DEF q
  <2> QED BY <2>4, <2>5 DEF q
<1>7. At(buf_tmp, i + n - 1) = XOR_check[[j \in 1 .. n - 1 |-> At(buf_tmp, i + j - 1)]]
  BY <1>4, <1>6 DEF k
<1> QED BY <1>2, <1>3, <1>7 DEF Passes, n

(* Nothing else decides what has been handed on.                            *)
LEMMA HandedSame ==
  ASSUME UNCHANGED <<noise, sent>>, Pending' = Pending, NEW b, Handed(b)
  PROVE  Handed(b)'
BY DEF Handed, FromFirst

--------------------------------------------------------------------------------
(* The Clowire reader's steps.                                              *)

(* A read, with its reset or its ES_opt_recv.                               *)
LEMMA ClowireRead ==
  ASSUME ReceiverTypes, SentReadable, ClowireInv, port = "clowire", general_serial_read
  PROVE  ClowireInv'
<1> USE DEF line
<1> DEFINE D == Stream(noise, sent)
<1>1. PICK n \in 1 .. MaxRead :
        /\ n <= Len(wire)
        /\ wire' = SubSeq(wire, n + 1, Len(wire))
        /\ Collect(SubSeq(wire, 1, n)) \/ read_to_tmp_reset(SubSeq(wire, 1, n))
  BY DEF general_serial_read
<1>2. UNCHANGED <<port, sent, noise, p_flag, buf_final, workers, delivered>>
  BY DEF general_serial_read
<1>3. PICK b, s, half, Y, c : Holding(D, buf_tmp, p_index, wire, b, s, half, Y, c) /\ Handed(b)
  BY DEF ClowireInv
<1>4. /\ wire \in Seq(Byte) /\ buf_tmp \in Seq(Byte) /\ Len(buf_tmp) = BUF_MAX
      /\ noise \in Seq(Byte) /\ sent \in Seq(Seq(Byte))
      /\ Len(SubSeq(wire, 1, n)) = n
  BY <1>1, ReadTypes DEF ReceiverTypes, SentReadable
<1>5. D \in Seq(Byte)
  BY <1>4, FramePlaces
<1>6. Clean(D)
  <2>1. Escapable(noise, sent)
    BY DEF SentReadable
  <2>2. DOMAIN D = 1 .. Len(D)
    BY <1>5
  <2> QED BY <2>1, <2>2 DEF Escapable, Clean
<1>7. n \in 1 .. Len(wire) /\ b \in Nat /\ BUF_MAX > 0 /\ BUF_MAX \in Nat /\ n \in Nat
  <2>1. Len(wire) \in Nat
    BY <1>4
  <2>2. b \in Nat
    BY <1>3 DEF Holding
  <2> QED BY <1>1, <2>1, <2>2, ReceiverAssumption
<1>8. Pending' = Pending
  BY <1>2 DEF Pending
<1>9. D' = D
  BY <1>2
<1> DEFINE v == SubSeq(wire, n + 1, Len(wire))
<1> HIDE DEF D
<1>10. CASE Collect(SubSeq(wire, 1, n))
  <2> DEFINE fill == Placed(buf_tmp, p_index, SubSeq(wire, 1, n))
             got == ES_opt_recv(fill)
             T == Held(half) \o wire
             m == half + n
  <2>1. /\ p_index + n < BUF_MAX
        /\ buf_tmp' = got.buf
        /\ p_index' = p_index + n - got.removed
    BY <1>4, <1>10 DEF Collect, Unescape
  <2> HIDE DEF fill, T, m
  <2>2. Undone(ES_opt_recv(fill), buf_tmp, s, T, Y, c, m, BUF_MAX)
    BY <1>3, <1>4, <1>5, <1>6, <1>7, <2>1, ReadUndone DEF fill, T, m
  <2> HIDE DEF got
  <2>3. Undone(got, buf_tmp, s, T, Y, c, m, BUF_MAX)
    BY <2>2 DEF got
  <2>4. \E z, h, Z, e : Holding(D, got.buf, p_index + n - got.removed, v, b, z, h, Z, e)
    BY <1>3, <1>4, <1>5, <1>7, <2>1, <2>3, ReadHolding DEF T, m
  <2>5. \E z, h, Z, e : Holding(D, buf_tmp', p_index', wire', b, z, h, Z, e)
    BY <1>1, <2>1, <2>4
  <2>6. Handed(b)'
    BY <1>2, <1>3, <1>8, HandedSame
  <2> QED BY <1>9, <2>5, <2>6 DEF ClowireInv, D
<1>11. CASE read_to_tmp_reset(SubSeq(wire, 1, n))
  <2>1. buf_tmp' = Zeros(BUF_MAX) /\ p_index' = 0
    BY <1>11 DEF read_to_tmp_reset
  <2>2. PICK a, Z, e : a >= b /\ Holding(D, Zeros(BUF_MAX), 0, v, a, 0, 0, Z, e)
    BY <1>3, <1>4, <1>5, <1>7, ResetHolding
  <2>3. a \in Nat
    BY <2>2 DEF Holding
  <2>4. Handed(a)
    BY <1>3, <1>7, <2>2, <2>3, HandedLater
  <2>5. Handed(a)'
    BY <1>2, <1>8, <2>4, HandedSame
  <2>6. Holding(D, buf_tmp', p_index', wire', a, 0, 0, Z, e)
    BY <1>1, <2>1, <2>2
  <2> QED BY <1>9, <2>5, <2>6 DEF ClowireInv, D
<1> QED BY <1>1, <1>10, <1>11

(* The first frame goes to buf_final, and to a worker if there is one.      *)
LEMMA ClowireCut ==
  ASSUME ReceiverTypes, SentReadable, delivered \in Seq(Seq(Byte)),
         ClowireInv, port = "clowire", CutFrame
  PROVE  ClowireInv'
<1> USE DEF line
<1> DEFINE D == Stream(noise, sent)
           i == Min(Heads)
           n == package_size(i)
           d == Cut(i)
<1>1. Heads # {} /\ p_flag = 0
  BY DEF CutFrame
<1>2. /\ buf_final' = Bytes(i, n)
      /\ p_index' = p_index - d
      /\ buf_tmp' = SubSeq(buf_tmp, d + 1, BUF_MAX) \o Zeros(Min({d, BUF_MAX}))
      /\ workers' \in {workers, workers + 1}
      /\ UNCHANGED <<line, reader, delivered>>
  BY DEF CutFrame
<1>3. i \in Heads
  BY <1>1, FirstHead
<1> HIDE DEF i
<1>4. /\ i \in 1 .. BUF_MAX /\ n \in 1 .. DATA_MAX - 1
      /\ d \in Nat \ {0} /\ d = i + n - 1
  BY <1>3, PackageType
<1>5. Passes(buf_tmp, i) /\ n = At(buf_tmp, i + 5)
  BY <1>3, HeadPasses
<1>6. PICK b, s, half, Y, c : Holding(D, buf_tmp, p_index, wire, b, s, half, Y, c) /\ Handed(b)
  BY DEF ClowireInv
<1>7. /\ wire \in Seq(Byte) /\ buf_tmp \in Seq(Byte) /\ Len(buf_tmp) = BUF_MAX
      /\ noise \in Seq(Byte) /\ sent \in Seq(Seq(Byte) \ {<<>>}) /\ sent \in Seq(Seq(Byte))
      /\ CheckTells(noise, sent)
  BY DEF ReceiverTypes, SentReadable
<1> HIDE DEF n, d
<1>8. /\ i <= s
      /\ \E k : Stands(noise, sent, buf_tmp, p_index, b, i, k)
  BY <1>4, <1>5, <1>6, <1>7, FrameStands
<1>9. PICK k : Stands(noise, sent, buf_tmp, p_index, b, i, k)
  BY <1>8
<1> DEFINE f == sent[k]
           l == Len(f)
<1>10. k \in 1 .. Len(sent) /\ f \in Seq(Byte) /\ n = l
       /\ \A j \in 1 .. l : At(buf_tmp, i + j - 1) = f[j]
  <2>1. k \in DOMAIN sent
    BY <1>9 DEF Stands
  <2>2. f \in Seq(Byte) /\ k \in 1 .. Len(sent)
    BY <1>7, <2>1
  <2> HIDE DEF f
  <2>3. DOMAIN f = 1 .. l
    BY <2>2
  <2>4. At(buf_tmp, i + 5) = l /\ \A j \in DOMAIN f : At(buf_tmp, i + j - 1) = f[j]
    BY <1>9 DEF Stands, f
  <2> QED BY <1>5, <2>2, <2>3, <2>4
<1>11. buf_final' = f
  <2> DEFINE q == Bytes(i, n)
  <2>1. n \in 0 .. DATA_MAX - 1
    BY <1>4 DEF DATA_MAX
  <2>2. q \in Seq(Byte) /\ Len(q) = n
    BY <1>4, <2>1, BytesType
  <2>3. \A j \in 1 .. n : q[j] = At(buf_tmp, i + j - 1)
    BY <1>4, <2>1, BytesAt
  <2> HIDE DEF q, f
  <2>4. Len(q) = Len(f) /\ \A j \in 1 .. Len(q) : q[j] = f[j]
    BY <1>10, <2>2, <2>3
  <2>5. q = f
    BY <1>10, <2>2, <2>4, SameBytes
  <2> QED BY <1>2, <2>5 DEF q
<1>12. \A j \in 1 .. BUF_MAX : buf_tmp'[j] = IF d + j <= BUF_MAX THEN buf_tmp[d + j] ELSE 0
  <2> DEFINE shifted == SubSeq(buf_tmp, d + 1, BUF_MAX) \o Zeros(Min({d, BUF_MAX}))
  <2>1. buf_tmp \in Seq(Byte) /\ BUF_MAX = Len(buf_tmp) /\ d \in Nat
    BY <1>4, <1>7
  <2>2. MovedUp(shifted, buf_tmp, d, BUF_MAX)
    BY <2>1, ShiftType
  <2> HIDE DEF shifted
  <2>3. buf_tmp' = shifted
    BY <1>2 DEF shifted
  <2> QED BY <2>2, <2>3 DEF MovedUp
<1>13. d = i + Len(sent[k]) - 1
  BY <1>4, <1>10
<1> DEFINE B == Before(noise, sent, k)
<1>14. HeldOn(D, buf_tmp', p_index - d, wire, b, B)
  BY <1>4, <1>6, <1>7, <1>8, <1>9, <1>12, <1>13, CutHolding
<1> HIDE DEF B, D, f
<1>15. PICK a, z, h, Z, e : /\ Holding(D, buf_tmp', p_index - d, wire, a, z, h, Z, e)
                            /\ a \in Nat /\ b \in Nat /\ b <= a /\ b <= B /\ B < a
  BY <1>14 DEF HeldOn
<1>16. Holding(D, buf_tmp', p_index', wire', a, z, h, Z, e)
  BY <1>2, <1>15
<1>17. workers = 0
  BY <1>1 DEF ReceiverTypes
<1>18. Handed(a)'
  <2>1. CASE workers' = 0
    <3>1. Pending' = Pending
      BY <1>2, <1>17, <2>1 DEF Pending
    <3>2. Handed(a)
      BY <1>6, <1>15, HandedLater
    <3> QED BY <1>2, <3>1, <3>2, HandedSame
  <2>2. CASE workers' # 0
    <3> DEFINE q == Append(delivered, sent[k])
    <3>1. Pending' = q
      BY <1>2, <1>11, <2>2 DEF Pending, f
    <3>2. FromFirst(q, a)
      <4>1. a \in Int /\ b \in Int /\ b <= a /\ b <= B /\ B < a /\ Handed(b)
        BY <1>6, <1>15
      <4>2. q = Append(delivered, sent[k])
        OBVIOUS
      <4> HIDE DEF q
      <4>3. SentReadable /\ delivered \in Seq(Seq(Byte)) /\ k \in 1 .. Len(sent)
        BY <1>10
      <4> QED BY ONLY <1>17, <4>1, <4>2, <4>3, HandedNext DEF B
    <3> HIDE DEF q
    <3>3. noise' = noise /\ sent' = sent
      BY <1>2
    <3> QED BY <3>1, <3>2, <3>3 DEF Handed, FromFirst
  <2> QED BY <2>1, <2>2
<1>19. D' = D
  BY <1>2 DEF D
<1> QED BY <1>16, <1>18, <1>19 DEF ClowireInv, D

(* A worker's end moves its frame to those passed on.                       *)
LEMMA ClowireWorker ==
  ASSUME ReceiverTypes, ClowireInv, data_to_other_thread
  PROVE  ClowireInv'
<1> USE DEF line
<1>1. UNCHANGED <<line, buf_tmp, p_index>> /\ Pending' = Pending
  <2>1. workers > 0 /\ workers' = workers - 1 /\ delivered' = Append(delivered, buf_final)
        /\ UNCHANGED <<line, buf_tmp, p_index, buf_final>>
    BY DEF data_to_other_thread
  <2>2. workers = 1 /\ workers' = 0
    BY <2>1 DEF ReceiverTypes
  <2> QED BY <2>1, <2>2 DEF Pending
<1>2. SUFFICES ASSUME port = "clowire" PROVE ClowireInv'
  BY <1>1 DEF ClowireInv
<1> DEFINE D == Stream(noise, sent)
<1>3. PICK b, s, half, Y, c : Holding(D, buf_tmp, p_index, wire, b, s, half, Y, c) /\ Handed(b)
  BY <1>2 DEF ClowireInv
<1>4. Handed(b)'
  BY <1>1, <1>3, HandedSame
<1>5. Holding(D', buf_tmp', p_index', wire', b, s, half, Y, c)
  BY <1>1, <1>3
<1> HIDE DEF D
<1> QED BY <1>4, <1>5 DEF ClowireInv, D

(* Frames that follow one another.                                          *)
LEMMA StreamCarried ==
  ASSUME NEW before \in Seq(Byte), \A j \in DOMAIN before : before[j] # FE,
         NEW frames \in Seq(Seq(Byte) \ {<<>>}), \A k \in DOMAIN frames : frames[k][1] # FE
  PROVE  \E c : Carries(before \o FlattenSeq([k \in DOMAIN frames |-> Escaped(frames[k])]),
                        Stream(before, frames), c)
<1> DEFINE N == Len(frames)
           T == Seq(Byte)
           seqs == [k \in DOMAIN frames |-> Escaped(frames[k])]
<1>1. N \in Nat /\ DOMAIN frames = 1 .. N /\ frames \in Seq(T)
  OBVIOUS
<1>2. ASSUME NEW k \in 1 .. N
      PROVE  /\ frames[k] \in T /\ seqs[k] = Escaped(frames[k]) /\ seqs[k] \in T
             /\ \E c : Carries(seqs[k], frames[k], c)
  <2> DEFINE f == frames[k]
  <2>1. f \in Seq(Byte) /\ f # <<>> /\ f[1] # FE /\ k \in DOMAIN frames
    BY <1>1
  <2>2. seqs[k] = Escaped(f)
    BY <2>1
  <2> HIDE DEF f, seqs
  <2>3. Escaped(f) \in Seq(Byte) /\ \E c : Carries(Escaped(f), f, c)
    BY <2>1, EscapedCarries
  <2> QED BY <2>1, <2>2, <2>3 DEF f
<1>3. seqs \in Seq(T) /\ Len(seqs) = N
  <2>1. DOMAIN seqs = 1 .. N
    BY <1>1
  <2>2. seqs = [k \in 1 .. N |-> seqs[k]]
    BY <1>1
  <2> HIDE DEF seqs, T, N
  <2>3. \A k \in 1 .. N : seqs[k] \in T
    BY <1>2
  <2>4. seqs \in [1 .. N -> T]
    BY <2>2, <2>3
  <2>5. N \in Nat
    BY <1>1
  <2> QED BY ONLY <2>4, <2>5
<1> HIDE DEF seqs, N
<1>4. PICK g \in [0 .. N -> Seq(Byte)] :
        /\ g[0] = <<>>
        /\ \A n \in 1 .. N : g[n] = g[n - 1] \o seqs[n]
        /\ FlattenSeq(seqs) = g[N]
  BY <1>3, FlattenBytes
<1>5. PICK f \in [0 .. N -> Seq(Byte)] :
        /\ f[0] = <<>>
        /\ \A n \in 1 .. N : f[n] = f[n - 1] \o frames[n]
        /\ FlattenSeq(frames) = f[N]
  BY <1>1, FlattenBytes DEF N
<1> DEFINE S == {n \in Nat : n <= N => \E c : Carries(g[n], f[n], c)}
<1>6. 0 \in S
  <2> DEFINE e == <<>>
  <2>1. e \in Seq(Byte) /\ \A j \in 1 .. Len(e) : e[j] # FE
    OBVIOUS
  <2>2. \E c : Carries(e, e, c)
    BY <2>1, PlainCarried
  <2> QED BY <1>4, <1>5, <2>2
<1>7. ASSUME NEW n \in Nat, n \in S PROVE n + 1 \in S
  <2> SUFFICES ASSUME n + 1 <= N PROVE \E c : Carries(g[n + 1], f[n + 1], c)
    OBVIOUS
  <2>1. n + 1 \in 1 .. N /\ (n + 1) - 1 = n /\ n \in 0 .. N /\ n <= N
    BY <1>1
  <2>2. g[n + 1] = g[n] \o seqs[n + 1] /\ f[n + 1] = f[n] \o frames[n + 1]
    BY <1>4, <1>5, <2>1
  <2>3. PICK c1 : Carries(g[n], f[n], c1)
    BY <1>7, <2>1
  <2>4. PICK c2 : Carries(seqs[n + 1], frames[n + 1], c2)
    BY <1>2, <2>1
  <2>5. g[n] \in Seq(Byte) /\ f[n] \in Seq(Byte)
        /\ seqs[n + 1] \in Seq(Byte) /\ frames[n + 1] \in Seq(Byte)
    BY <1>2, <1>4, <1>5, <2>1
  <2>6. \E c : Carries(g[n] \o seqs[n + 1], f[n] \o frames[n + 1], c)
    BY <2>3, <2>4, <2>5, CarriesJoin
  <2> QED BY <2>2, <2>6
<1>8. N \in S
  <2> HIDE DEF S
  <2> QED BY <1>1, <1>6, <1>7, SetInduction
<1>9. PICK c2 : Carries(g[N], f[N], c2)
  BY <1>1, <1>8
<1>10. PICK c1 : Carries(before, before, c1)
  <2>1. \A j \in 1 .. Len(before) : before[j] # FE
    OBVIOUS
  <2> QED BY <2>1, PlainCarried
<1>11. g[N] \in Seq(Byte) /\ f[N] \in Seq(Byte)
  BY <1>1, <1>4, <1>5
<1>12. \E c : Carries(before \o g[N], before \o f[N], c)
  BY <1>9, <1>10, <1>11, CarriesJoin
<1> QED BY <1>4, <1>5, <1>12 DEF Stream, seqs

(* At first all is on the line.                                             *)
LEMMA ClowireInit ==
  ASSUME Init, SentReadable
  PROVE  ClowireInv
<1> SUFFICES ASSUME port = "clowire" PROVE ClowireInv
  BY DEF ClowireInv
<1> DEFINE D == Stream(noise, sent)
<1>1. /\ noise \in Seq(Byte) /\ sent \in Seq(Seq(Byte) \ {<<>>}) /\ sent \in Seq(Seq(Byte))
      /\ Escapable(noise, sent)
  BY DEF SentReadable
<1>2. wire = noise \o FlattenSeq([k \in DOMAIN sent |-> Escaped(sent[k])])
  BY DEF Init, OnLine
<1>3. PICK c : Carries(wire, D, c)
  BY <1>1, <1>2, StreamCarried DEF Escapable
<1>4. D \in Seq(Byte)
  BY <1>1, FramePlaces
<1>5. wire \in Seq(Byte) /\ Held(0) \o wire = wire
  <2>1. wire \in Seq(Byte)
    BY LineType
  <2> QED BY <2>1 DEF Held
<1> DEFINE L == Len(D)
<1>6. L \in Nat
  BY <1>4
<1> HIDE DEF D, L
<1>7. Holding(D, buf_tmp, p_index, wire, 0, 0, 0, D, c)
  <2>1. p_index = 0 /\ \A j \in 1 .. BUF_MAX : buf_tmp[j] = 0
    BY DEF Init, Zeros
  <2>2. BUF_MAX \in Nat /\ 0 < BUF_MAX
    BY ReceiverAssumption
  <2>3. /\ 0 \in Nat /\ 0 \in {0, 1} /\ 0 + 0 <= Len(D)
        /\ p_index = 0 + 0 /\ p_index < BUF_MAX
    BY <1>6, <2>1, <2>2 DEF L
  <2>4. \A j \in 1 .. 0 : buf_tmp[j] = D[0 + j] \/ (j = 1 /\ buf_tmp[1] \in {1, 2})
    OBVIOUS
  <2>5. 0 = 1 => buf_tmp[0 + 1] = FE
    OBVIOUS
  <2>6. \A j \in p_index + 1 .. BUF_MAX : buf_tmp[j] = 0
    BY <2>1
  <2>7. D \in Seq(Byte) /\ Len(D) = Len(D) - (0 + 0)
    BY <1>4, <1>6 DEF L
  <2>8. \A j \in 1 .. Len(D) : D[j] = D[0 + 0 + j] \/ (j = 1 /\ 0 = 0 /\ D[1] \in {1, 2})
    <3> TAKE j \in 1 .. Len(D)
    <3>1. 0 + 0 + j = j
      OBVIOUS
    <3> QED BY <3>1
  <2>9. Carries(Held(0) \o wire, D, c)
    BY <1>3, <1>5
  <2> QED BY ONLY <2>3, <2>4, <2>5, <2>6, <2>7, <2>8, <2>9 DEF Holding
<1>8. Handed(0)
  <2>1. Pending = <<>> /\ Len(Pending) = 0
    BY DEF Pending, Init
  <2> DEFINE place == [j \in 1 .. 0 |-> 1]
  <2>2. 1 .. 0 = {}
    OBVIOUS
  <2>3. place \in [1 .. 0 -> 1 .. Len(sent)]
    BY <2>2
  <2> HIDE DEF place
  <2> QED BY <2>1, <2>2, <2>3 DEF Handed, FromFirst
<1> QED BY <1>7, <1>8 DEF ClowireInv, D

--------------------------------------------------------------------------------
(* The Qiyuan reader.                                                       *)

(* The first b bytes of the stream D are through, the next p are in the     *)
(* buffer, and w is the rest of the line.                                   *)
Has(D, buf, p, w, b) ==
  /\ b \in Nat /\ p \in Nat /\ p < BUF_MAX /\ b + p <= Len(D)
  /\ \A j \in 1 .. p : buf[j] = D[b + j]
  /\ \A j \in p + 1 .. BUF_MAX : buf[j] = 0
  /\ Len(w) = Len(D) - (b + p)
  /\ \A j \in 1 .. Len(w) : w[j] = D[b + p + j]

(* The buffer begins with a frame, of which something is missing when the   *)
(* next bytes are read.                                                     *)
Begins(b, k) ==
  /\ k \in 1 .. Len(sent) /\ b = Before(noise, sent, k)
  /\ reader = "read" => p_index < Len(sent[k])

(* What has been received is counted, and frames before the buffer's are    *)
(* passed on.                                                               *)
QiyuanInv ==
  port = "qiyuan" =>
    /\ len = p_index
    /\ \E b : /\ Has(Stream(noise, sent), buf_tmp, p_index, wire, b) /\ Handed(b)
              /\ b = Len(Stream(noise, sent)) \/ \E k : Begins(b, k)

(* A frame and the one behind it, in the stream.                            *)
FrameThere(D, b, f) ==
  /\ f \in Seq(Byte) /\ Report(f)
  /\ b \in Nat /\ D \in Seq(Byte) /\ b + Len(f) <= Len(D)
  /\ \A j \in 1 .. Len(f) : D[b + j] = f[j]
  /\ b + Len(f) < Len(D) => D[b + Len(f) + 1] = 128
  /\ b + Len(f) = Len(D) \/ \E k \in 1 .. Len(sent) : b + Len(f) = Before(noise, sent, k)

(* Report says how a frame begins and ends.                                 *)
LEMMA FrameIsThere ==
  ASSUME SentReadable, port = "qiyuan", NEW b, NEW k \in 1 .. Len(sent),
         b = Before(noise, sent, k)
  PROVE  FrameThere(Stream(noise, sent), b, sent[k])
<1> DEFINE D == Stream(noise, sent)
           f == sent[k]
           B(j) == Before(noise, sent, j)
           L == Len(f)
<1>1. /\ noise \in Seq(Byte) /\ sent \in Seq(Seq(Byte))
      /\ \A j \in 1 .. Len(sent) : Report(sent[j])
  BY DEF SentReadable
<1>2. /\ D \in Seq(Byte)
      /\ \A j \in 1 .. Len(sent) :
           /\ sent[j] \in Seq(Byte) /\ B(j) \in Nat /\ Len(sent[j]) \in Nat
           /\ B(j) + Len(sent[j]) <= Len(D)
           /\ \A i \in 1 .. Len(sent[j]) : D[B(j) + i] = sent[j][i]
           /\ j < Len(sent) => B(j + 1) = B(j) + Len(sent[j])
           /\ j = Len(sent) => Len(D) = B(j) + Len(sent[j])
  <2>1. D \in Seq(Byte)
    BY <1>1, FramePlaces
  <2>2. ASSUME NEW j \in 1 .. Len(sent) PROVE FramePlace(noise, sent, D, j)
    BY <1>1, FramePlaces
  <2> HIDE DEF D
  <2> QED BY <2>1, <2>2 DEF FramePlace
<1>3. Len(sent) \in Nat
  BY <1>1
<1> HIDE DEF D, B
<1>4. /\ f \in Seq(Byte) /\ Report(f) /\ b \in Nat /\ L \in Nat /\ b = B(k)
      /\ b + L <= Len(D) /\ \A j \in 1 .. L : D[b + j] = f[j]
      /\ k < Len(sent) => B(k + 1) = b + L
      /\ k = Len(sent) => Len(D) = b + L
  BY <1>1, <1>2 DEF B
<1>5. CASE k < Len(sent)
  <2>1. k + 1 \in 1 .. Len(sent)
    BY <1>3, <1>5
  <2> DEFINE g == sent[k + 1]
  <2>2. Report(g) /\ g \in Seq(Byte) /\ B(k + 1) = b + L
        /\ \A i \in 1 .. Len(g) : D[B(k + 1) + i] = g[i]
    BY <1>1, <1>2, <1>4, <1>5, <2>1
  <2> HIDE DEF g
  <2>3. g[1] = 128 /\ 1 \in 1 .. Len(g)
    BY <2>2 DEF Report
  <2>4. D[b + L + 1] = 128
    BY <2>2, <2>3
  <2>5. \E j \in 1 .. Len(sent) : b + L = Before(noise, sent, j)
    BY <2>1, <2>2 DEF B
  <2> QED BY <1>2, <1>4, <2>4, <2>5 DEF FrameThere, D
<1>6. CASE k = Len(sent)
  <2>1. b + L = Len(D)
    BY <1>4, <1>6
  <2>2. ~ (b + L < Len(D))
    BY <1>4, <2>1
  <2> QED BY <1>2, <1>4, <2>1, <2>2 DEF FrameThere, D
<1> QED BY <1>3, <1>5, <1>6

(* A whole frame at the head of the buffer is taken for one.                *)
LEMMA WholeFrame ==
  ASSUME ReceiverTypes, port = "qiyuan", len = p_index,
         NEW D, NEW b, NEW w, Has(D, buf_tmp, p_index, w, b),
         NEW f, FrameThere(D, b, f), Len(f) <= p_index
  PROVE  1 \in Heads
<1>1. /\ Len(f) \in 7 .. DATA_MAX - 1 /\ f[1] = 128 /\ f[2] = 255
      /\ f[5] + 5 = Len(f) /\ f[7] # 0
  BY DEF FrameThere, Report
<1>2. \A j \in 1 .. Len(f) : D[b + j] = f[j]
  BY DEF FrameThere
<1>3. /\ p_index \in Nat /\ p_index < BUF_MAX
      /\ \A j \in 1 .. p_index : buf_tmp[j] = D[b + j]
  BY DEF Has
<1>4. DOMAIN buf_tmp = 1 .. BUF_MAX /\ BUF_MAX \in Nat
  BY ReceiverAssumption DEF ReceiverTypes
<1> DEFINE L == Len(f)
<1>5. L \in 7 .. DATA_MAX - 1 /\ L <= p_index /\ L \in Nat /\ L >= 7
  BY <1>1 DEF DATA_MAX
<1> HIDE DEF L
<1>6. ASSUME NEW j \in 1 .. 7 PROVE At(buf_tmp, j) = f[j] /\ j \in DOMAIN buf_tmp
  <2>1. j \in 1 .. L /\ j \in 1 .. p_index /\ j \in 1 .. BUF_MAX
    BY <1>3, <1>4, <1>5
  <2> QED BY <1>2, <1>3, <1>4, <2>1 DEF At, L
<1>7. At(buf_tmp, 1) = 128 /\ At(buf_tmp, 2) = 255 /\ At(buf_tmp, 5) = f[5] /\ At(buf_tmp, 7) = f[7]
  BY <1>1, <1>6
<1>8. buf_tmp[1] = 128 /\ 1 \in DOMAIN buf_tmp
  BY <1>6, <1>7 DEF At
<1>9. IsHead(1)
  <2>1. 1 + 1 = 2
    OBVIOUS
  <2> QED BY <1>7, <1>8, <2>1 DEF IsHead
<1>10. package_size(1) = L
  <2>1. 1 + 4 = 5
    OBVIOUS
  <2> QED BY <1>1, <1>7, <2>1 DEF package_size, L
<1>11. Checked(1)
  <2>1. 1 + 6 = 7
    OBVIOUS
  <2> QED BY <1>1, <1>7, <2>1 DEF Checked
<1>12. Scanned(1)
  <2>1. 20 .. 1 - 1 = {}
    OBVIOUS
  <2> QED BY <2>1 DEF Scanned
<1> QED BY <1>5, <1>8, <1>9, <1>10, <1>11, <1>12 DEF Heads, FrameAt

(* And no other place before it, or in the middle of one.                   *)
LEMMA HeadIsFirst ==
  ASSUME ReceiverTypes, port = "qiyuan", len = p_index,
         NEW D, NEW b, NEW w, Has(D, buf_tmp, p_index, w, b),
         NEW f, FrameThere(D, b, f), Heads # {}
  PROVE  Min(Heads) = 1 /\ package_size(1) = Len(f) /\ Len(f) <= p_index
<1> DEFINE L == Len(f)
           i == Min(Heads)
<1>1. /\ L \in 7 .. DATA_MAX - 1 /\ f[5] + 5 = L
      /\ \A j \in 2 .. L - 1 : ~ (f[j] = 128 /\ f[j + 1] = 255)
  BY DEF FrameThere, Report
<1>2. /\ \A j \in 1 .. L : D[b + j] = f[j]
      /\ b + L < Len(D) => D[b + L + 1] = 128
      /\ b \in Nat /\ Len(D) \in Nat
  BY DEF FrameThere
<1>3. /\ p_index \in Nat /\ p_index < BUF_MAX /\ b + p_index <= Len(D)
      /\ \A j \in 1 .. p_index : buf_tmp[j] = D[b + j]
      /\ \A j \in p_index + 1 .. BUF_MAX : buf_tmp[j] = 0
  BY DEF Has
<1>4. DOMAIN buf_tmp = 1 .. BUF_MAX /\ BUF_MAX \in Nat
  BY ReceiverAssumption DEF ReceiverTypes
<1>5. i \in Heads /\ \A j \in Heads : i <= j
  <2>1. Heads \subseteq Nat
    BY <1>4 DEF Heads
  <2> QED BY <2>1, Least
<1>6. i \in 1 .. BUF_MAX /\ FrameAt(i)
  BY <1>4, <1>5 DEF Heads
<1> HIDE DEF i, L
<1>7. /\ buf_tmp[i] = 128 /\ At(buf_tmp, i + 1) = 255 /\ At(buf_tmp, i + 6) # 0
      /\ package_size(i) = At(buf_tmp, i + 4) + 5
  BY <1>6 DEF FrameAt, IsHead, Checked, package_size
<1>8. ASSUME NEW j \in Nat, j >= 1, At(buf_tmp, j) # 0
      PROVE  j \in 1 .. p_index /\ At(buf_tmp, j) = D[b + j]
  <2>1. j \in 1 .. BUF_MAX /\ buf_tmp[j] # 0
    BY <1>4, <1>8 DEF At
  <2>2. j \in 1 .. p_index
    <3>1. j \notin p_index + 1 .. BUF_MAX
      BY <1>3, <2>1
    <3> QED BY <1>3, <1>4, <2>1, <3>1
  <2> QED BY <1>3, <1>4, <2>1, <2>2 DEF At
<1>9. i + 1 \in 1 .. p_index /\ D[b + (i + 1)] = 255
  <2>1. i + 1 \in Nat /\ i + 1 >= 1
    BY <1>6
  <2> QED BY <1>7, <1>8, <2>1
<1>10. D[b + i] = 128 /\ i \in 1 .. p_index
  <2>1. i \in 1 .. p_index
    BY <1>3, <1>6, <1>9
  <2> QED BY <1>3, <1>7, <2>1
<1>11. L \in Nat /\ L >= 7
  BY <1>1 DEF DATA_MAX
<1>12. i = 1 \/ i > L
  <2> SUFFICES ASSUME i # 1, ~ (i > L) PROVE FALSE
    OBVIOUS
  <2>1. i \in 2 .. L
    BY <1>6, <1>11
  <2>2. CASE i = L
    <3>1. b + L + 1 = b + (i + 1) /\ b + L < Len(D)
      BY <1>2, <1>3, <1>9, <1>11, <2>2
    <3>2. D[b + (i + 1)] = 128
      BY <1>2, <3>1
    <3> QED BY <1>9, <3>2
  <2>3. CASE i # L
    <3>1. i \in 2 .. L - 1 /\ i \in 1 .. L /\ i + 1 \in 1 .. L
      BY <1>11, <2>1, <2>3
    <3>2. D[b + i] = f[i] /\ D[b + (i + 1)] = f[i + 1]
      BY <1>2, <3>1
    <3> QED BY <1>1, <1>9, <1>10, <3>1, <3>2
  <2> QED BY <2>2, <2>3
<1>13. i = 1
  <2> SUFFICES ASSUME i > L PROVE FALSE
    BY <1>12
  <2>1. Len(f) <= p_index
    BY <1>3, <1>10, <1>11 DEF L
  <2>2. 1 \in Heads
    BY <2>1, WholeFrame
  <2>3. i <= 1
    BY <1>5, <2>2
  <2> QED BY <1>6, <1>11, <2>3
<1>14. package_size(1) = L
  <2>1. At(buf_tmp, 7) # 0 /\ package_size(1) = At(buf_tmp, 5) + 5
    <3>1. 1 + 6 = 7 /\ 1 + 4 = 5
      OBVIOUS
    <3> QED BY <1>7, <1>13, <3>1
  <2>2. 7 \in 1 .. p_index
    BY <1>8, <2>1
  <2>3. 5 \in 1 .. p_index /\ 5 \in 1 .. BUF_MAX /\ 5 \in 1 .. L
    BY <1>3, <1>4, <1>11, <2>2
  <2>4. At(buf_tmp, 5) = f[5]
    BY <1>2, <1>3, <1>4, <2>3 DEF At
  <2> QED BY <1>1, <2>1, <2>4
<1>15. L <= p_index
  <2>1. len >= package_size(1)
    BY <1>6, <1>13 DEF FrameAt
  <2> QED BY <1>14, <2>1
<1> QED BY <1>13, <1>14, <1>15 DEF i, L

(* A read finds room: a frame is missing something and fits the buffer.     *)
LEMMA QiyuanRead ==
  ASSUME ReceiverTypes, SentReadable, QiyuanInv, port = "qiyuan", general_serial_read
  PROVE  QiyuanInv'
<1> USE DEF line
<1> DEFINE D == Stream(noise, sent)
           p == p_index
<1>1. PICK n \in 1 .. MaxRead :
        /\ n <= Len(wire)
        /\ wire' = SubSeq(wire, n + 1, Len(wire))
        /\ len' = len + n
        /\ Collect(SubSeq(wire, 1, n)) \/ read_to_tmp_reset(SubSeq(wire, 1, n))
  BY DEF general_serial_read
<1>2. /\ UNCHANGED <<port, sent, noise, p_flag, buf_final, workers, delivered>>
      /\ reader = "read"
  BY DEF general_serial_read
<1>3. len = p
  BY DEF QiyuanInv
<1>4. PICK b : /\ Has(D, buf_tmp, p, wire, b) /\ Handed(b)
               /\ b = Len(D) \/ \E k : Begins(b, k)
  BY DEF QiyuanInv
<1> DEFINE a == SubSeq(wire, 1, n)
           w == SubSeq(wire, n + 1, Len(wire))
           L == Len(D)
<1>5. /\ a \in Seq(Byte) /\ Len(a) = n /\ \A j \in 1 .. n : a[j] = wire[j]
      /\ w \in Seq(Byte) /\ Len(w) = Len(wire) - n
      /\ \A j \in 1 .. Len(wire) - n : w[j] = wire[n + j]
  BY <1>1, ReadTypes
<1>6. /\ b \in Nat /\ p \in Nat /\ p < BUF_MAX /\ b + p <= L
      /\ Len(wire) = L - (b + p)
  BY <1>4 DEF Has
<1>7. /\ \A j \in 1 .. p : buf_tmp[j] = D[b + j]
      /\ \A j \in p + 1 .. BUF_MAX : buf_tmp[j] = 0
      /\ \A j \in 1 .. Len(wire) : wire[j] = D[b + p + j]
  BY <1>4 DEF Has
<1>8. /\ L \in Nat /\ n \in Nat /\ n >= 1 /\ n <= MaxRead /\ n <= Len(wire)
      /\ BUF_MAX \in Nat /\ MaxRead \in Nat
  <2>1. D \in Seq(Byte)
    <3>1. noise \in Seq(Byte) /\ sent \in Seq(Seq(Byte))
      BY DEF SentReadable
    <3> QED BY <3>1, FramePlaces
  <2>2. L \in Nat
    BY <2>1
  <2> HIDE DEF L
  <2> QED BY <1>1, <2>2, ReceiverAssumption
<1>9. DOMAIN wire = 1 .. Len(wire) /\ buf_tmp \in Seq(Byte) /\ Len(buf_tmp) = BUF_MAX
  BY DEF ReceiverTypes
<1> HIDE DEF D, a, w, L
<1>10. PICK k : Begins(b, k)
  <2>1. b # L
    BY ONLY <1>6, <1>8
  <2> QED BY <1>4, <2>1 DEF L
<1>11. p + n < BUF_MAX
  <2> DEFINE f == sent[k]
             l == Len(f)
  <2>1. k \in 1 .. Len(sent) /\ p < l
    BY <1>2, <1>10 DEF Begins
  <2>2. Report(f) /\ f \in Seq(Byte)
    BY <2>1 DEF SentReadable
  <2> HIDE DEF f
  <2>3. l + MaxRead <= BUF_MAX /\ l \in Nat
    BY <2>2 DEF Report
  <2> HIDE DEF l, p
  <2> QED BY ONLY <1>6, <1>8, <2>1, <2>3
<1>12. /\ buf_tmp' = Placed(buf_tmp, p, a) /\ p_index' = p + n - 0 /\ reader' = "cut"
  <2>1. ~ read_to_tmp_reset(a)
    <3>1. ~ (p + n >= BUF_MAX)
      BY ONLY <1>6, <1>8, <1>11
    <3> QED BY <1>5, <3>1 DEF read_to_tmp_reset
  <2>2. Collect(a)
    BY <1>1, <2>1 DEF a
  <2> QED BY <1>5, <2>2 DEF Collect, Unescape
<1> DEFINE q == Placed(buf_tmp, p, a)
<1>13. PlacedWell(q, buf_tmp, p, a)
  <2>1. p + Len(a) < Len(buf_tmp) /\ p \in Nat
    BY <1>5, <1>6, <1>9, <1>11
  <2> HIDE DEF p
  <2> QED BY <1>5, <1>9, <2>1, PlacedAt
<1> HIDE DEF q
<1>14. /\ \A j \in 1 .. p : q[j] = buf_tmp[j]
       /\ \A j \in 1 .. n : q[p + j] = a[j]
       /\ \A j \in p + n + 1 .. BUF_MAX : q[j] = buf_tmp[j]
  BY <1>5, <1>9, <1>13 DEF PlacedWell
<1> DEFINE z == p + n
<1>15. Has(D, q, z, w, b)
  <2>1. z \in Nat /\ z < BUF_MAX /\ b + z <= L /\ Len(w) = L - (b + z)
    BY ONLY <1>5, <1>6, <1>8, <1>11
  <2>2. ASSUME NEW j \in 1 .. z PROVE q[j] = D[b + j]
    <3>1. CASE j <= p
      <4>1. j \in 1 .. p
        BY <3>1
      <4> QED BY <1>7, <1>14, <4>1
    <3>2. CASE ~ (j <= p)
      <4> DEFINE i == j - p
      <4>1. i \in 1 .. n /\ p + i = j /\ i \in 1 .. Len(wire) /\ b + p + i = b + j
        BY ONLY <1>6, <1>8, <3>2, j \in 1 .. z
      <4> HIDE DEF i, p
      <4>2. q[p + i] = a[i] /\ a[i] = wire[i] /\ wire[i] = D[b + p + i]
        BY <1>5, <1>7, <1>14, <4>1
      <4> QED BY <4>1, <4>2
    <3> QED BY <3>1, <3>2
  <2>3. ASSUME NEW j \in z + 1 .. BUF_MAX PROVE q[j] = 0
    <3>1. j \in p + n + 1 .. BUF_MAX /\ j \in p + 1 .. BUF_MAX
      BY <1>6, <1>8
    <3> QED BY <1>7, <1>14, <3>1
  <2>4. ASSUME NEW j \in 1 .. Len(w) PROVE w[j] = D[b + z + j]
    <3>1. j \in 1 .. Len(wire) - n /\ n + j \in 1 .. Len(wire) /\ b + p + (n + j) = b + z + j
      BY <1>5, <1>6, <1>8
    <3> HIDE DEF p, z
    <3>2. w[j] = wire[n + j] /\ wire[n + j] = D[b + p + (n + j)]
      BY <1>5, <1>7, <3>1
    <3> QED BY <3>1, <3>2
  <2> HIDE DEF z
  <2> QED BY <1>6, <2>1, <2>2, <2>3, <2>4 DEF Has, L
<1>16. Has(D', buf_tmp', p_index', wire', b)
  <2>1. D' = D
    BY <1>2 DEF D
  <2>2. buf_tmp' = q /\ wire' = w
    BY <1>1, <1>12 DEF q, w
  <2>3. p_index' = z
    BY <1>6, <1>8, <1>12
  <2> HIDE DEF z
  <2> QED BY <1>15, <2>1, <2>2, <2>3
<1>17. len' = p_index'
  BY <1>1, <1>3, <1>6, <1>8, <1>12
<1>18. Handed(b)'
  <2>1. Pending' = Pending
    BY <1>2 DEF Pending
  <2> QED BY <1>2, <1>4, <2>1, HandedSame
<1>19. Begins(b, k)'
  BY <1>2, <1>10, <1>12 DEF Begins
<1> QED BY <1>16, <1>17, <1>18, <1>19 DEF QiyuanInv, D

(* The frame at the head of the buffer is cut out whole.                    *)
LEMMA QiyuanCut ==
  ASSUME ReceiverTypes, SentReadable, delivered \in Seq(Seq(Byte)),
         QiyuanInv, port = "qiyuan", CutFrame
  PROVE  QiyuanInv'
<1> USE DEF line
<1> DEFINE D == Stream(noise, sent)
           p == p_index
           L == Len(D)
<1>1. /\ Heads # {} /\ p_flag = 0 /\ reader = "cut"
      /\ UNCHANGED <<line, reader, delivered>>
      /\ workers' \in {workers, workers + 1}
  BY DEF CutFrame
<1>2. len = p
  BY DEF QiyuanInv
<1>3. PICK b : /\ Has(D, buf_tmp, p, wire, b) /\ Handed(b)
               /\ b = L \/ \E k : Begins(b, k)
  BY DEF QiyuanInv
<1>4. /\ b \in Nat /\ p \in Nat /\ p < BUF_MAX /\ b + p <= L
      /\ Len(wire) = L - (b + p)
  BY <1>3 DEF Has
<1>5. /\ \A j \in 1 .. p : buf_tmp[j] = D[b + j]
      /\ \A j \in p + 1 .. BUF_MAX : buf_tmp[j] = 0
      /\ \A j \in 1 .. Len(wire) : wire[j] = D[b + p + j]
  BY <1>3 DEF Has
<1>6. L \in Nat /\ BUF_MAX \in Nat
  <2>1. noise \in Seq(Byte) /\ sent \in Seq(Seq(Byte))
    BY DEF SentReadable
  <2>2. D \in Seq(Byte)
    BY <2>1, FramePlaces
  <2> HIDE DEF D
  <2> QED BY <2>2, ReceiverAssumption
<1>7. Min(Heads) \in Heads
  BY <1>1, FirstHead
<1>8. /\ Min(Heads) \in 1 .. BUF_MAX /\ package_size(Min(Heads)) \in 1 .. DATA_MAX - 1
      /\ len >= package_size(Min(Heads))
  <2>1. Min(Heads) \in 1 .. BUF_MAX /\ package_size(Min(Heads)) \in 1 .. DATA_MAX - 1
    BY <1>7, PackageType
  <2>2. FrameAt(Min(Heads))
    BY <1>7 DEF Heads
  <2> QED BY <2>1, <2>2 DEF FrameAt
<1> HIDE DEF D, L
<1>9. PICK k : Begins(b, k)
  <2>1. CASE b = L
    <3>1. p = 0
      BY ONLY <1>4, <1>6, <2>1
    <3>2. package_size(Min(Heads)) >= 1
      <4> DEFINE n == package_size(Min(Heads))
      <4>1. n \in 1 .. DATA_MAX - 1 /\ DATA_MAX = 30
        BY <1>8 DEF DATA_MAX
      <4> HIDE DEF n
      <4>2. n >= 1
        BY ONLY <4>1
      <4> QED BY <4>2 DEF n
    <3> QED BY <1>2, <1>8, <3>1, <3>2
  <2> QED BY <1>3, <2>1
<1> DEFINE f == sent[k]
           l == Len(f)
<1>10. k \in 1 .. Len(sent) /\ b = Before(noise, sent, k)
  BY <1>9 DEF Begins
<1>11. FrameThere(D, b, f)
  BY <1>10, FrameIsThere DEF D
<1>12. Min(Heads) = 1 /\ package_size(1) = l /\ l <= p
  BY <1>1, <1>2, <1>3, <1>11, HeadIsFirst
<1>13. /\ f \in Seq(Byte) /\ Report(f) /\ b + l <= L
       /\ \A j \in 1 .. l : D[b + j] = f[j]
       /\ b + l = L \/ \E h \in 1 .. Len(sent) : b + l = Before(noise, sent, h)
  BY <1>11 DEF FrameThere, L
<1>14. l \in 1 .. DATA_MAX - 1 /\ l \in Nat /\ l >= 1 /\ l \in 0 .. DATA_MAX - 1
  <2>1. l \in 7 .. 29 /\ DATA_MAX = 30
    BY <1>13 DEF Report, DATA_MAX
  <2> HIDE DEF l
  <2> QED BY <2>1
<1> HIDE DEF f, l
<1>15. Cut(1) = l
  <2>1. Cut(1) = 1 + l - 1
    BY <1>12 DEF Cut
  <2> QED BY <1>14, <2>1
<1>16. /\ buf_final' = Bytes(1, l)
       /\ len' = len - l
       /\ p_index' = p - l
       /\ buf_tmp' = SubSeq(buf_tmp, l + 1, BUF_MAX) \o Zeros(Min({l, BUF_MAX}))
  BY <1>12, <1>15 DEF CutFrame
<1>17. buf_final' = f
  <2> DEFINE q == Bytes(1, l)
  <2>0. 1 \in 1 .. BUF_MAX
    BY <1>8, <1>12
  <2>1. q \in Seq(Byte) /\ Len(q) = l
    BY <1>14, <2>0, BytesType
  <2>2. \A j \in 1 .. l : q[j] = At(buf_tmp, 1 + j - 1)
    BY <1>14, <2>0, BytesAt
  <2> HIDE DEF q
  <2>3. ASSUME NEW j \in 1 .. l PROVE q[j] = f[j]
    <3>1. 1 + j - 1 = j /\ j \in 1 .. p /\ j \in 1 .. BUF_MAX
      BY <1>4, <1>6, <1>12, <1>14
    <3>2. j \in DOMAIN buf_tmp
      BY <3>1 DEF ReceiverTypes
    <3>3. q[j] = buf_tmp[j]
      BY <2>2, <3>1, <3>2 DEF At
    <3> QED BY <1>5, <1>13, <3>1, <3>3
  <2>4. f \in Seq(Byte) /\ Len(q) = Len(f) /\ \A j \in 1 .. Len(q) : q[j] = f[j]
    BY <1>13, <2>1, <2>3 DEF l
  <2>5. q = f
    BY <2>1, <2>4, SameBytes
  <2> QED BY <1>16, <2>5 DEF q
<1>18. \A j \in 1 .. BUF_MAX : buf_tmp'[j] = IF l + j <= BUF_MAX THEN buf_tmp[l + j] ELSE 0
  <2> DEFINE shifted == SubSeq(buf_tmp, l + 1, BUF_MAX) \o Zeros(Min({l, BUF_MAX}))
  <2>1. buf_tmp \in Seq(Byte) /\ BUF_MAX = Len(buf_tmp) /\ l \in Nat
    BY <1>14 DEF ReceiverTypes
  <2>2. MovedUp(shifted, buf_tmp, l, BUF_MAX)
    BY <2>1, ShiftType
  <2> HIDE DEF shifted
  <2>3. buf_tmp' = shifted
    BY <1>16 DEF shifted
  <2> QED BY <2>2, <2>3 DEF MovedUp
<1>18a. PICK a \in Nat : a = b + l
  BY <1>4, <1>14
<1> DEFINE z == p - l
           q == buf_tmp'
<1>19. Has(D, q, z, wire, a)
  <2> HIDE DEF q
  <2>1. /\ a \in Nat /\ z \in Nat /\ z < BUF_MAX /\ a + z = b + p /\ a + z <= L
    BY ONLY <1>4, <1>6, <1>12, <1>13, <1>14, <1>18a
  <2>2. ASSUME NEW j \in 1 .. z PROVE q[j] = D[a + j]
    <3>1. j \in 1 .. BUF_MAX /\ l + j <= BUF_MAX /\ l + j \in 1 .. p /\ b + (l + j) = a + j
      BY ONLY <1>4, <1>6, <1>14, <1>18a, j \in 1 .. z
    <3> HIDE DEF z
    <3>2. q[j] = buf_tmp[l + j] /\ buf_tmp[l + j] = D[b + (l + j)]
      BY <1>5, <1>18, <3>1 DEF q
    <3> QED BY <3>1, <3>2
  <2>3. ASSUME NEW j \in z + 1 .. BUF_MAX PROVE q[j] = 0
    <3>1. j \in 1 .. BUF_MAX
      BY ONLY <2>1, <1>6, j \in z + 1 .. BUF_MAX
    <3>2. CASE l + j <= BUF_MAX
      <4>1. l + j \in p + 1 .. BUF_MAX
        BY ONLY <1>4, <1>6, <1>14, <3>2, j \in z + 1 .. BUF_MAX
      <4> QED BY <1>5, <1>18, <3>1, <3>2, <4>1 DEF q
    <3>3. CASE ~ (l + j <= BUF_MAX)
      BY <1>18, <3>1, <3>3 DEF q
    <3> QED BY <3>2, <3>3
  <2>4. Len(wire) = L - (a + z) /\ \A j \in 1 .. Len(wire) : wire[j] = D[a + z + j]
    <3> HIDE DEF z
    <3> QED BY <1>4, <1>5, <2>1
  <2> HIDE DEF z
  <2> QED BY <2>1, <2>2, <2>3, <2>4 DEF Has, L
<1>20. Has(D', buf_tmp', p_index', wire', a)
  <2>1. D' = D /\ wire' = wire
    BY <1>1 DEF D
  <2>2. p_index' = z
    BY <1>16
  <2> HIDE DEF z
  <2> QED BY <1>19, <2>1, <2>2
<1>21. len' = p_index'
  BY <1>2, <1>16
<1>22. workers = 0
  BY <1>1 DEF ReceiverTypes
<1>23. Handed(a)'
  <2>0. b \in Int /\ a \in Int /\ b <= a /\ b <= Before(noise, sent, k) /\ Before(noise, sent, k) < a
    BY <1>4, <1>10, <1>14, <1>18a
  <2>1. CASE workers' = 0
    <3>1. Pending' = Pending
      BY <1>1, <1>22, <2>1 DEF Pending
    <3>2. Handed(a)
      BY <1>3, <2>0, HandedLater
    <3> QED BY <1>1, <3>1, <3>2, HandedSame
  <2>2. CASE workers' # 0
    <3> DEFINE r == Append(delivered, sent[k])
    <3>1. Pending' = r
      BY <1>1, <1>17, <2>2 DEF Pending, f
    <3>2. FromFirst(r, a)
      <4>1. r = Append(delivered, sent[k])
        OBVIOUS
      <4> HIDE DEF r
      <4>2. SentReadable /\ delivered \in Seq(Seq(Byte)) /\ k \in 1 .. Len(sent) /\ Handed(b)
        BY <1>3, <1>10
      <4> QED BY ONLY <1>22, <2>0, <4>1, <4>2, HandedNext
    <3> HIDE DEF r
    <3>3. noise' = noise /\ sent' = sent
      BY <1>1
    <3> QED BY <3>1, <3>2, <3>3 DEF Handed, FromFirst
  <2> QED BY <2>1, <2>2
<1>24. a = Len(D') \/ \E h : Begins(a, h)'
  <2>1. D' = D
    BY <1>1 DEF D
  <2>2. reader' # "read" /\ noise' = noise /\ sent' = sent
    BY <1>1
  <2> QED BY <1>13, <1>18a, <2>1, <2>2 DEF Begins, L
<1> QED BY <1>20, <1>21, <1>23, <1>24 DEF QiyuanInv, D

(* No frame found: something is missing of the first.                       *)
LEMMA QiyuanNoFrame ==
  ASSUME ReceiverTypes, SentReadable, QiyuanInv, port = "qiyuan", NoFrame
  PROVE  QiyuanInv'
<1> USE DEF line
<1> DEFINE D == Stream(noise, sent)
<1>1. /\ Heads = {}
      /\ UNCHANGED <<line, buf_tmp, p_index, len, p_flag, buf_final, workers, delivered>>
  BY DEF NoFrame
<1>2. len = p_index
  BY DEF QiyuanInv
<1>3. PICK b : /\ Has(D, buf_tmp, p_index, wire, b) /\ Handed(b)
               /\ b = Len(D) \/ \E k : Begins(b, k)
  BY DEF QiyuanInv
<1>4. D' = D
  BY <1>1
<1> HIDE DEF D
<1>5. Has(D', buf_tmp', p_index', wire', b) /\ len' = p_index'
  BY <1>1, <1>2, <1>3, <1>4
<1>6. Handed(b)'
  <2>1. Pending' = Pending
    BY <1>1 DEF Pending
  <2> QED BY <1>1, <1>3, <2>1, HandedSame
<1>7. ASSUME NEW k, Begins(b, k) PROVE Begins(b, k)'
  <2>1. k \in 1 .. Len(sent) /\ b = Before(noise, sent, k)
    BY <1>7 DEF Begins
  <2> DEFINE f == sent[k]
  <2>2. FrameThere(D, b, f)
    BY <2>1, FrameIsThere DEF D
  <2> HIDE DEF f
  <2>3. ~ (Len(f) <= p_index)
    BY <1>1, <1>2, <1>3, <2>2, WholeFrame
  <2>4. Len(f) \in Nat /\ p_index \in Nat
    BY <1>3, <2>2 DEF FrameThere, Has
  <2>5. p_index < Len(sent[k])
    BY <2>3, <2>4 DEF f
  <2> QED BY <1>1, <2>1, <2>5 DEF Begins
<1> QED BY <1>3, <1>4, <1>5, <1>6, <1>7 DEF QiyuanInv, D

(* A worker's end.                                                          *)
LEMMA QiyuanWorker ==
  ASSUME ReceiverTypes, QiyuanInv, data_to_other_thread
  PROVE  QiyuanInv'
<1> USE DEF line
<1>1. UNCHANGED <<line, buf_tmp, p_index, len, reader>> /\ Pending' = Pending
  <2>1. workers > 0 /\ workers' = workers - 1 /\ delivered' = Append(delivered, buf_final)
        /\ UNCHANGED <<line, buf_tmp, p_index, len, reader, buf_final>>
    BY DEF data_to_other_thread
  <2>2. workers = 1 /\ workers' = 0
    BY <2>1 DEF ReceiverTypes
  <2> QED BY <2>1, <2>2 DEF Pending
<1>2. SUFFICES ASSUME port = "qiyuan" PROVE QiyuanInv'
  BY <1>1 DEF QiyuanInv
<1> DEFINE D == Stream(noise, sent)
<1>3. PICK b : /\ Has(D, buf_tmp, p_index, wire, b) /\ Handed(b)
               /\ b = Len(D) \/ \E k : Begins(b, k)
  BY <1>2 DEF QiyuanInv
<1>4. Handed(b)'
  BY <1>1, <1>3, HandedSame
<1>5. D' = D
  BY <1>1
<1>6. len' = p_index'
  BY <1>1, <1>2 DEF QiyuanInv
<1> HIDE DEF D
<1>7. Has(D', buf_tmp', p_index', wire', b)
  BY <1>1, <1>3, <1>5
<1>8. b = Len(D') \/ \E k : Begins(b, k)'
  BY <1>1, <1>3, <1>5 DEF Begins
<1> QED BY <1>4, <1>6, <1>7, <1>8 DEF QiyuanInv, D

(* At first the line has all.                                               *)
LEMMA QiyuanInit ==
  ASSUME Init, SentReadable
  PROVE  QiyuanInv
<1> SUFFICES ASSUME port = "qiyuan" PROVE QiyuanInv
  BY DEF QiyuanInv
<1> DEFINE D == Stream(noise, sent)
           L == Len(D)
<1>1. /\ noise \in Seq(Byte) /\ sent \in Seq(Seq(Byte)) /\ noise = <<>>
      /\ \A k \in 1 .. Len(sent) : Report(sent[k])
  BY DEF SentReadable
<1>2. wire = D
  <2>1. [k \in DOMAIN sent |-> OnLine(sent[k])] = sent
    <3>1. \A k \in DOMAIN sent : OnLine(sent[k]) = sent[k]
      BY DEF OnLine
    <3> QED BY <1>1, <3>1
  <2> QED BY <2>1 DEF Init, Stream
<1>3. D \in Seq(Byte) /\ (sent = <<>> => L = Len(noise))
  BY <1>1, FramePlaces
<1>4. L \in Nat
  BY <1>3
<1> HIDE DEF D, L
<1>5. Has(D, buf_tmp, p_index, wire, 0)
  <2>1. p_index = 0 /\ \A j \in 1 .. BUF_MAX : buf_tmp[j] = 0
    BY DEF Init, Zeros
  <2>2. BUF_MAX \in Nat /\ 0 < BUF_MAX
    BY ReceiverAssumption
  <2>3. \A j \in 1 .. Len(wire) : wire[j] = D[0 + 0 + j]
    <3> TAKE j \in 1 .. Len(wire)
    <3>1. 0 + 0 + j = j
      OBVIOUS
    <3> QED BY <1>2, <3>1
  <2> QED BY <1>2, <1>4, <2>1, <2>2, <2>3 DEF Has, L
<1>6. Handed(0)
  <2>1. Pending = <<>> /\ Len(Pending) = 0
    BY DEF Pending, Init
  <2> DEFINE place == [j \in 1 .. 0 |-> 1]
  <2>2. 1 .. 0 = {}
    OBVIOUS
  <2>3. place \in [1 .. 0 -> 1 .. Len(sent)]
    BY <2>2
  <2> HIDE DEF place
  <2> QED BY <2>1, <2>2, <2>3 DEF Handed, FromFirst
<1>7. 0 = L \/ \E k : Begins(0, k)
  <2>1. CASE sent = <<>>
    <3>1. Len(noise) = 0
      BY <1>1
    <3> QED BY <1>3, <2>1, <3>1
  <2>2. CASE sent # <<>>
    <3>1. 1 \in 1 .. Len(sent)
      BY <1>1, <2>2
    <3>2. FramePlace(noise, sent, D, 1)
      BY <1>1, <3>1, FramePlaces DEF D
    <3>3. Before(noise, sent, 1) = 0
      <4>1. Len(noise) = 0
        BY <1>1
      <4> QED BY <3>2, <4>1 DEF FramePlace
    <3> DEFINE l == Len(sent[1])
    <3>4. l > 0
      <4>1. l \in 7 .. 29
        BY <1>1, <3>1 DEF Report, DATA_MAX
      <4> HIDE DEF l
      <4> QED BY <4>1
    <3>5. p_index = 0
      BY DEF Init
    <3> QED BY <3>1, <3>3, <3>4, <3>5 DEF Begins
  <2> QED BY <2>1, <2>2
<1>8. len = p_index
  BY DEF Init
<1> QED BY <1>5, <1>6, <1>7, <1>8 DEF QiyuanInv, D, L

--------------------------------------------------------------------------------
(* Both readers.                                                            *)

(* The inductive invariant.                                                 *)
ReaderInv ==
  /\ ReceiverTypes /\ SentReadable
  /\ delivered \in Seq(Seq(Byte))
  /\ ClowireInv /\ QiyuanInv

(* It holds when the bytes on the line can be told apart ...                *)
LEMMA ReaderInvInit ==
  ASSUME Readable
  PROVE  Init => ReaderInv
<1> SUFFICES ASSUME Init PROVE ReaderInv
  OBVIOUS
<1>1. SentReadable
  <2>1. noise \in Seq(Byte) /\ sent \in Seq(Seq(Byte) \ {<<>>})
    BY LineType
  <2>2. ASSUME port = "clowire" PROVE CheckTells(noise, sent) /\ Escapable(noise, sent)
    <3>1. sent \in Traffic /\ noise \in Noise
      BY <2>2 DEF Init
    <3> QED BY <3>1 DEF Readable
  <2>3. ASSUME port = "qiyuan"
        PROVE  noise = <<>> /\ \A k \in DOMAIN sent : Report(sent[k])
    <3>1. sent \in Reports /\ noise \in Strays
      BY <2>3 DEF Init
    <3> QED BY <3>1 DEF Readable
  <2> QED BY <2>1, <2>2, <2>3 DEF SentReadable
<1>2. delivered \in Seq(Seq(Byte))
  BY DEF Init
<1> QED BY <1>1, <1>2, ReceiverTypesInit, ClowireInit, QiyuanInit DEF ReaderInv

(* ... and every step keeps it.                                             *)
LEMMA ReaderInvStep == ReaderInv /\ [Next]_vars => ReaderInv'
<1> SUFFICES ASSUME ReaderInv, [Next]_vars PROVE ReaderInv'
  OBVIOUS
<1> USE DEF line
<1>0. /\ ReceiverTypes /\ SentReadable /\ delivered \in Seq(Seq(Byte))
      /\ ClowireInv /\ QiyuanInv /\ port \in {"clowire", "qiyuan"}
  BY DEF ReaderInv, ReceiverTypes
<1>1. ReceiverTypes'
  BY <1>0, ReceiverTypesStep
<1>2. UNCHANGED <<port, sent, noise>>
  BY DEF Next, vars, general_serial_read, CutFrame, NoFrame, data_to_other_thread, Done
<1>3. SentReadable'
  BY <1>0, <1>2 DEF SentReadable
<1>4. delivered' \in Seq(Seq(Byte))
  <2>1. CASE data_to_other_thread
    <3>1. delivered' = Append(delivered, buf_final) /\ buf_final \in Seq(Byte)
      BY <1>0, <2>1 DEF data_to_other_thread, ReceiverTypes
    <3> DEFINE T == Seq(Byte)
    <3>2. delivered \in Seq(T) /\ buf_final \in T
      BY <1>0, <3>1
    <3> HIDE DEF T
    <3>3. delivered' \in Seq(T)
      BY <3>1, <3>2
    <3> QED BY <3>3 DEF T
  <2>2. CASE ~ data_to_other_thread
    <3>1. delivered' = delivered
      BY <2>2 DEF Next, vars, general_serial_read, CutFrame, NoFrame, Done
    <3> QED BY <1>0, <3>1
  <2> QED BY <2>1, <2>2
<1>5. ClowireInv'
  <2> SUFFICES ASSUME port = "clowire" PROVE ClowireInv'
    BY <1>2 DEF ClowireInv
  <2>1. CASE general_serial_read
    BY <1>0, <2>1, ClowireRead
  <2>2. CASE CutFrame
    BY <1>0, <2>2, ClowireCut
  <2>3. CASE data_to_other_thread
    BY <1>0, <2>3, ClowireWorker
  <2>4. CASE NoFrame \/ Done \/ UNCHANGED vars
    <3>1. UNCHANGED <<port, sent, noise, wire, buf_tmp, p_index, buf_final, workers, delivered>>
      BY <2>4 DEF NoFrame, Done, vars
    <3> DEFINE D == Stream(noise, sent)
    <3>2. PICK b, s, half, Y, c :
            Holding(D, buf_tmp, p_index, wire, b, s, half, Y, c) /\ Handed(b)
      BY <1>0 DEF ClowireInv
    <3>3. D' = D
      BY <3>1
    <3>4. Pending' = Pending
      BY <3>1 DEF Pending
    <3>5. Handed(b)'
      BY <3>1, <3>2, <3>4, HandedSame
    <3> HIDE DEF D
    <3>6. Holding(D', buf_tmp', p_index', wire', b, s, half, Y, c)
      BY <3>1, <3>2, <3>3
    <3> QED BY <3>5, <3>6 DEF ClowireInv, D
  <2> QED BY <2>1, <2>2, <2>3, <2>4 DEF Next
<1>6. QiyuanInv'
  <2> SUFFICES ASSUME port = "qiyuan" PROVE QiyuanInv'
    BY <1>2 DEF QiyuanInv
  <2>1. CASE general_serial_read
    BY <1>0, <2>1, QiyuanRead
  <2>2. CASE CutFrame
    BY <1>0, <2>2, QiyuanCut
  <2>3. CASE data_to_other_thread
    BY <1>0, <2>3, QiyuanWorker
  <2>4. CASE NoFrame
    BY <1>0, <2>4, QiyuanNoFrame
  <2>5. CASE Done \/ UNCHANGED vars
    <3>1. UNCHANGED <<port, sent, noise, wire, buf_tmp, p_index, len, reader, buf_final,
                      workers, delivered>>
      BY <2>5 DEF Done, vars
    <3> DEFINE D == Stream(noise, sent)
    <3>2. PICK b : /\ Has(D, buf_tmp, p_index, wire, b) /\ Handed(b)
                   /\ b = Len(D) \/ \E k : Begins(b, k)
      BY <1>0 DEF QiyuanInv
    <3>3. D' = D
      BY <3>1
    <3>4. Pending' = Pending
      BY <3>1 DEF Pending
    <3>5. Handed(b)'
      BY <3>1, <3>2, <3>4, HandedSame
    <3>6. len' = p_index'
      BY <1>0, <3>1 DEF QiyuanInv
    <3> HIDE DEF D
    <3>7. Has(D', buf_tmp', p_index', wire', b)
      BY <3>1, <3>2, <3>3
    <3>8. b = Len(D') \/ \E k : Begins(b, k)'
      BY <3>1, <3>2, <3>3 DEF Begins
    <3> QED BY <3>5, <3>6, <3>7, <3>8 DEF QiyuanInv, D
  <2> QED BY <2>1, <2>2, <2>3, <2>4, <2>5 DEF Next
<1> QED BY <1>1, <1>3, <1>4, <1>5, <1>6 DEF ReaderInv

(* On a line whose frames can be told by their bytes, what the workers pass *)
(* on are frames that were sent, in their order, however the bytes are      *)
(* spread over reads and whatever a full buffer loses (get_valid_cbus_data, *)
(* get_valid_trans_data).                                                   *)
THEOREM DeliveredGenuine ==
  ASSUME Readable
  PROVE  Spec => []Genuine
<1>1. ReaderInv => Genuine
  <2> SUFFICES ASSUME ReaderInv PROVE Genuine
    OBVIOUS
  <2>1. \E b : Handed(b)
    BY DEF ReaderInv, ClowireInv, QiyuanInv, ReceiverTypes
  <2>2. PICK b : Handed(b)
    BY <2>1
  <2>3. sent \in Seq(Seq(Byte))
    BY DEF ReaderInv, SentReadable
  <2>4. delivered \in Seq(Seq(Byte)) /\ buf_final \in Seq(Byte)
    BY DEF ReaderInv, ReceiverTypes
  <2> QED BY <2>2, <2>3, <2>4, HandedGenuine
<1>2. Init => ReaderInv
  BY ReaderInvInit
<1> QED BY <1>1, <1>2, ReaderInvStep, PTL DEF Spec

(* And the next bytes always go into the buffer: p_index is one of its      *)
(* places (general_serial_read, trans_serial_read).                         *)
THEOREM IndexStaysInBuffer ==
  ASSUME Readable
  PROVE  Spec => []IndexInBuffer
<1>1. ReaderInv => IndexInBuffer
  <2> SUFFICES ASSUME ReaderInv PROVE IndexInBuffer
    OBVIOUS
  <2>1. p_index \in Nat /\ p_index < BUF_MAX
    <3>1. CASE port = "clowire"
      <4> DEFINE D == Stream(noise, sent)
      <4>1. PICK b, s, half, Y, c : Holding(D, buf_tmp, p_index, wire, b, s, half, Y, c)
        BY <3>1 DEF ReaderInv, ClowireInv
      <4>2. s \in Nat /\ half \in {0, 1} /\ p_index = s + half /\ p_index < BUF_MAX
        BY <4>1 DEF Holding
      <4> QED BY ONLY <4>2
    <3>2. CASE port = "qiyuan"
      <4>1. PICK b : Has(Stream(noise, sent), buf_tmp, p_index, wire, b)
        BY <3>2 DEF ReaderInv, QiyuanInv
      <4> QED BY <4>1 DEF Has
    <3> QED BY <3>1, <3>2 DEF ReaderInv, ReceiverTypes
  <2> QED BY <2>1, ReceiverAssumption DEF IndexInBuffer
<1>2. Init => ReaderInv
  BY ReaderInvInit
<1> QED BY <1>1, <1>2, ReaderInvStep, PTL DEF Spec

--------------------------------------------------------------------------------
(* The translations of Translation hold what Installation asks of them for  *)
(* every dial value, every number of modules and every frame.               *)

(* The devices and subaddresses of the frames on the bus are bytes.         *)
LEMMA FramesType ==
  ASSUME NEW f \in Frames
  PROVE  f \in [dev : 0 .. 255, sub : LampSubs \cup SensorSubs]
<1>1. Devices \subseteq 0 .. 255
  BY InstallationAssumption
<1>2. /\ f = [dev |-> f.dev, sub |-> f.sub]
      /\ f.dev \in Devices /\ f.sub \in LampSubs \cup SensorSubs
  BY Zenon DEF Frames
<1>3. f.dev \in 0 .. 255
  BY <1>1, <1>2
<1> QED BY <1>2, <1>3, Zenon

(* The types hold of the first installation ...                             *)
LEMMA InstallationTypeInit == InstallationInit => InstallationTypeOK
<1> SUFFICES ASSUME InstallationInit PROVE InstallationTypeOK
  OBVIOUS
<1>1. dial \in 0 .. 240 /\ DIMMER_CNT \in 0 .. 63 /\ PIR_NUM \in 0 .. 31
  BY InstallationAssumption DEF InstallationInit
<1>2. Written(dial, DIMMER_CNT, PIR_NUM) /\ frame \in Frames
  BY DEF InstallationInit
<1> QED BY <1>1, <1>2, FramesType DEF InstallationTypeOK

(* ... are kept by a new address file and by a frame ...                    *)
LEMMA InstallationTypeStep == InstallationTypeOK /\ [InstallationNext]_installation => InstallationTypeOK'
<1> SUFFICES ASSUME InstallationTypeOK, [InstallationNext]_installation PROVE InstallationTypeOK'
  OBVIOUS
<1>1. ASSUME save_to_addr PROVE InstallationTypeOK'
  <2>1. dial' \in 0 .. 240 /\ DIMMER_CNT' \in 0 .. 63 /\ PIR_NUM' \in 0 .. 31
    BY <1>1, InstallationAssumption DEF save_to_addr
  <2>2. Written(dial', DIMMER_CNT', PIR_NUM') /\ UNCHANGED frame
    BY <1>1 DEF save_to_addr
  <2> QED BY <2>1, <2>2 DEF InstallationTypeOK, Written
<1>2. ASSUME Receive PROVE InstallationTypeOK'
  BY <1>2, FramesType DEF Receive, addr_txt, InstallationTypeOK, Written
<1>3. CASE UNCHANGED installation
  BY <1>3 DEF installation, InstallationTypeOK, Written
<1> QED BY <1>1, <1>2, <1>3 DEF InstallationNext

(* ... and so always hold.                                                  *)
LEMMA InstallationTypeCorrect == InstallationSpec => []InstallationTypeOK
BY InstallationTypeInit, InstallationTypeStep, PTL DEF InstallationSpec

--------------------------------------------------------------------------------
(* Brightness.                                                              *)

(* Between 0 and 100 per cent the result fits in a byte.                    *)
LEMMA LevelFits ==
  ASSUME NEW v \in 0 .. 100
  PROVE  /\ clo_qy_trans(v) \in 0 .. 255
         /\ clo_qy_trans(v) = ((255 * v + 5) \div 10 + 5) \div 10
                                - (IF v \in FloatShort THEN 1 ELSE 0)
BY SMT DEF clo_qy_trans, UCHAR, FloatShort

(* A brightness comes back at most one per cent lower, off and full exactly.*)
LEMMA LevelBack ==
  ASSUME NEW v \in 0 .. 100
  PROVE  LET back == qy_clo_trans(clo_qy_trans(v))
         IN  /\ back \in {v - 1, v}
             /\ v \in {0, 100} => back = v
             /\ v > 0 => back > 0
<1>1. CASE v \in FloatShort
  BY <1>1, LevelFits, SMT DEF qy_clo_trans, FloatShort
<1>2. CASE v \notin FloatShort
  BY <1>2, LevelFits, SMT DEF qy_clo_trans
<1> QED BY <1>1, <1>2

(* A brightness survives the way to the lamp and back but for one per cent. *)
THEOREM LevelsSurvive == InstallationSpec => []LevelRoundTrip
<1>1. LevelRoundTrip
  BY LevelBack, InstallationAssumption DEF LevelRoundTrip
<1> QED BY <1>1, PTL

(* Brighter commands give brighter lamps.                                   *)
THEOREM LevelsOrdered == InstallationSpec => []LevelOrder
<1>1. ASSUME NEW u \in 0 .. 100, NEW v \in 0 .. 100, u <= v
      PROVE  clo_qy_trans(u) <= clo_qy_trans(v)
  <2>1. CASE u = v
    BY <2>1, LevelFits, SMTT(30)
  <2>2. CASE u < v
    BY <2>2, LevelFits, SMT DEF FloatShort
  <2> QED BY <1>1, <2>1, <2>2
<1>2. LevelOrder
  BY <1>1, InstallationAssumption DEF LevelOrder
<1> QED BY <1>2, PTL

--------------------------------------------------------------------------------
(* Addresses.                                                               *)

(* The circuit of a lamp, module m and pair k of the module.                *)
LEMMA CircuitOf ==
  ASSUME NEW d \in 0 .. 255, NEW m \in 0 .. 62, NEW k \in 0 .. 3,
         NEW sub \in {49 + 2 * k, 50 + 2 * k}
  PROVE  addr_trans(d, d + m, sub) = 4 * m + k + 1
<1>1. CASE sub = 49 + 2 * k
  BY <1>1, SMT DEF addr_trans, IsColorTemp, Half, DIMMER, SUB_ADDR_MIN, UCHAR
<1>2. CASE sub = 50 + 2 * k
  BY <1>2, SMT DEF addr_trans, IsColorTemp, Half, DIMMER, SUB_ADDR_MIN, UCHAR
<1> QED BY <1>1, <1>2

(* And the lamp of a circuit.                                               *)
LEMMA LampOf ==
  ASSUME NEW d \in 0 .. 240, NEW m \in 0 .. 62, NEW k \in 0 .. 3, d + m <= 255,
         NEW application
  PROVE  addr_trans_qy(d, 4 * m + k + 1, application)
           = [dev |-> d + m, sub |-> IF application = 59 THEN 50 + 2 * k ELSE 49 + 2 * k]
<1> DEFINE c == 4 * m + k + 1
<1>1. c # 0 /\ (c - 1) \div 4 = m /\ (c - m * 4 - 1) * 2 + 49 = 49 + 2 * k
  BY SMT
<1> HIDE DEF c
<1>2. addr_trans_qy(d, c, application)
        = [dev |-> UCHAR(m + d),
           sub |-> UCHAR(IF application = 59 THEN 49 + 2 * k + 1 ELSE 49 + 2 * k)]
  BY <1>1, Zenon DEF addr_trans_qy, DIMMER, SUB_ADDR_MIN
<1>3. /\ UCHAR(m + d) = d + m
      /\ UCHAR(49 + 2 * k) = 49 + 2 * k
      /\ UCHAR(49 + 2 * k + 1) = 50 + 2 * k
  BY SMT DEF UCHAR
<1>4. addr_trans_qy(d, c, application)
        = [dev |-> d + m, sub |-> IF application = 59 THEN 50 + 2 * k ELSE 49 + 2 * k]
  BY <1>2, <1>3
<1> QED BY <1>4 DEF c

(* A command for a lamp, read back from the Qiyuan bus, names that lamp.    *)
THEOREM LampsRoundTrip == InstallationSpec => []LampRoundTrip
<1>1. InstallationTypeOK => LampRoundTrip
  <2> SUFFICES ASSUME InstallationTypeOK, frame.dev \in OwnDimmers, frame.sub \in LampSubs
               PROVE  addr_trans_qy(dimmer_addr,
                                    addr_trans(dimmer_addr, frame.dev, frame.sub),
                                    app(frame.sub))
                        = [dev |-> frame.dev, sub |-> frame.sub]
    BY DEF LampRoundTrip
  <2>1. PICK m \in 0 .. 62 : frame.dev = dial + m
    <3>0. dial \in Int /\ DIMMER_CNT \in 0 .. 63
      BY DEF InstallationTypeOK
    <3>1. frame.dev - dial \in 0 .. 62 /\ frame.dev = dial + (frame.dev - dial)
      BY <3>0, SMT DEF OwnDimmers
    <3> QED BY <3>1
  <2>2. PICK k \in 0 .. 3 : frame.sub \in {49 + 2 * k, 50 + 2 * k}
    BY SMT DEF LampSubs, SUB_ADDR_MIN
  <2>3. addr_trans(dimmer_addr, frame.dev, frame.sub) = 4 * m + k + 1
    <3>1. dial \in 0 .. 255
      BY SMT DEF InstallationTypeOK
    <3> QED BY <2>1, <2>2, <3>1, CircuitOf DEF dimmer_addr
  <2>5. dial + m <= 255 /\ dial \in 0 .. 240
    BY <2>1, SMT DEF InstallationTypeOK, Written, OwnDimmers
  <2>7. \A application : addr_trans_qy(dimmer_addr, 4 * m + k + 1, application)
          = [dev |-> frame.dev,
             sub |-> IF application = 59 THEN 50 + 2 * k ELSE 49 + 2 * k]
    <3> TAKE application
    <3>1. addr_trans_qy(dial, 4 * m + k + 1, application)
            = [dev |-> dial + m,
               sub |-> IF application = 59 THEN 50 + 2 * k ELSE 49 + 2 * k]
      BY <2>5, LampOf, ZenonT(60)
    <3> QED BY <2>1, <3>1, Zenon DEF dimmer_addr
  <2>8. CASE frame.sub = 49 + 2 * k
    <3>1. app(frame.sub) = 58
      BY <2>8, SMT DEF app, IsColorTemp
    <3> QED BY <2>3, <2>7, <2>8, <3>1
  <2>9. CASE frame.sub = 50 + 2 * k
    <3>1. app(frame.sub) = 59
      BY <2>9, SMT DEF app, IsColorTemp
    <3> QED BY <2>3, <2>7, <2>9, <3>1
  <2> QED BY <2>2, <2>8, <2>9
<1> QED BY InstallationTypeCorrect, <1>1, PTL

(* The row of a sensor, module m and place k of the module.                 *)
LEMMA RowOf ==
  ASSUME NEW d \in 0 .. 255, NEW m \in 0 .. 30, NEW sub \in SensorSubs
  PROVE  pir_addr_trans(d, d + m, sub) = 8 * m + sub - 32
BY SMT DEF pir_addr_trans, CIRCUIT_MAX, SUB_PIR_ADDR, SensorSubs, UCHAR

(* Sensors do not share rows of remote.db, and none has row 0.              *)
THEOREM SensorsHaveRows == InstallationSpec => []SensorRows
<1>1. InstallationTypeOK => SensorRows
  <2> SUFFICES ASSUME InstallationTypeOK, frame.dev \in OwnPirs, frame.sub \in SensorSubs
               PROVE  /\ pir_addr_trans(pir_addr, frame.dev, frame.sub)
                           \in 1 .. PIR_NUM * CIRCUIT_MAX
                      /\ \A dev \in OwnPirs, sub \in SensorSubs :
                           pir_addr_trans(pir_addr, dev, sub)
                             = pir_addr_trans(pir_addr, frame.dev, frame.sub)
                             => dev = frame.dev /\ sub = frame.sub
    BY DEF SensorRows
  <2> DEFINE first == dial + DIMMER_CNT
  <2>1. PIR_NUM \in 1 .. 31 /\ pir_addr = first /\ first \in 0 .. 255
    BY SMT DEF InstallationTypeOK, Written, OwnPirs, pir_addr
  <2>2. ASSUME NEW dev \in OwnPirs, NEW sub \in SensorSubs
        PROVE  /\ dev - first \in 0 .. PIR_NUM - 1
               /\ pir_addr_trans(pir_addr, dev, sub) = 8 * (dev - first) + sub - 32
    <3>1. dev - first \in 0 .. 30 /\ dev - first \in 0 .. PIR_NUM - 1
          /\ dev = first + (dev - first)
      BY <2>1, SMT DEF InstallationTypeOK, OwnPirs
    <3> HIDE DEF first
    <3> QED BY <2>1, <3>1, RowOf
  <2> HIDE DEF first
  <2>3. pir_addr_trans(pir_addr, frame.dev, frame.sub) \in 1 .. PIR_NUM * CIRCUIT_MAX
    BY <2>1, <2>2, SMT DEF SensorSubs, SUB_PIR_ADDR, CIRCUIT_MAX
  <2>4. ASSUME NEW dev \in OwnPirs, NEW sub \in SensorSubs,
               pir_addr_trans(pir_addr, dev, sub)
                 = pir_addr_trans(pir_addr, frame.dev, frame.sub)
        PROVE  dev = frame.dev /\ sub = frame.sub
    <3>1. dev \in Int /\ frame.dev \in Int
      BY SMT DEF OwnPirs, InstallationTypeOK
    <3> QED BY <2>1, <2>2, <2>4, <3>1, SMT DEF SensorSubs, SUB_PIR_ADDR, CIRCUIT_MAX
  <2> QED BY <2>3, <2>4
<1> QED BY InstallationTypeCorrect, <1>1, PTL

(* A number that begins with the digits of another is the same or at least  *)
(* ten times as large.                                                      *)
LEMMA PrefixFar ==
  ASSUME NEW longer \in Nat, NEW number \in Nat, BeginsWith(longer, number)
  PROVE  longer = number \/ (number > 0 /\ longer >= 10 * number)
<1>1. PICK k \in {1, 10, 100} : longer \div k = number /\ (k > 1 => number > 0)
  BY DEF BeginsWith
<1>2. CASE k = 1
  BY <1>1, <1>2, SMT
<1>3. CASE k = 10
  BY <1>1, <1>3, SMT
<1>4. CASE k = 100
  BY <1>1, <1>4, SMT
<1> QED BY <1>2, <1>3, <1>4

(* Up to nine modules, the filter tells our dimmers from our sensors.       *)
THEOREM FilterTellsKindsApart == InstallationSpec => []KindsApart
<1>1. InstallationTypeOK => KindsApart
  <2> SUFFICES ASSUME InstallationTypeOK, DIMMER_CNT + PIR_NUM <= 9
               PROVE  /\ frame.dev \in OwnDimmers => IsDimmer(frame.dev) /\ ~ IsPir(frame.dev)
                      /\ frame.dev \in OwnPirs => IsPir(frame.dev) /\ ~ IsDimmer(frame.dev)
    BY DEF KindsApart
  <2> USE DEF InstallationTypeOK
  <2>1. ASSUME NEW dev \in Nat, NEW first \in Nat, NEW count \in Nat,
               dev \in first .. first + count - 1
        PROVE  match_addr(dev, first, count)
    <3>1. dev - first + 1 \in 1 .. count /\ first + (dev - first + 1) - 1 = dev
      BY <2>1, SMT
    <3>2. BeginsWith(dev, dev)
      BY SMT DEF BeginsWith
    <3> QED BY <3>1, <3>2 DEF match_addr
  <2>2. ASSUME NEW dev \in Nat, NEW first \in Nat, NEW count \in Nat,
               dev \notin first .. first + count - 1,
               first + count <= dev + 9,
               match_addr(dev, first, count)
        PROVE  FALSE
    <3>1. PICK i \in 1 .. count : BeginsWith(first + i - 1, dev)
      BY <2>2 DEF match_addr
    <3>2. first + i - 1 \in Nat
      BY <3>1, SMT
    <3>3. first + i - 1 = dev \/ (dev > 0 /\ first + i - 1 >= 10 * dev)
      BY <3>1, <3>2, PrefixFar
    <3> QED BY <2>2, <3>1, <3>3, SMT
  <2>3. ASSUME frame.dev \in OwnDimmers
        PROVE  IsDimmer(frame.dev) /\ ~ IsPir(frame.dev)
    <3>1. frame.dev \in Nat
      BY <2>3, SMT DEF OwnDimmers
    <3> QED BY <2>1, <2>2, <2>3, <3>1, SMT DEF OwnDimmers, IsDimmer, IsPir
  <2>4. ASSUME frame.dev \in OwnPirs
        PROVE  IsPir(frame.dev) /\ ~ IsDimmer(frame.dev)
    <3>1. frame.dev \in Nat /\ dial + DIMMER_CNT \in Nat
      BY <2>4, SMT DEF OwnPirs
    <3> QED BY <2>1, <2>2, <2>4, <3>1, SMT DEF OwnPirs, IsDimmer, IsPir
  <2> QED BY <2>3, <2>4
<1> QED BY InstallationTypeCorrect, <1>1, PTL

================================================================================
