--------------------------- MODULE SceneControlProofs --------------------------
(****************************************************************************)
(* Theorems about SceneControl, for any modules, rows, frames and events.   *)
(* First what a loop over rows returns, by induction over their number;     *)
(* then the inductive invariant, and on it that what is acknowledged is     *)
(* stored, that a scene masks its sensors, that the database tracks the     *)
(* lamps, that the gateway hears of a scene, and that scenes are those of   *)
(* SceneBook.  That no lamp goes unreported, and the last one, hold under   *)
(* conditions on the numbers in use: the code searches numbers as text.     *)
(****************************************************************************)
EXTENDS SceneControl, WellFoundedInduction, SequenceTheorems, TLAPS

--------------------------------------------------------------------------------
(* Loops over sequences.                                                    *)

(* Induction over the numbers, for a set of them.                           *)
LEMMA SetInduction ==
  ASSUME NEW S, 0 \in S, \A n \in Nat : n \in S => n + 1 \in S
  PROVE  Nat \subseteq S
<1> DEFINE T == {n \in Nat : n \notin S}
<1> SUFFICES ASSUME T # {} PROVE FALSE
  OBVIOUS
<1>1. IsWellFoundedOn(OpToRel(<, Nat), Nat)
  BY NatLessThanWellFounded
<1>2. T \subseteq Nat
  OBVIOUS
<1> HIDE DEF T
<1>3. \E m \in T : \A k \in T : ~ (<<k, m>> \in OpToRel(<, Nat))
  BY <1>1, <1>2, WFMin
<1>4. PICK m \in T : \A k \in T : ~ (k < m)
  BY <1>2, <1>3 DEF OpToRel
<1>5. m # 0 /\ m - 1 \in Nat /\ (m - 1) + 1 = m
  BY DEF T
<1>6. m - 1 \in S
  BY <1>4, <1>5 DEF T
<1> QED BY <1>5, <1>6 DEF T

(* f has the results of a loop of N rounds, of which round n is h[n].       *)
Results(f, N, first, h) == f[0] = first /\ \A n \in 1 .. N : f[n] = h[n][f[n - 1]]

(* A loop of N rounds, which go from one element of D to another, has a     *)
(* result after each of them.                                               *)
LEMMA LoopResults ==
  ASSUME NEW N \in Nat, NEW D, NEW d0 \in D, NEW h \in [1 .. N -> [D -> D]]
  PROVE  \E f \in [0 .. N -> D] : Results(f, N, d0, h)
<1> DEFINE Upto(m) == \E f \in [0 .. m -> D] :
             \A n \in 0 .. m : f[n] = IF n = 0 THEN d0 ELSE h[n][f[n - 1]]
           T == {m \in Nat : m <= N => Upto(m)}
<1>1. 0 \in T
  <2> DEFINE f == [n \in 0 .. 0 |-> d0]
  <2>1. f \in [0 .. 0 -> D]
    OBVIOUS
  <2>2. \A n \in 0 .. 0 : n = 0 /\ f[n] = d0
    OBVIOUS
  <2> HIDE DEF f
  <2>3. Upto(0)
    BY <2>1, <2>2
  <2> QED BY <2>3
<1>2. ASSUME NEW m \in Nat, m \in T PROVE m + 1 \in T
  <2> SUFFICES ASSUME m + 1 <= N PROVE Upto(m + 1)
    OBVIOUS
  <2>1. PICK f \in [0 .. m -> D] :
          \A n \in 0 .. m : f[n] = IF n = 0 THEN d0 ELSE h[n][f[n - 1]]
    BY <1>2
  <2> DEFINE g == [n \in 0 .. m + 1 |-> IF n = m + 1 THEN h[m + 1][f[m]] ELSE f[n]]
  <2>2. m + 1 \in 1 .. N /\ f[m] \in D
    OBVIOUS
  <2>3. h[m + 1][f[m]] \in D
    BY <2>2
  <2>4. g \in [0 .. m + 1 -> D]
    BY <2>3
  <2>5. ASSUME NEW n \in 0 .. m + 1
        PROVE  g[n] = IF n = 0 THEN d0 ELSE h[n][g[n - 1]]
    <3>1. CASE n = m + 1
      <4>1. n # 0 /\ n - 1 = m /\ m \in 0 .. m + 1 /\ m # m + 1
        BY <3>1
      <4> QED BY <3>1, <4>1
    <3>2. CASE n \in 0 .. m
      <4>1. n # m + 1 /\ (n # 0 => n - 1 \in 0 .. m /\ n - 1 # m + 1)
        BY <3>2
      <4>2. g[n] = f[n] /\ (n # 0 => g[n - 1] = f[n - 1])
        BY <4>1
      <4> HIDE DEF g
      <4> QED BY <2>1, <3>2, <4>2
    <3> QED BY <3>1, <3>2
  <2> QED BY <2>4, <2>5
<1> HIDE DEF T
<1>3. Nat \subseteq T
  BY <1>1, <1>2, SetInduction
<1>4. Upto(N)
  BY <1>3 DEF T
<1>5. PICK f \in [0 .. N -> D] :
        \A n \in 0 .. N : f[n] = IF n = 0 THEN d0 ELSE h[n][f[n - 1]]
  BY <1>4
<1>6. f[0] = d0 /\ \A n \in 1 .. N : f[n] = h[n][f[n - 1]]
  <2>1. 0 \in 0 .. N /\ \A n \in 1 .. N : n \in 0 .. N /\ n # 0
    OBVIOUS
  <2> QED BY <1>5, <2>1
<1> QED BY <1>6 DEF Results

(* The loop of Filter, round by round.                                      *)
LEMMA KeptRounds ==
  ASSUME NEW T, NEW s \in Seq(T), NEW S
  PROVE  /\ Kept(s, S) \in [0 .. Len(s) -> Seq(T)]
         /\ Kept(s, S)[0] = <<>>
         /\ \A n \in 1 .. Len(s) :
              Kept(s, S)[n] = IF s[n] \in S THEN Append(Kept(s, S)[n - 1], s[n])
                              ELSE Kept(s, S)[n - 1]
<1> DEFINE h == [n \in 1 .. Len(s) |->
                   [x \in Seq(T) |-> IF s[n] \in S THEN Append(x, s[n]) ELSE x]]
           Round(f) == [n \in 0 .. Len(s) |->
                          IF n = 0 THEN <<>>
                          ELSE IF s[n] \in S THEN Append(f[n - 1], s[n]) ELSE f[n - 1]]
<1>0. Len(s) \in Nat /\ <<>> \in Seq(T)
  OBVIOUS
<1>1. h \in [1 .. Len(s) -> [Seq(T) -> Seq(T)]]
  OBVIOUS
<1>2. \A n \in 1 .. Len(s), x \in Seq(T) :
        h[n][x] = IF s[n] \in S THEN Append(x, s[n]) ELSE x
  OBVIOUS
<1> HIDE DEF h
<1>3. PICK f \in [0 .. Len(s) -> Seq(T)] : Results(f, Len(s), <<>>, h)
  <2> DEFINE D == Seq(T)
             N == Len(s)
             e == <<>>
  <2>1. N \in Nat /\ e \in D /\ h \in [1 .. N -> [D -> D]]
    BY <1>0, <1>1
  <2> HIDE DEF D, N, e
  <2>2. \E f \in [0 .. N -> D] : Results(f, N, e, h)
    BY <2>1, LoopResults
  <2> QED BY <2>2 DEF D, N, e
<1>4. ASSUME NEW n \in 0 .. Len(s)
      PROVE  f[n] = IF n = 0 THEN <<>>
                    ELSE IF s[n] \in S THEN Append(f[n - 1], s[n]) ELSE f[n - 1]
  <2>1. CASE n = 0
    BY <1>3, <2>1 DEF Results
  <2>2. CASE n # 0
    <3>1. n \in 1 .. Len(s) /\ f[n - 1] \in Seq(T)
      BY <2>2
    <3> QED BY <1>2, <1>3, <2>2, <3>1 DEF Results
  <2> QED BY <2>1, <2>2
<1>5. f = Round(f)
  BY <1>4
<1>6. Kept(s, S) = CHOOSE part : part = Round(part)
  BY DEF Kept
<1>7. Kept(s, S) = Round(Kept(s, S))
  <2> HIDE DEF Round
  <2> QED BY <1>5, <1>6
<1> DEFINE k == Kept(s, S)
<1> HIDE DEF k
<1>8. /\ DOMAIN k = 0 .. Len(s)
      /\ \A n \in 0 .. Len(s) :
           k[n] = IF n = 0 THEN <<>>
                  ELSE IF s[n] \in S THEN Append(k[n - 1], s[n]) ELSE k[n - 1]
      /\ k = [n \in 0 .. Len(s) |-> k[n]]
  <2>1. k = Round(k)
    BY <1>7 DEF k
  <2>2. k = [n \in 0 .. Len(s) |->
               IF n = 0 THEN <<>>
               ELSE IF s[n] \in S THEN Append(k[n - 1], s[n]) ELSE k[n - 1]]
    BY <2>1
  <2> HIDE DEF Round
  <2>3. /\ DOMAIN k = 0 .. Len(s)
        /\ \A n \in 0 .. Len(s) :
           k[n] = IF n = 0 THEN <<>>
                  ELSE IF s[n] \in S THEN Append(k[n - 1], s[n]) ELSE k[n - 1]
    BY ONLY <2>2
  <2>4. k = [n \in 0 .. Len(s) |-> k[n]]
    BY <2>2
  <2> QED BY <2>3, <2>4
<1> DEFINE A == {n \in Nat : n <= Len(s) => k[n] \in Seq(T)}
<1>9. 0 \in A
  BY <1>0, <1>8, SMTT(30)
<1>10. ASSUME NEW n \in Nat, n \in A PROVE n + 1 \in A
  <2> SUFFICES ASSUME n + 1 <= Len(s) PROVE k[n + 1] \in Seq(T)
    OBVIOUS
  <2>1. n + 1 \in 1 .. Len(s) /\ n + 1 # 0 /\ (n + 1) - 1 = n /\ k[n] \in Seq(T)
    BY <1>0, <1>10
  <2>2. k[n + 1] = IF s[n + 1] \in S THEN Append(k[n], s[n + 1]) ELSE k[n]
    <3>1. n + 1 \in 0 .. Len(s)
      BY <2>1
    <3> QED BY <1>8, <2>1, <3>1
  <2>3. s[n + 1] \in T
    BY <2>1
  <2> QED BY <2>1, <2>2, <2>3
<1>11. Nat \subseteq A
  <2> HIDE DEF A
  <2> QED BY <1>9, <1>10, SetInduction
<1>12. k \in [0 .. Len(s) -> Seq(T)]
  <2>1. \A n \in 0 .. Len(s) : k[n] \in Seq(T)
    BY <1>0, <1>11
  <2> QED BY <1>8, <2>1
<1>13. k[0] = <<>>
  <2>1. 0 \in 0 .. Len(s)
    BY <1>0
  <2> QED BY <1>8, <2>1
<1>15. \A n \in 1 .. Len(s) : n \in 0 .. Len(s) /\ n # 0
  BY <1>0
<1>14. \A n \in 1 .. Len(s) : k[n] = IF s[n] \in S THEN Append(k[n - 1], s[n]) ELSE k[n - 1]
  BY <1>8, <1>15
<1> QED BY <1>12, <1>13, <1>14 DEF k

(* What is part are elements of s and of S, all of them, and no more; when  *)
(* nothing is lost, everything was in S.                                    *)
LEMMA KeptElements ==
  ASSUME NEW T, NEW s \in Seq(T), NEW S, NEW m \in 0 .. Len(s)
  PROVE  LET t == Kept(s, S)[m]
         IN  /\ \A k \in 1 .. Len(t) : t[k] \in S /\ \E n \in 1 .. m : s[n] = t[k]
             /\ \A n \in 1 .. m : s[n] \in S => \E k \in 1 .. Len(t) : t[k] = s[n]
             /\ Len(t) <= m
             /\ Len(t) = m => \A n \in 1 .. m : s[n] \in S
<1> DEFINE part == Kept(s, S)
           P(t, n) == /\ \A k \in 1 .. Len(t) : t[k] \in S /\ \E j \in 1 .. n : s[j] = t[k]
                      /\ \A j \in 1 .. n : s[j] \in S => \E k \in 1 .. Len(t) : t[k] = s[j]
                      /\ Len(t) <= n
                      /\ Len(t) = n => \A j \in 1 .. n : s[j] \in S
           A == {n \in Nat : n <= Len(s) => P(part[n], n)}
<1>1. /\ Len(s) \in Nat
      /\ part \in [0 .. Len(s) -> Seq(T)] /\ part[0] = <<>>
      /\ \A n \in 1 .. Len(s) :
           part[n] = IF s[n] \in S THEN Append(part[n - 1], s[n]) ELSE part[n - 1]
  BY KeptRounds
<1> HIDE DEF part
<1>2. 0 \in A
  <2>1. P(<<>>, 0)
    OBVIOUS
  <2> QED BY <1>1, <2>1
<1>3. ASSUME NEW n \in Nat, n \in A PROVE n + 1 \in A
  <2> SUFFICES ASSUME n + 1 <= Len(s) PROVE P(part[n + 1], n + 1)
    OBVIOUS
  <2> DEFINE t == part[n]
             u == part[n + 1]
  <2>1. n + 1 \in 1 .. Len(s) /\ (n + 1) - 1 = n /\ n \in 0 .. Len(s)
    BY <1>1
  <2>2. u = IF s[n + 1] \in S THEN Append(t, s[n + 1]) ELSE t
    BY <1>1, <2>1
  <2>3. t \in Seq(T) /\ P(t, n)
    <3>1. n <= Len(s)
      BY <2>1
    <3>2. P(t, n)
      <4> HIDE DEF P
      <4> QED BY <1>3, <3>1
    <3> QED BY <1>1, <2>1, <3>2
  <2> HIDE DEF t, u
  <2>4. CASE s[n + 1] \in S
    <3>1. /\ Len(t) \in Nat /\ Len(u) = Len(t) + 1 /\ u[Len(t) + 1] = s[n + 1]
          /\ \A k \in 1 .. Len(t) : u[k] = t[k]
      BY <2>2, <2>3, <2>4
    <3>2. ASSUME NEW k \in 1 .. Len(u)
          PROVE  u[k] \in S /\ \E j \in 1 .. n + 1 : s[j] = u[k]
      <4>1. CASE k = Len(t) + 1
        BY <2>1, <2>4, <3>1, <4>1
      <4>2. CASE k \in 1 .. Len(t)
        <5>1. PICK j \in 1 .. n : s[j] = t[k]
          BY <2>3, <4>2
        <5> QED BY <2>3, <3>1, <4>2, <5>1
      <4> QED BY <3>1, <4>1, <4>2
    <3>3. ASSUME NEW j \in 1 .. n + 1, s[j] \in S
          PROVE  \E k \in 1 .. Len(u) : u[k] = s[j]
      <4>1. CASE j = n + 1
        BY <3>1, <4>1
      <4>2. CASE j \in 1 .. n
        <5>1. PICK k \in 1 .. Len(t) : t[k] = s[j]
          BY <2>3, <3>3, <4>2
        <5> QED BY <3>1, <5>1
      <4> QED BY <4>1, <4>2
    <3>4. Len(u) <= n + 1 /\ (Len(u) = n + 1 => Len(t) = n)
      BY <2>3, <3>1
    <3>5. Len(u) = n + 1 => \A j \in 1 .. n + 1 : s[j] \in S
      BY <2>3, <2>4, <3>4
    <3> QED BY <3>2, <3>3, <3>4, <3>5 DEF u
  <2>5. CASE s[n + 1] \notin S
    <3>1. u = t /\ Len(t) \in Nat
      BY <2>2, <2>3, <2>5
    <3> QED BY <2>3, <2>5, <3>1, SMTT(30) DEF u
  <2> QED BY <2>4, <2>5
<1> HIDE DEF A
<1>4. m \in A
  BY <1>1, <1>2, <1>3, SetInduction
<1>5. P(part[m], m)
  BY <1>4 DEF A
<1> QED BY <1>5 DEF part

(* What Filter keeps are elements of s and of S, all of them, and no more.  *)
LEMMA FilterElements ==
  ASSUME NEW T, NEW s \in Seq(T), NEW S
  PROVE  LET t == Filter(s, S)
         IN  /\ t \in Seq(T)
             /\ \A k \in 1 .. Len(t) : t[k] \in S /\ \E n \in 1 .. Len(s) : s[n] = t[k]
             /\ \A n \in 1 .. Len(s) : s[n] \in S => \E k \in 1 .. Len(t) : t[k] = s[n]
             /\ Len(t) <= Len(s)
             /\ Len(t) = Len(s) => \A n \in 1 .. Len(s) : s[n] \in S
<1>1. Len(s) \in 0 .. Len(s)
  OBVIOUS
<1>2. Kept(s, S)[Len(s)] \in Seq(T)
  BY <1>1, KeptRounds
<1> QED BY <1>1, <1>2, KeptElements DEF Filter

--------------------------------------------------------------------------------
(* The constants, and the entry of a device in a file of rows.              *)

(* The greatest of finitely many places.                                    *)
LEMMA Greatest ==
  ASSUME NEW N \in Nat, NEW T \in SUBSET (1 .. N), T # {}
  PROVE  \E m \in T : \A k \in T : m >= k
<1> DEFINE A == {n \in Nat : \A U \in SUBSET (1 .. n) :
                               U # {} => \E m \in U : \A k \in U : m >= k}
<1>1. 0 \in A
  <2>1. SUBSET (1 .. 0) = {{}}
    OBVIOUS
  <2> QED BY <2>1
<1>2. ASSUME NEW n \in Nat, n \in A PROVE n + 1 \in A
  <2> SUFFICES ASSUME NEW U \in SUBSET (1 .. n + 1), U # {}
               PROVE  \E m \in U : \A k \in U : m >= k
    OBVIOUS
  <2>1. CASE n + 1 \in U
    BY <2>1
  <2>2. CASE n + 1 \notin U
    <3>1. U \in SUBSET (1 .. n)
      BY <2>2
    <3> QED BY <1>2, <3>1
  <2> QED BY <2>1, <2>2
<1> HIDE DEF A
<1>3. N \in A
  BY <1>1, <1>2, SetInduction
<1> QED BY <1>3 DEF A

(* The rows of a device in a scene, and the last of them.                   *)
IsOf(row, s, d) == row.device = d /\ row.scene = s

(* LastOf is the value of the last such row, if there is one.               *)
LEMMA LastOfIs ==
  ASSUME NEW text \in Seq(Row), NEW s, NEW d
  PROVE  \/ /\ \A k \in 1 .. Len(text) : ~ IsOf(text[k], s, d)
            /\ LastOf(text, s, d) = NoEntry
         \/ \E k \in 1 .. Len(text) :
              /\ IsOf(text[k], s, d)
              /\ \A n \in 1 .. Len(text) : n > k => ~ IsOf(text[n], s, d)
              /\ LastOf(text, s, d) = text[k].value
<1> DEFINE T == {k \in 1 .. Len(text) : IsOf(text[k], s, d)}
           last == SelectLastInSeq(text, LAMBDA row : row.device = d /\ row.scene = s)
<1>1. Len(text) \in Nat /\ T \in SUBSET (1 .. Len(text))
  OBVIOUS
<1>2. last = IF T # {} THEN CHOOSE x \in T : \A y \in T : x >= y ELSE 0
  BY Zenon DEF SelectLastInSeq, Max, IsOf
<1>3. LastOf(text, s, d) = IF last = 0 THEN NoEntry ELSE text[last].value
  BY Zenon DEF LastOf
<1> HIDE DEF last
<1>4. CASE T = {}
  <2>1. last = 0
    BY <1>2, <1>4
  <2> QED BY <1>3, <1>4, <2>1
<1>5. CASE T # {}
  <2>1. \E m \in T : \A k \in T : m >= k
    <3> HIDE DEF T
    <3> QED BY <1>1, <1>5, Greatest
  <2>2. last \in T /\ \A y \in T : last >= y
    <3> HIDE DEF T
    <3> QED BY <1>2, <1>5, <2>1
  <2>3. last # 0 /\ last \in 1 .. Len(text) /\ IsOf(text[last], s, d)
    BY <2>2
  <2>4. \A n \in 1 .. Len(text) : n > last => ~ IsOf(text[n], s, d)
    BY <2>2
  <2> QED BY <1>3, <2>3, <2>4
<1> QED BY <1>4, <1>5

(* The value is of a row that has none of its own after it.                 *)
LEMMA LastOfWitness ==
  ASSUME NEW text \in Seq(Row), NEW s, NEW d, NEW k \in 1 .. Len(text),
         IsOf(text[k], s, d),
         \A n \in 1 .. Len(text) : n > k => ~ IsOf(text[n], s, d)
  PROVE  LastOf(text, s, d) = text[k].value
<1>1. PICK j \in 1 .. Len(text) :
        /\ IsOf(text[j], s, d)
        /\ \A n \in 1 .. Len(text) : n > j => ~ IsOf(text[n], s, d)
        /\ LastOf(text, s, d) = text[j].value
  BY LastOfIs
<1>2. j = k
  BY <1>1
<1> QED BY <1>1, <1>2

(* LastOf of an entry that has no row.                                      *)
LEMMA LastOfNone ==
  ASSUME NEW text \in Seq(Row), NEW s, NEW d,
         \A k \in 1 .. Len(text) : ~ IsOf(text[k], s, d)
  PROVE  LastOf(text, s, d) = NoEntry
BY LastOfIs

(* The constants, one by one.                                               *)
LEMMA ConstantTypes ==
  /\ Dial \in 0 .. 240 /\ DIMMER_CNT \in 0 .. 63 /\ PIR_NUM \in 0 .. 31
  /\ Dial + DIMMER_CNT + PIR_NUM <= 256
  /\ Lamps \subseteq [dev : Dial .. Dial + DIMMER_CNT - 1, sub : LampSubs]
  /\ Sensors \subseteq [dev : Dial + DIMMER_CNT .. Dial + DIMMER_CNT + PIR_NUM - 1,
                        sub : SensorSubs]
  /\ StoredLevel \in [Lamps -> 0 .. 100]
  /\ Garbage \subseteq 0 .. 255 /\ Events \subseteq BOOLEAN
  /\ NoEntry \notin 0 .. 255
  /\ Stored \in Seq(Row)
  /\ Values \subseteq 0 .. 100 /\ Scenes \subseteq 0 .. 255
<1>1. /\ Dial \in 0 .. 240 /\ DIMMER_CNT \in 0 .. 63 /\ PIR_NUM \in 0 .. 31
      /\ Dial + DIMMER_CNT + PIR_NUM <= 256
      /\ Lamps \subseteq [dev : Dial .. Dial + DIMMER_CNT - 1, sub : LampSubs]
      /\ Sensors \subseteq [dev : Dial + DIMMER_CNT .. Dial + DIMMER_CNT + PIR_NUM - 1,
                            sub : SensorSubs]
      /\ Requests \subseteq [cmd : {"configure", "delete", "control"}, scene : 0 .. 255,
                             device : Devices, value : 0 .. 100, delay : 0 .. 255]
      /\ Stored \in Seq([device : Devices, scene : 0 .. 255, value : 0 .. 100,
                      delay : 0 .. 255])
      /\ StoredLevel \in [Lamps -> 0 .. 100]
      /\ Garbage \subseteq 0 .. 255 /\ Events \subseteq BOOLEAN
      /\ NoEntry \notin 0 .. 255 /\ Target \in 0 .. 255
  BY SceneAssumption, Zenon DEF SceneAssumption
<1>2. Requests \subseteq [cmd : {"configure", "delete", "control"}, scene : 0 .. 255,
                         device : Devices, value : 0 .. 100, delay : 0 .. 255]
  BY <1>1
<1>3. \A r \in Requests : /\ r.scene \in 0 .. 255 /\ r.device \in Devices
                          /\ r.value \in 0 .. 100 /\ r.delay \in 0 .. 255
  BY <1>2
<1>4. Stored \in Seq([device : Devices, scene : 0 .. 255, value : 0 .. 100,
                      delay : 0 .. 255])
  BY <1>1
<1>5. /\ DOMAIN Stored = 1 .. Len(Stored) /\ Len(Stored) \in Nat
      /\ Stored = [k \in 1 .. Len(Stored) |-> Stored[k]]
      /\ \A k \in 1 .. Len(Stored) :
           Stored[k] \in [device : Devices, scene : 0 .. 255, value : 0 .. 100,
                      delay : 0 .. 255]
  <2> DEFINE X == [device : Devices, scene : 0 .. 255, value : 0 .. 100,
                      delay : 0 .. 255]
  <2>1. Stored \in Seq(X)
    BY <1>4
  <2> HIDE DEF X
  <2>2. /\ DOMAIN Stored = 1 .. Len(Stored) /\ Len(Stored) \in Nat
        /\ Stored = [k \in 1 .. Len(Stored) |-> Stored[k]]
        /\ \A k \in 1 .. Len(Stored) : Stored[k] \in X
    BY <2>1
  <2> QED BY <2>2 DEF X
<1>6. \A k \in 1 .. Len(Stored) : /\ Stored[k].scene \in 0 .. 255
                                  /\ Stored[k].value \in 0 .. 100
                                  /\ Stored[k].delay \in 0 .. 255
  BY <1>5
<1>7. \A r \in Range(Stored) : /\ r.scene \in 0 .. 255 /\ r.value \in 0 .. 100
                               /\ r.delay \in 0 .. 255
  BY <1>5, <1>6 DEF Range
<1>8. Values \subseteq 0 .. 100
  BY <1>3, <1>7 DEF Values
<1>9. Scenes \subseteq 0 .. 255
  <2>1. Target \in 0 .. 255
    BY <1>1
  <2> QED BY <1>3, <1>7, <2>1 DEF Scenes
<1>10. ASSUME NEW k \in 1 .. Len(Stored) PROVE Stored[k] \in Row
  <2>1. Stored[k] \in Range(Stored)
    BY <1>5 DEF Range
  <2>2. /\ Stored[k].scene \in Scenes /\ Stored[k].value \in Values
        /\ Stored[k].delay \in Delays
    BY <2>1 DEF Scenes, Values, Delays
  <2> QED BY <1>5, <2>2 DEF Row
<1>11. Stored \in Seq(Row)
  <2>1. \A n \in Nat : \A f \in [1 .. n -> Row] : f \in Seq(Row)
    OBVIOUS
  <2>2. Stored \in [1 .. Len(Stored) -> Row]
    BY <1>5, <1>10
  <2> QED BY <1>5, <2>1, <2>2
<1> QED BY <1>1, <1>8, <1>9, <1>11

(* A delay is a byte.                                                       *)
LEMMA DelayTypes ==
  Delays \subseteq 0 .. 255
<1> DEFINE X == [device : Devices, scene : 0 .. 255, value : 0 .. 100, delay : 0 .. 255]
           Y == [cmd : {"configure", "delete", "control"}, scene : 0 .. 255,
                 device : Devices, value : 0 .. 100, delay : 0 .. 255]
<1>1. Requests \subseteq Y /\ Stored \in Seq(X)
  BY SceneAssumption, Zenon DEF SceneAssumption
<1>2. (\A x \in X : x.delay \in 0 .. 255) /\ \A y \in Y : y.delay \in 0 .. 255
  OBVIOUS
<1> HIDE DEF X, Y
<1>3. \A k \in DOMAIN Stored : Stored[k] \in X
  BY <1>1
<1>4. \A r \in Requests : r.delay \in 0 .. 255
  BY <1>1, <1>2
<1>5. \A r \in Range(Stored) : r.delay \in 0 .. 255
  <2>1. \A r \in Range(Stored) : r \in X
    BY <1>3 DEF Range
  <2> QED BY <1>2, <2>1
<1> QED BY <1>4, <1>5 DEF Delays

(* A request is of a scene and a device in use.                             *)
LEMMA Requested ==
  ASSUME NEW r \in Requests
  PROVE  /\ r.scene \in Scenes /\ r.device \in Devices
         /\ r.value \in Values /\ r.delay \in Delays
<1> DEFINE Y == [cmd : {"configure", "delete", "control"}, scene : 0 .. 255,
                 device : Devices, value : 0 .. 100, delay : 0 .. 255]
<1>1. r \in Y
  BY SceneAssumption, Zenon DEF SceneAssumption
<1>2. r.device \in Devices
  BY <1>1
<1> QED BY <1>2 DEF Scenes, Values, Delays

(* A value is no NoEntry.                                                   *)
LEMMA EntryIsValue ==
  ASSUME NEW text \in Seq(Row), NEW k \in 1 .. Len(text)
  PROVE  text[k] \in Row /\ text[k].value \in Values /\ text[k].value # NoEntry
<1>1. text[k] \in Row
  OBVIOUS
<1>2. text[k].value \in Values
  BY <1>1 DEF Row
<1>3. \A v \in Values : v # NoEntry
  <2>1. \A v \in Values : v \in 0 .. 100
    BY ConstantTypes
  <2>2. 0 .. 100 \subseteq 0 .. 255
    OBVIOUS
  <2>3. NoEntry \notin 0 .. 255
    BY ConstantTypes
  <2> DEFINE Small == 0 .. 100
             Byte  == 0 .. 255
  <2> HIDE DEF Small, Byte
  <2>4. Small \subseteq Byte /\ NoEntry \notin Byte
    BY <2>2, <2>3 DEF Small, Byte
  <2>5. \A v \in Small : v # NoEntry
    BY <2>4, Zenon
  <2>6. \A v \in Values : v \in Small
    BY <2>1 DEF Small
  <2> QED BY <2>5, <2>6, Zenon
<1> QED BY <1>1, <1>2, <1>3

(* A row more, at the end.                                                  *)
LEMMA LastOfAppend ==
  ASSUME NEW text \in Seq(Row), NEW row \in Row, NEW s, NEW d
  PROVE  LastOf(Append(text, row), s, d)
           = IF IsOf(row, s, d) THEN row.value ELSE LastOf(text, s, d)
<1> DEFINE more == Append(text, row)
<1>1. /\ more \in Seq(Row) /\ Len(more) = Len(text) + 1 /\ Len(text) \in Nat
      /\ more[Len(text) + 1] = row /\ \A k \in 1 .. Len(text) : more[k] = text[k]
  OBVIOUS
<1> HIDE DEF more
<1>2. CASE IsOf(row, s, d)
  <2>1. LastOf(more, s, d) = more[Len(text) + 1].value
    BY <1>1, <1>2, LastOfWitness
  <2> QED BY <1>1, <1>2, <2>1 DEF more
<1>3. CASE ~ IsOf(row, s, d)
  <2>1. CASE \A k \in 1 .. Len(text) : ~ IsOf(text[k], s, d)
    <3>1. \A k \in 1 .. Len(more) : ~ IsOf(more[k], s, d)
      BY <1>1, <1>3, <2>1
    <3>2. LastOf(more, s, d) = NoEntry
      BY <1>1, <3>1, LastOfNone
    <3> QED BY <1>3, <2>1, <3>2, LastOfNone DEF more
  <2>2. ASSUME NEW k \in 1 .. Len(text), IsOf(text[k], s, d),
               \A n \in 1 .. Len(text) : n > k => ~ IsOf(text[n], s, d),
               LastOf(text, s, d) = text[k].value
        PROVE  LastOf(more, s, d) = LastOf(text, s, d)
    <3>1. k \in 1 .. Len(more) /\ more[k] = text[k]
      BY <1>1
    <3>2. \A n \in 1 .. Len(more) : n > k => ~ IsOf(more[n], s, d)
      BY <1>1, <1>3, <2>2
    <3> QED BY <1>1, <2>2, <3>1, <3>2, LastOfWitness
  <2> QED BY <1>3, <2>1, <2>2, LastOfIs DEF more
<1> QED BY <1>2, <1>3

(* The first row matters only if no other is the device's.                  *)
LEMMA LastOfTail ==
  ASSUME NEW text \in Seq(Row), text # <<>>, NEW s, NEW d
  PROVE  LastOf(text, s, d)
           = IF LastOf(Tail(text), s, d) # NoEntry THEN LastOf(Tail(text), s, d)
             ELSE IF IsOf(Head(text), s, d) THEN Head(text).value ELSE NoEntry
<1> DEFINE rest == Tail(text)
<1>1. /\ rest \in Seq(Row) /\ Len(rest) = Len(text) - 1 /\ Len(text) \in Nat \ {0}
      /\ Head(text) = text[1]
      /\ \A k \in 1 .. Len(rest) : rest[k] = text[k + 1]
      /\ \A k \in 2 .. Len(text) : k - 1 \in 1 .. Len(rest) /\ text[k] = rest[k - 1]
  OBVIOUS
<1> HIDE DEF rest
<1>2. CASE \A k \in 1 .. Len(rest) : ~ IsOf(rest[k], s, d)
  <2>1. LastOf(rest, s, d) = NoEntry
    BY <1>1, <1>2, LastOfNone
  <2>2. \A k \in 2 .. Len(text) : ~ IsOf(text[k], s, d)
    BY <1>1, <1>2
  <2>3. CASE IsOf(text[1], s, d)
    <3>1. 1 \in 1 .. Len(text) /\ \A n \in 1 .. Len(text) : n > 1 => ~ IsOf(text[n], s, d)
      BY <1>1, <2>2
    <3>2. LastOf(text, s, d) = text[1].value
      BY <2>3, <3>1, LastOfWitness
    <3> QED BY <1>1, <2>1, <2>3, <3>2 DEF rest
  <2>4. CASE ~ IsOf(text[1], s, d)
    <3>1. \A k \in 1 .. Len(text) : ~ IsOf(text[k], s, d)
      BY <1>1, <2>2, <2>4
    <3>2. LastOf(text, s, d) = NoEntry
      BY <3>1, LastOfNone
    <3> QED BY <1>1, <2>1, <2>4, <3>2 DEF rest
  <2> QED BY <2>3, <2>4
<1>3. ASSUME NEW k \in 1 .. Len(rest), IsOf(rest[k], s, d),
             \A n \in 1 .. Len(rest) : n > k => ~ IsOf(rest[n], s, d),
             LastOf(rest, s, d) = rest[k].value
      PROVE  LastOf(text, s, d) = LastOf(rest, s, d) /\ LastOf(rest, s, d) # NoEntry
  <2>1. k + 1 \in 1 .. Len(text) /\ text[k + 1] = rest[k] /\ IsOf(text[k + 1], s, d)
    BY <1>1, <1>3
  <2>2. ASSUME NEW n \in 1 .. Len(text), n > k + 1 PROVE ~ IsOf(text[n], s, d)
    <3>1. n \in 2 .. Len(text) /\ n - 1 > k
      BY <1>1, <2>2
    <3> QED BY <1>1, <1>3, <3>1
  <2>3. LastOf(text, s, d) = text[k + 1].value
    BY <2>1, <2>2, LastOfWitness
  <2>4. rest[k].value # NoEntry
    BY <1>1, EntryIsValue
  <2> QED BY <1>3, <2>1, <2>3, <2>4
<1>4. LastOf(rest, s, d) = NoEntry \/ LastOf(text, s, d) = LastOf(rest, s, d)
  BY <1>1, <1>3, LastOfIs
<1>5. LastOf(rest, s, d) # NoEntry => LastOf(text, s, d) = LastOf(rest, s, d)
  BY <1>4
<1>6. LastOf(rest, s, d) = NoEntry => \A k \in 1 .. Len(rest) : ~ IsOf(rest[k], s, d)
  BY <1>1, <1>3, LastOfIs
<1> QED BY <1>2, <1>5, <1>6 DEF rest

(* Without the rows of others an entry is what it was.                      *)
LEMMA LastOfFilter ==
  ASSUME NEW text \in Seq(Row), NEW S, NEW s, NEW d,
         \A row \in Row : IsOf(row, s, d) => row \in S
  PROVE  LastOf(Filter(text, S), s, d) = LastOf(text, s, d)
<1> DEFINE part == Kept(text, S)
           A == {n \in Nat : n <= Len(text) =>
                   LastOf(part[n], s, d) = LastOf(SubSeq(text, 1, n), s, d)}
<1>1. /\ Len(text) \in Nat
      /\ part \in [0 .. Len(text) -> Seq(Row)] /\ part[0] = <<>>
      /\ \A n \in 1 .. Len(text) :
           part[n] = IF text[n] \in S THEN Append(part[n - 1], text[n]) ELSE part[n - 1]
  BY KeptRounds
<1> HIDE DEF part
<1>2. 0 \in A
  <2>1. SubSeq(text, 1, 0) = <<>>
    OBVIOUS
  <2> QED BY <1>1, <2>1
<1>3. ASSUME NEW n \in Nat, n \in A PROVE n + 1 \in A
  <2> SUFFICES ASSUME n + 1 <= Len(text)
               PROVE  LastOf(part[n + 1], s, d) = LastOf(SubSeq(text, 1, n + 1), s, d)
    OBVIOUS
  <2> DEFINE row == text[n + 1]
             one == SubSeq(text, 1, n)
  <2>1. /\ n + 1 \in 1 .. Len(text) /\ (n + 1) - 1 = n /\ n \in 0 .. Len(text)
        /\ row \in Row
    BY <1>1
  <2>2. one \in Seq(Row) /\ SubSeq(text, 1, n + 1) = Append(one, row)
    BY <1>1, <2>1
  <2>3. part[n] \in Seq(Row) /\ LastOf(part[n], s, d) = LastOf(one, s, d)
    BY <1>1, <1>3, <2>1
  <2>4. part[n + 1] = IF row \in S THEN Append(part[n], row) ELSE part[n]
    BY <1>1, <2>1
  <2> HIDE DEF row, one
  <2>5. LastOf(Append(one, row), s, d)
          = IF IsOf(row, s, d) THEN row.value ELSE LastOf(one, s, d)
    BY <2>1, <2>2, LastOfAppend
  <2>6. CASE row \in S
    <3>1. LastOf(Append(part[n], row), s, d)
            = IF IsOf(row, s, d) THEN row.value ELSE LastOf(part[n], s, d)
      BY <2>1, <2>3, LastOfAppend
    <3> QED BY <2>2, <2>3, <2>4, <2>5, <2>6, <3>1
  <2>7. CASE row \notin S
    <3>1. ~ IsOf(row, s, d)
      BY <2>1, <2>7
    <3> QED BY <2>2, <2>3, <2>4, <2>5, <2>7, <3>1
  <2> QED BY <2>6, <2>7
<1> HIDE DEF A
<1>4. Len(text) \in A
  BY <1>1, <1>2, <1>3, SetInduction
<1>5. SubSeq(text, 1, Len(text)) = text
  OBVIOUS
<1>6. LastOf(part[Len(text)], s, d) = LastOf(SubSeq(text, 1, Len(text)), s, d)
  BY <1>1, <1>4 DEF A
<1> QED BY <1>5, <1>6 DEF part, Filter

--------------------------------------------------------------------------------
(* What the threads hand to one another.                                    *)
Done      == [what |-> "done"]
Announced == [what |-> "scene"]
Command   == [what : {"dim"}, circuit : 0 .. 255, application : {58, 59},
              level : 0 .. 255, delay : 0 .. 255]
Reports   == [what : {"module"}, dev : 0 .. 255, values : [Lamps -> 0 .. 100]]
               \cup [what : {"sensor"}, of : Devices]
               \cup [what : {"lamp"}, of : {addr_trans_qy(Dial, c.circuit, c.application) :
                                            c \in Command}]
Empty     == [what |-> "empty", delay |-> 0]
Triggered == [cmd |-> "control", scene |-> Target]
Job       == [scene : Scenes, off : BOOLEAN]

(* In each queue are only what its writers put there.                       *)
QueueInv ==
  /\ queue_read \in Seq(Requests \cup {Triggered})
  /\ clo_write \in Seq(Reports \cup {Done, Announced})
  /\ qy_read \in Seq([motion : Events])
  /\ qy_write \in Seq(Command \cup {Empty})
  /\ asleep \in Seq(Command)

(* The worker has the frame that its place is for, and a deletion under way *)
(* has copied the rows that do not belong to the entry.                     *)
WorkerInv ==
  /\ scene_txt \in Seq(Row) /\ kept \in Seq(Row)
  /\ worker # "none" => frame \in Requests
  /\ worker \in {"configure", "append"} => frame.cmd = "configure"
  /\ worker \in {"delete", "rewrite"} => frame.cmd = "delete"
  /\ worker = "reply" => frame.cmd # "control"
  /\ worker = "rewrite" => kept = Filter(scene_txt, Staying(frame))

(* The main loop has rows of its scene, in a scene it has something to do.  *)
MainInv ==
  /\ para \in Seq(Row) /\ i \in Nat /\ pir_state \in 0 .. 255
  /\ main \in {"match", "apply", "off", "again", "feedback"} => job \in Job
  /\ main \in {"apply", "off", "again", "feedback"} =>
       \A k \in DOMAIN para : para[k].scene = job.scene
  /\ main = "apply" => ~ job.off
  /\ main = "off" => job.off
  /\ main \in {"apply", "off"} => i \in 1 .. Len(para) + 1

(* After the file has been written, and until the answer, it holds what the *)
(* frame asked for.                                                         *)
StoredInv ==
  /\ worker \in {"queue", "reply"} /\ frame.cmd = "configure" =>
       LastOf(scene_txt, frame.scene, frame.device) = frame.value
  /\ worker \in {"queue", "reply"} /\ frame.cmd = "delete" =>
       LastOf(scene_txt, frame.scene, frame.device) = NoEntry

(* The sensors that the rows up to i have masked are masked.                *)
MaskInv ==
  /\ main = "apply" => \A p \in Sensors :
       LastOf(SubSeq(para, 1, i - 1), job.scene, p) = 1 => state[p] = 0
  /\ SceneMasks

(* The inductive invariant.                                                 *)
IInv == TypeOK /\ QueueInv /\ WorkerInv /\ MainInv /\ StoredInv /\ MaskInv

--------------------------------------------------------------------------------
(* The lamps and the database.                                              *)

(* Commands in q for lamp l that are delayed will bring it to x; so will    *)
(* the last of all for l; or there are none.                                *)
Prompt(q, l, x) == \A k \in DOMAIN q :
  Reaches(q[k], l) /\ q[k].delay > 0 => q[k].delay <= 127 /\ q[k].level = x
Ends(q, l, x) == \A k \in DOMAIN q :
  Reaches(q[k], l) /\ (\A n \in DOMAIN q : n > k => ~ Reaches(q[n], l)) => q[k].level = x
Idle(q, l) == \A k \in DOMAIN q : ~ Reaches(q[k], l)

(* When all of q has been sent to lamp l, which stands at `at', it stands   *)
(* at x.                                                                    *)
Settles(q, at, l, x) == Ends(q, l, x) /\ (Idle(q, l) => at = x)

(* A thread of a will still send a command to lamp l.                       *)
Waits(a, l) == \E n \in DOMAIN a : Reaches(a[n], l) /\ a[n].delay > 0

(* Of the commands h that are not yet on their way, those on their way in q *)
(* and those delayed in a, the last will bring the lamp to x.               *)
Agrees(h, q, a, at, l, x) ==
  /\ Prompt(h, l, x) /\ Prompt(q, l, x) /\ Prompt(a, l, x)
  /\ Ends(h, l, x)
  /\ Idle(h, l) => Waits(a, l) \/ Settles(q, at, l, x)

(* The commands of the rows already handled.                                *)
Handled == IF main \in {"apply", "off"}
           THEN [k \in 1 .. i - 1 |-> CommandOf(para[k])] ELSE <<>>

(* Once what is on its way is sent and what is delayed too, a settled lamp  *)
(* stands as the database says.                                             *)
DbInv == \A l \in Lamps \ unsettled :
  Agrees(Handled, qy_write, asleep, lamp[l], l, clo_qy_trans(dimmer_db[l]))

--------------------------------------------------------------------------------
(* What the gateway hears.                                                  *)

(* The reports that bring the value of a lamp to the gateway, or that it is *)
(* off since a delay has ended.                                             *)
IsModule(report, l) == report.what = "module" /\ report.dev = l.dev
IsLamp(report, l)   == report.what = "lamp" /\ report.of = l
About(report, l)    == IsModule(report, l) \/ IsLamp(report, l)

(* When all of q has been reported, the gateway, which shows `at', shows x, *)
(* or has last been told that a delay has ended: `over' if it was before q. *)
Tells(q, at, over, l, x) ==
  /\ \A k \in DOMAIN q :
       /\ IsModule(q[k], l)
       /\ \A n \in DOMAIN q : n > k => ~ About(q[n], l)
       => q[k].values[l] = x
  /\ (\A k \in DOMAIN q : ~ About(q[k], l)) => l \in over \/ at = x

(* The scene under way will have the lamp reported.                         *)
Concerned(l) ==
  \/ /\ main \in {"apply", "off", "again"}
     /\ \E k \in DOMAIN para : para[k].device = l
  \/ main = "feedback" /\ WillBeTold(l, para)

(* Every lamp that is not up to date at the gateway will be reported, and   *)
(* the gateway takes those for off that it was told so.                     *)
HeardInv ==
  /\ \A l \in ended : shown[l] = 0
  /\ \A l \in Lamps \ untold :
       Concerned(l) \/ Tells(clo_write, shown[l], ended, l, dimmer_db[l])

--------------------------------------------------------------------------------
(* Facts about rows and commands.                                           *)

(* The sensors' addresses follow the dimmers', so the filter tells them     *)
(* apart: a number that begins with another is not smaller.                 *)
LEMMA PrefixNotSmaller ==
  ASSUME NEW line \in Nat, NEW number \in Nat, BeginsWith(line, number)
  PROVE  line >= number
<1>1. PICK k \in {1, 10, 100} : line \div k = number
  BY DEF BeginsWith
<1>2. CASE k = 1
  BY <1>1, <1>2
<1>3. CASE k = 10
  BY <1>1, <1>3
<1>4. CASE k = 100
  BY <1>1, <1>4
<1> QED BY <1>2, <1>3, <1>4

(* The number of a module tells a dimmer from a sensor.                     *)
LEMMA DeviceKinds ==
  /\ \A l \in Lamps : /\ IsDimmer(l.dev) /\ l.dev \in 0 .. 255 /\ l.sub \in LampSubs
                      /\ l.dev \in Dial .. Dial + DIMMER_CNT - 1
                      /\ l = [dev |-> l.dev, sub |-> l.sub]
  /\ \A p \in Sensors : /\ ~ IsDimmer(p.dev) /\ p.dev \in 0 .. 255 /\ p.sub \in SensorSubs
                        /\ p = [dev |-> p.dev, sub |-> p.sub]
  /\ \A d \in Devices : d \in Lamps <=> IsDimmer(d.dev)
  /\ \A d \in Devices : d \in Lamps <=> d \notin Sensors
<1>1. /\ Dial \in 0 .. 240 /\ DIMMER_CNT \in 0 .. 63 /\ PIR_NUM \in 0 .. 31
      /\ Dial + DIMMER_CNT + PIR_NUM <= 256
  BY ConstantTypes
<1>2. ASSUME NEW l \in Lamps
      PROVE  /\ IsDimmer(l.dev) /\ l.dev \in 0 .. 255 /\ l.sub \in LampSubs
             /\ l.dev \in Dial .. Dial + DIMMER_CNT - 1
             /\ l = [dev |-> l.dev, sub |-> l.sub]
  <2>1. l \in [dev : Dial .. Dial + DIMMER_CNT - 1, sub : LampSubs]
    BY ConstantTypes
  <2>2. /\ l.dev \in Dial .. Dial + DIMMER_CNT - 1 /\ l.sub \in LampSubs
        /\ l = [dev |-> l.dev, sub |-> l.sub]
    BY <2>1
  <2> DEFINE dev == l.dev
  <2>7. dev \in Dial .. Dial + DIMMER_CNT - 1
    BY <2>2
  <2> HIDE DEF dev
  <2>8. /\ dev \in 0 .. 255
        /\ dev - Dial + 1 \in 1 .. DIMMER_CNT /\ Dial + (dev - Dial + 1) - 1 = dev
    BY <1>1, <2>7
  <2>3. l.dev \in 0 .. 255
    BY <2>8 DEF dev
  <2>4. l.dev - Dial + 1 \in 1 .. DIMMER_CNT /\ Dial + (l.dev - Dial + 1) - 1 = l.dev
    BY <2>8 DEF dev
  <2>5. BeginsWith(l.dev, l.dev)
    BY <2>3 DEF BeginsWith
  <2>6. IsDimmer(l.dev)
    BY <2>4, <2>5 DEF IsDimmer, match_addr
  <2> QED BY <2>2, <2>3, <2>6
<1>3. ASSUME NEW p \in Sensors
      PROVE  /\ ~ IsDimmer(p.dev) /\ p.dev \in 0 .. 255 /\ p.sub \in SensorSubs
             /\ p = [dev |-> p.dev, sub |-> p.sub]
  <2>1. p \in [dev : Dial + DIMMER_CNT .. Dial + DIMMER_CNT + PIR_NUM - 1, sub : SensorSubs]
    BY ConstantTypes
  <2>2. /\ p.dev \in Dial + DIMMER_CNT .. Dial + DIMMER_CNT + PIR_NUM - 1
        /\ p.sub \in SensorSubs /\ p = [dev |-> p.dev, sub |-> p.sub]
    BY <2>1
  <2> DEFINE dev == p.dev
  <2>7. dev \in Dial + DIMMER_CNT .. Dial + DIMMER_CNT + PIR_NUM - 1
    BY <2>2
  <2> HIDE DEF dev
  <2>8. dev \in 0 .. 255
    BY <1>1, <2>7
  <2>3. p.dev \in 0 .. 255
    BY <2>8 DEF dev
  <2>4. ASSUME NEW k \in 1 .. DIMMER_CNT PROVE ~ BeginsWith(Dial + k - 1, p.dev)
    <3>1. Dial + k - 1 \in Nat /\ dev \in Nat /\ ~ (Dial + k - 1 >= dev)
      BY <1>1, <2>7, <2>8
    <3> QED BY <3>1, PrefixNotSmaller DEF dev
  <2>5. ~ IsDimmer(p.dev)
    BY <2>4 DEF IsDimmer, match_addr
  <2> QED BY <2>2, <2>3, <2>5
<1> QED BY <1>2, <1>3 DEF Devices

(* A deletion takes every row of its entry.                                 *)
LEMMA OwnRowsGo ==
  ASSUME NEW row \in Row, NEW r \in Requests, IsOf(row, r.scene, r.device)
  PROVE  row \notin Staying(r)
<1>1. r.device \in Devices /\ r.scene \in Scenes /\ Scenes \subseteq 0 .. 255
  <2>1. Scenes \subseteq 0 .. 255
    BY ConstantTypes
  <2>2. r.device \in Devices /\ r.scene \in Scenes
    BY Requested
  <2> QED BY <2>1, <2>2
<1>2. r.device.dev \in 0 .. 255 /\ r.scene \in 0 .. 255
  BY <1>1, DeviceKinds DEF Devices
<1>3. EndsWith(r.device.dev, r.device.dev)
  BY <1>2 DEF EndsWith
<1>4. BeginsWith(r.scene, r.scene)
  BY <1>2 DEF BeginsWith
<1> QED BY <1>3, <1>4 DEF Staying, Hits, IsOf

(* A brightness of the Clowire side becomes a byte of the other side.       *)
LEMMA LevelType ==
  ASSUME NEW v \in 0 .. 100
  PROVE  clo_qy_trans(v) \in 0 .. 255
BY SMT DEF clo_qy_trans, UCHAR, FloatShort

(* A row of a scene becomes a command, or a blank.                          *)
LEMMA CommandType ==
  ASSUME NEW row \in Row
  PROVE  CommandOf(row) \in Command \cup {Empty}
<1>1. row.device \in Devices /\ row.value \in 0 .. 100 /\ row.delay \in 0 .. 255
  <2>1. Values \subseteq 0 .. 100
    BY ConstantTypes
  <2>2. row.value \in 0 .. 100
    BY <2>1 DEF Row
  <2>3. row.delay \in 0 .. 255
    BY DelayTypes DEF Row
  <2>4. row.device \in Devices
    BY DEF Row
  <2> QED BY <2>2, <2>3, <2>4
<1>2. row.device.dev \in 0 .. 255 /\ row.device.sub \in Nat
  BY <1>1, DeviceKinds DEF Devices, LampSubs, SensorSubs, SUB_ADDR_MIN, SUB_PIR_ADDR, CIRCUIT_MAX
<1>3. addr_trans(Dial, row.device.dev, row.device.sub) \in 0 .. 255
  <2> DEFINE dev == row.device.dev
             sub == row.device.sub
  <2>4. Dial \in 0 .. 240
    BY ConstantTypes
  <2>1. Dial \in Nat /\ dev \in Nat /\ sub \in Nat
    BY <1>2, <2>4
  <2> HIDE DEF dev, sub
  <2>2. Half(sub - 1 - SUB_ADDR_MIN) \in Int /\ Half(sub - SUB_ADDR_MIN) \in Int
    BY <2>1 DEF Half, SUB_ADDR_MIN
  <2>3. addr_trans(Dial, dev, sub) \in 0 .. 255
    BY <2>1, <2>2 DEF addr_trans, UCHAR, DIMMER, IsColorTemp
  <2> QED BY <2>3 DEF dev, sub
<1>4. app(row.device.sub) \in {58, 59}
  BY DEF app
<1>5. clo_qy_trans(row.value) \in 0 .. 255 /\ 0 \in 0 .. 255
  <2>1. clo_qy_trans(row.value) \in 0 .. 255
    BY <1>1, LevelType, Zenon
  <2> QED BY <2>1
<1> QED BY <1>1, <1>3, <1>4, <1>5 DEF CommandOf, Command, Empty

--------------------------------------------------------------------------------
(* The feedback: the modules that are listed, and the reports about them.   *)

(* The loop that lists the modules, round by round.                         *)
LEMMA ModuleRounds ==
  ASSUME NEW rows \in Seq(Row)
  PROVE  \E list \in [0 .. Len(rows) -> Seq(0 .. 255)] :
           /\ list[0] = IF rows = <<>> THEN <<0>> ELSE <<rows[1].device.dev>>
           /\ \A n \in 1 .. Len(rows) : list[n] = WithModule(list[n - 1], rows[n].device.dev)
           /\ ModulesOf(rows) = list[Len(rows)]
<1> DEFINE D == Seq(0 .. 255)
           N == Len(rows)
           e == IF rows = <<>> THEN <<0>> ELSE <<rows[1].device.dev>>
           h == [n \in 1 .. N |-> [x \in D |-> WithModule(x, rows[n].device.dev)]]
           Round(f) == [n \in 0 .. Len(rows) |->
             IF n = 0 THEN IF rows = <<>> THEN <<0>> ELSE <<rows[1].device.dev>>
             ELSE WithModule(f[n - 1], rows[n].device.dev)]
           list == CHOOSE f : f = Round(f)
<1>1. N \in Nat /\ \A n \in 1 .. N : rows[n].device.dev \in 0 .. 255
  <2>1. ASSUME NEW n \in 1 .. N PROVE rows[n].device.dev \in 0 .. 255
    <3>1. rows[n] \in Row
      OBVIOUS
    <3>2. rows[n].device \in Devices
      BY <3>1 DEF Row
    <3> QED BY <3>2, DeviceKinds DEF Devices
  <2> QED BY <2>1
<1>2. e \in D
  <2>1. rows # <<>> => 1 \in 1 .. N
    OBVIOUS
  <2>2. \A x \in 0 .. 255 : <<x>> \in D
    OBVIOUS
  <2> HIDE DEF D
  <2>3. 0 \in 0 .. 255
    OBVIOUS
  <2> QED BY <1>1, <2>1, <2>2, <2>3
<1>3. \A x \in D, dev \in 0 .. 255 : WithModule(x, dev) \in D
  <2> SUFFICES ASSUME NEW x \in D, NEW dev \in 0 .. 255 PROVE WithModule(x, dev) \in D
    OBVIOUS
  <2>1. Append(x, dev) \in D
    OBVIOUS
  <2> HIDE DEF D
  <2> QED BY <2>1 DEF WithModule
<1>4. h \in [1 .. N -> [D -> D]]
  <2> HIDE DEF D
  <2> QED BY <1>1, <1>3
<1>5. \A n \in 1 .. N, x \in D : h[n][x] = WithModule(x, rows[n].device.dev)
  OBVIOUS
<1>6. PICK f \in [0 .. N -> D] : Results(f, N, e, h)
  <2> HIDE DEF D, N, e, h
  <2> QED BY <1>1, <1>2, <1>4, LoopResults
<1>7. f[0] = e /\ \A n \in 1 .. N : f[n] = WithModule(f[n - 1], rows[n].device.dev)
  <2>1. f[0] = e /\ \A n \in 1 .. N : f[n] = h[n][f[n - 1]]
    BY <1>6 DEF Results
  <2>2. \A n \in 1 .. N : f[n - 1] \in D
    BY <1>1
  <2> HIDE DEF D, N, e, h
  <2> QED BY <1>5, <2>1, <2>2
<1>8. f = Round(f)
  <2>1. \A n \in 0 .. N : n = 0 \/ n \in 1 .. N
    BY <1>1
  <2>2. \A n \in 0 .. N : f[n] = IF n = 0 THEN e ELSE WithModule(f[n - 1], rows[n].device.dev)
    BY <1>7, <2>1
  <2> QED BY <2>2
<1>9. list = Round(list)
  <2> HIDE DEF Round
  <2> QED BY <1>8
<1>10. ModulesOf(rows) = list[Len(rows)]
  BY DEF ModulesOf
<1> HIDE DEF list
<1>11. /\ DOMAIN list = 0 .. N
       /\ list = [n \in 0 .. N |-> list[n]]
       /\ \A n \in 0 .. N :
            list[n] = IF n = 0 THEN e ELSE WithModule(list[n - 1], rows[n].device.dev)
  <2>1. list = [n \in 0 .. N |-> IF n = 0 THEN e
                                 ELSE WithModule(list[n - 1], rows[n].device.dev)]
    BY <1>9
  <2> HIDE DEF N, e, Round
  <2> QED BY ONLY <2>1
<1>12. list[0] = e /\ \A n \in 1 .. N : list[n] = WithModule(list[n - 1], rows[n].device.dev)
  <2>1. 0 \in 0 .. N /\ \A n \in 1 .. N : n # 0 /\ n \in 0 .. N
    BY <1>1
  <2> HIDE DEF N, e, D, h, Round
  <2> QED BY <1>11, <2>1
<1> DEFINE A == {n \in Nat : n <= N => list[n] \in D}
<1>13. 0 \in A
  BY <1>2, <1>12
<1>14. ASSUME NEW n \in Nat, n \in A PROVE n + 1 \in A
  <2> SUFFICES ASSUME n + 1 <= N PROVE list[n + 1] \in D
    OBVIOUS
  <2>1. n + 1 \in 1 .. N /\ (n + 1) - 1 = n /\ list[n] \in D
    BY <1>1, <1>14
  <2> HIDE DEF D, N, e, h
  <2> QED BY <1>1, <1>3, <1>12, <2>1
<1>15. Nat \subseteq A
  <2> HIDE DEF A
  <2> QED BY <1>13, <1>14, SetInduction
<1>16. list \in [0 .. N -> D]
  <2>1. \A n \in 0 .. N : list[n] \in D
    BY <1>1, <1>15
  <2> HIDE DEF D, N, e, h
  <2> QED BY <1>11, <2>1
<1> QED BY <1>10, <1>12, <1>16

(* The list of modules has the module of a lamp that will be told: before   *)
(* its row comes, it has no other number in which the module's is found.    *)
LEMMA ModulesListed ==
  ASSUME NEW rows \in Seq(Row)
  PROVE  /\ ModulesOf(rows) \in Seq(0 .. 255)
         /\ \A l \in Lamps : WillBeTold(l, rows) =>
              \E k \in DOMAIN ModulesOf(rows) : ModulesOf(rows)[k] = l.dev
<1> DEFINE N == Len(rows)
<1>1. PICK list \in [0 .. Len(rows) -> Seq(0 .. 255)] :
        /\ list[0] = IF rows = <<>> THEN <<0>> ELSE <<rows[1].device.dev>>
        /\ \A n \in 1 .. Len(rows) : list[n] = WithModule(list[n - 1], rows[n].device.dev)
        /\ ModulesOf(rows) = list[Len(rows)]
  BY ModuleRounds
<1>2. /\ N \in Nat /\ DOMAIN rows = 1 .. N /\ ModulesOf(rows) \in Seq(0 .. 255)
      /\ \A n \in 0 .. N : list[n] \in Seq(0 .. 255)
      /\ \A n \in 1 .. N : rows[n].device.dev \in 0 .. 255
  <2>1. Len(rows) \in Nat /\ Len(rows) \in 0 .. Len(rows) /\ DOMAIN rows = 1 .. Len(rows)
    OBVIOUS
  <2>2. \A n \in 0 .. N : list[n] \in Seq(0 .. 255)
    OBVIOUS
  <2>3. \A n \in 1 .. N : rows[n].device.dev \in 0 .. 255
    <3>1. ASSUME NEW n \in 1 .. N PROVE rows[n].device.dev \in 0 .. 255
      <4>1. rows[n] \in Row
        OBVIOUS
      <4>2. rows[n].device \in Devices
        BY <4>1 DEF Row
      <4> QED BY <4>2, DeviceKinds DEF Devices
    <3> QED BY <3>1
  <2> QED BY <1>1, <2>1, <2>2, <2>3
<1> HIDE DEF N
<1>3. ASSUME NEW l \in Lamps, WillBeTold(l, rows)
      PROVE  \E k \in DOMAIN ModulesOf(rows) : ModulesOf(rows)[k] = l.dev
  <2> DEFINE dev == l.dev
             Of(r) == rows[r].device.dev
  <2>1. PICK j \in 1 .. N :
          /\ Of(j) = dev
          /\ \A n \in 1 .. j - 1 : HasDigits(Of(n), dev) => Of(n) = dev
    BY <1>2, <1>3 DEF WillBeTold
  <2> HIDE DEF dev
  <2> DEFINE P(t, n) == \A k \in DOMAIN t : \E r \in 1 .. N : (r <= n \/ r = 1) /\ t[k] = Of(r)
             A == {n \in Nat : n <= j - 1 => P(list[n], n)}
             Has(t) == \E k \in DOMAIN t : t[k] = dev
             B == {n \in Nat : n <= N - j => Has(list[j + n])}
  <2>2. 0 \in A
    <3>1. rows # <<>> /\ 1 \in 1 .. N /\ list[0] = <<Of(1)>>
      BY <1>1, <1>2
    <3> HIDE DEF Of
    <3>2. P(list[0], 0)
      BY <3>1
    <3> QED BY <3>2
  <2>3. ASSUME NEW t \in Seq(0 .. 255), NEW d \in 0 .. 255
        PROVE  \/ (\E k \in DOMAIN t : HasDigits(t[k], d)) /\ WithModule(t, d) = t
               \/ /\ WithModule(t, d) = Append(t, d)
                  /\ DOMAIN WithModule(t, d) = DOMAIN t \cup {Len(t) + 1}
                  /\ \A k \in DOMAIN t : WithModule(t, d)[k] = t[k]
                  /\ WithModule(t, d)[Len(t) + 1] = d
    <3>1. /\ DOMAIN Append(t, d) = DOMAIN t \cup {Len(t) + 1}
          /\ \A k \in DOMAIN t : Append(t, d)[k] = t[k]
          /\ Append(t, d)[Len(t) + 1] = d
      OBVIOUS
    <3> QED BY <3>1 DEF WithModule
  <2>4. ASSUME NEW n \in 0 .. N - 1
        PROVE  /\ n + 1 \in 1 .. N /\ n \in 0 .. N
               /\ list[n + 1] = WithModule(list[n], Of(n + 1))
               /\ list[n] \in Seq(0 .. 255) /\ Of(n + 1) \in 0 .. 255
    <3>1. n + 1 \in 1 .. N /\ n \in 0 .. N /\ (n + 1) - 1 = n
      BY <1>2
    <3> QED BY <1>1, <1>2, <3>1 DEF N
  <2>5. ASSUME NEW n \in Nat, n \in A PROVE n + 1 \in A
    <3> SUFFICES ASSUME n + 1 <= j - 1 PROVE P(list[n + 1], n + 1)
      <4> HIDE DEF P
      <4> QED OBVIOUS
    <3> DEFINE t == list[n]
               u == list[n + 1]
               d == Of(n + 1)
    <3>1. n \in 0 .. N - 1 /\ n <= j - 1 /\ n + 1 \in 1 .. N
      BY <1>2
    <3>2. u = WithModule(t, d) /\ t \in Seq(0 .. 255) /\ d \in 0 .. 255
      BY <2>4, <3>1
    <3>3. P(t, n)
      <4> HIDE DEF P
      <4> QED BY <2>5, <3>1
    <3>4. \A r \in 1 .. N : r <= n => r <= n + 1
      BY <3>1
    <3>5. \/ u = t
          \/ /\ DOMAIN u = DOMAIN t \cup {Len(t) + 1}
             /\ \A k \in DOMAIN t : u[k] = t[k]
             /\ u[Len(t) + 1] = d
      <4> HIDE DEF t, u, d
      <4> QED BY <2>3, <3>2
    <3>6. d = Of(n + 1)
      OBVIOUS
    <3> HIDE DEF t, u, d, Of
    <3>7. P(u, n + 1)
      BY <3>1, <3>3, <3>4, <3>5, <3>6
    <3> QED BY <3>7 DEF u
  <2>6. P(list[j - 1], j - 1)
    <3>1. j - 1 \in Nat /\ j - 1 <= j - 1
      BY <1>2
    <3> HIDE DEF P
    <3>2. A \subseteq Nat
      OBVIOUS
    <3>3. \A n \in A : n <= j - 1 => P(list[n], n)
      OBVIOUS
    <3> HIDE DEF A
    <3>4. j - 1 \in A
      BY <2>2, <2>5, <3>1, SetInduction
    <3> QED BY <3>1, <3>3, <3>4
  <2>7. Has(list[j])
    <3> DEFINE t == list[j - 1]
               u == list[j]
    <3>1. j - 1 \in 0 .. N - 1 /\ (j - 1) + 1 = j
      BY <1>2
    <3>2. u = WithModule(t, dev) /\ t \in Seq(0 .. 255) /\ dev \in 0 .. 255
      BY <2>1, <2>4, <3>1
    <3>3. P(t, j - 1)
      BY <2>6
    <3>4. ASSUME NEW k \in DOMAIN t, HasDigits(t[k], dev) PROVE t[k] = dev
      <4>1. PICK r \in 1 .. N : (r <= j - 1 \/ r = 1) /\ t[k] = Of(r)
        BY <3>3
      <4>2. r \in 1 .. j - 1 \/ r = j
        BY <3>1, <4>1
      <4> HIDE DEF Of, t
      <4> QED BY <2>1, <3>4, <4>1, <4>2
    <3> HIDE DEF t, u
    <3>5. \/ (\E k \in DOMAIN t : HasDigits(t[k], dev)) /\ u = t
          \/ u[Len(t) + 1] = dev /\ Len(t) + 1 \in DOMAIN u
      <4>1. t \in Seq(0 .. 255) /\ dev \in 0 .. 255
        BY <3>2
      <4>2. \/ (\E k \in DOMAIN t : HasDigits(t[k], dev)) /\ WithModule(t, dev) = t
            \/ /\ DOMAIN WithModule(t, dev) = DOMAIN t \cup {Len(t) + 1}
               /\ WithModule(t, dev)[Len(t) + 1] = dev
        BY <2>3, <4>1, Zenon
      <4> QED BY <3>2, <4>2
    <3>6. Has(u)
      BY <3>4, <3>5
    <3> QED BY <3>6 DEF u
  <2>8. 0 \in B
    <3>1. j + 0 = j
      OBVIOUS
    <3> HIDE DEF Has
    <3> QED BY <2>7, <3>1
  <2>9. ASSUME NEW n \in Nat, n \in B PROVE n + 1 \in B
    <3> SUFFICES ASSUME n + 1 <= N - j PROVE Has(list[j + (n + 1)])
      <4> HIDE DEF Has
      <4> QED OBVIOUS
    <3> DEFINE t == list[j + n]
               u == list[j + (n + 1)]
    <3>1. j + n \in 0 .. N - 1 /\ (j + n) + 1 = j + (n + 1) /\ n <= N - j
      BY <1>2
    <3>2. /\ u = WithModule(t, Of((j + n) + 1)) /\ t \in Seq(0 .. 255)
          /\ Of((j + n) + 1) \in 0 .. 255
      BY <2>4, <3>1
    <3>3. Has(t)
      <4> HIDE DEF Has
      <4> QED BY <2>9, <3>1
    <3> HIDE DEF t, u, Of
    <3>4. u = t \/ (DOMAIN t \subseteq DOMAIN u /\ \A k \in DOMAIN t : u[k] = t[k])
      <4> DEFINE d == Of((j + n) + 1)
      <4>1. t \in Seq(0 .. 255) /\ d \in 0 .. 255 /\ u = WithModule(t, d)
        BY <3>2
      <4> HIDE DEF Has, d
      <4>2. \/ WithModule(t, d) = t
            \/ /\ DOMAIN WithModule(t, d) = DOMAIN t \cup {Len(t) + 1}
               /\ \A k \in DOMAIN t : WithModule(t, d)[k] = t[k]
        BY <2>3, <4>1, Zenon
      <4> QED BY <4>1, <4>2
    <3>5. Has(u)
      BY <3>3, <3>4
    <3> QED BY <3>5 DEF u
  <2>10. Has(list[N])
    <3>1. N - j \in Nat /\ N - j <= N - j /\ j + (N - j) = N
      BY <1>2
    <3> HIDE DEF Has
    <3>3. \A n \in B : n <= N - j => Has(list[j + n])
      OBVIOUS
    <3> HIDE DEF B
    <3>4. N - j \in B
      BY <2>8, <2>9, <3>1, SetInduction
    <3> QED BY <3>1, <3>3, <3>4
  <2> QED BY <1>1, <2>10 DEF N, dev
<1> QED BY <1>2, <1>3

(* The reports of a feedback: they have all lamps as dimmer.db does, and    *)
(* come from the module of every lamp that will be told.                    *)
LEMMA ReportTypes ==
  ASSUME para \in Seq(Row), dimmer_db \in [Lamps -> 0 .. 100]
  PROVE  /\ LampReports \in Seq(Reports) /\ SensorReports \in Seq(Reports)
         /\ \A k \in DOMAIN LampReports :
              LampReports[k].what = "module" /\ LampReports[k].values = dimmer_db
         /\ \A k \in DOMAIN SensorReports : SensorReports[k].what = "sensor"
         /\ \A l \in Lamps : WillBeTold(l, para) =>
              \E k \in DOMAIN LampReports : LampReports[k].dev = l.dev
<1> DEFINE modules  == ModulesOf(para)
           byte     == 0 .. 255
           dimmers  == Filter(modules, {dev \in 0 .. 255 : ~ IsPir(dev)})
           rows     == Filter(para, {row \in Row : ~ IsDimmer(row.device.dev)})
           M(k)     == [what |-> "module", dev |-> dimmers[k], values |-> dimmer_db]
           S(k)     == [what |-> "sensor", of |-> rows[k].device]
<1>1. LampReports = [k \in 1 .. Len(dimmers) |-> M(k)]
  BY DEF LampReports
<1>2. SensorReports = [k \in 1 .. Len(rows) |-> S(k)]
  BY DEF SensorReports
<1>3. modules \in Seq(byte)
  BY ModulesListed
<1>4. /\ dimmers \in Seq(byte)
      /\ \A n \in 1 .. Len(modules) : modules[n] \in {dev \in 0 .. 255 : ~ IsPir(dev)} =>
           \E k \in 1 .. Len(dimmers) : dimmers[k] = modules[n]
  <2> DEFINE S0 == {dev \in 0 .. 255 : ~ IsPir(dev)}
  <2> HIDE DEF modules, byte, S0
  <2>1. /\ Filter(modules, S0) \in Seq(byte)
        /\ \A n \in 1 .. Len(modules) : modules[n] \in S0 =>
             \E k \in 1 .. Len(Filter(modules, S0)) : Filter(modules, S0)[k] = modules[n]
    BY <1>3, FilterElements
  <2> QED BY <2>1 DEF S0
<1>5. rows \in Seq(Row)
  BY FilterElements
<1>6. \A l \in Lamps : WillBeTold(l, para) => \E k \in DOMAIN modules : modules[k] = l.dev
  BY ModulesListed
<1> HIDE DEF modules, dimmers, rows
<1>7. Len(dimmers) \in Nat /\ \A k \in 1 .. Len(dimmers) : M(k) \in Reports
  <2>1. \A k \in 1 .. Len(dimmers) : dimmers[k] \in 0 .. 255
    <3> HIDE DEF byte
    <3>1. \A t \in Seq(byte) : \A k \in 1 .. Len(t) : t[k] \in byte
      OBVIOUS
    <3>2. \A k \in 1 .. Len(dimmers) : dimmers[k] \in byte
      BY <1>4, <3>1
    <3> QED BY <3>2 DEF byte
  <2>2. Len(dimmers) \in Nat
    BY <1>4
  <2>3. \A d \in 0 .. 255 : [what |-> "module", dev |-> d, values |-> dimmer_db] \in Reports
    BY DEF Reports
  <2> QED BY <2>1, <2>2, <2>3
<1>8. Len(rows) \in Nat /\ \A k \in 1 .. Len(rows) : S(k) \in Reports
  <2>1. \A k \in 1 .. Len(rows) : rows[k].device \in Devices
    <3>1. \A k \in 1 .. Len(rows) : rows[k] \in Row
      BY <1>5
    <3> QED BY <3>1 DEF Row
  <2>2. Len(rows) \in Nat
    BY <1>5
  <2>3. \A d \in Devices : [what |-> "sensor", of |-> d] \in Reports
    BY DEF Reports
  <2> QED BY <2>1, <2>2, <2>3
<1>9. \A n \in Nat : \A f \in [1 .. n -> Reports] : f \in Seq(Reports)
  OBVIOUS
<1>10. LampReports \in Seq(Reports)
  <2>1. LampReports \in [1 .. Len(dimmers) -> Reports]
    BY <1>1, <1>7
  <2> QED BY <1>7, <1>9, <2>1
<1>11. SensorReports \in Seq(Reports)
  <2>1. SensorReports \in [1 .. Len(rows) -> Reports]
    BY <1>2, <1>8
  <2> QED BY <1>8, <1>9, <2>1
<1>12. \A k \in DOMAIN LampReports :
         LampReports[k].what = "module" /\ LampReports[k].values = dimmer_db
  BY <1>1
<1>13. \A k \in DOMAIN SensorReports : SensorReports[k].what = "sensor"
  BY <1>2
<1>14. ASSUME NEW l \in Lamps, WillBeTold(l, para)
       PROVE  \E k \in DOMAIN LampReports : LampReports[k].dev = l.dev
  <2>1. PICK j \in DOMAIN modules : modules[j] = l.dev
    BY <1>6, <1>14
  <2>2. l.dev \in 0 .. 255 /\ ~ IsPir(l.dev)
    BY <1>14, DeviceKinds DEF WillBeTold
  <2>5. j \in 1 .. Len(modules)
    BY <1>3
  <2>3. PICK k \in 1 .. Len(dimmers) : dimmers[k] = modules[j]
    BY <1>4, <2>1, <2>2, <2>5
  <2>4. DOMAIN LampReports = 1 .. Len(dimmers) /\ LampReports[k] = M(k)
    BY <1>1
  <2> QED BY <2>1, <2>3, <2>4
<1> QED BY <1>10, <1>11, <1>12, <1>13, <1>14

--------------------------------------------------------------------------------
(* The inductive invariant, part by part.                                   *)

(* Only the reader and its worker touch the worker's part and the file.     *)
LEMMA OthersKeepWorker ==
  ASSUME \/ data_to_clo_thread \/ get_handle \/ trans_serial_write
         \/ Wake \/ general_serial_write \/ UNCHANGED vars
  PROVE  UNCHANGED <<worker, frame, kept, scene_txt, truncated, deletes>>
<1>1. CASE data_to_clo_thread
  BY <1>1 DEF data_to_clo_thread, workers, files
<1>2. CASE get_handle
  BY <1>2 DEF get_handle, TakeFrame, NoFrame, TakeEvent, NoEvent, match_dimmer_scene,
              ApplyLamp, ApplySensor, OffRow, SendRows, MatchAgain, scene_control_feedback,
              workers, files, counts
<1>3. CASE trans_serial_write \/ Wake \/ general_serial_write
  BY <1>3 DEF trans_serial_write, Wake, general_serial_write, workers, files, counts
<1>4. CASE UNCHANGED vars
  BY <1>4 DEF vars, workers, files, counts
<1> QED BY <1>1, <1>2, <1>3, <1>4

(* Only the main loop touches its part and the databases.                   *)
LEMMA OthersKeepMain ==
  ASSUME \/ get_valid_cbus_data \/ data_to_other_thread \/ data_to_clo_thread
         \/ trans_serial_write \/ Wake \/ general_serial_write \/ UNCHANGED vars
  PROVE  UNCHANGED <<main, job, para, i, pir_state, dimmer_db, unsettled, state>>
<1>1. CASE get_valid_cbus_data
  BY <1>1 DEF get_valid_cbus_data, mains, dbs, lamp_db
<1>2. CASE data_to_other_thread
  BY <1>2 DEF data_to_other_thread, RecordBrightness, save_scene_para, CopyRows, RewriteRows,
              QueueFrame, Reply, mains, dbs, lamp_db
<1>3. CASE data_to_clo_thread \/ trans_serial_write \/ Wake \/ general_serial_write
  BY <1>3 DEF data_to_clo_thread, trans_serial_write, Wake, general_serial_write,
              mains, dbs, lamp_db
<1>4. CASE UNCHANGED vars
  BY <1>4 DEF vars, mains, dbs, lamp_db
<1> QED BY <1>1, <1>2, <1>3, <1>4

(* The row of a configuration.                                              *)
RowFor(r) == [device |-> r.device, scene |-> r.scene, value |-> r.value, delay |-> r.delay]

(* The fields of a request.                                                 *)
LEMMA RequestTypes ==
  ASSUME NEW r \in Requests
  PROVE  /\ r.cmd \in {"configure", "delete", "control"}
         /\ r.scene \in Scenes /\ r.device \in Devices /\ r.value \in Values
         /\ r.value \in 0 .. 100
         /\ RowFor(r) \in Row
         /\ IsOf(RowFor(r), r.scene, r.device)
<1>1. Requests \subseteq [cmd : {"configure", "delete", "control"}, scene : 0 .. 255,
                          device : Devices, value : 0 .. 100, delay : 0 .. 255]
  BY SceneAssumption, Zenon DEF SceneAssumption
<1>2. \A q \in Requests : /\ q.scene \in Scenes /\ q.device \in Devices
                          /\ q.value \in Values /\ q.delay \in Delays
  BY Requested
<1>3. r.cmd \in {"configure", "delete", "control"} /\ r.value \in 0 .. 100
  BY <1>1
<1>4. RowFor(r) \in Row /\ IsOf(RowFor(r), r.scene, r.device)
  BY <1>2 DEF RowFor, Row, IsOf
<1> QED BY <1>2, <1>3, <1>4

(* After a deletion, whether it copied the file or found nothing, no row of *)
(* the entry is there.                                                      *)
LEMMA DeletionDone ==
  ASSUME NEW text \in Seq(Row), NEW r \in Requests
  PROVE  /\ Filter(text, Staying(r)) \in Seq(Row)
         /\ LastOf(Filter(text, Staying(r)), r.scene, r.device) = NoEntry
         /\ ~ Len(Filter(text, Staying(r))) < Len(text)
            => LastOf(text, r.scene, r.device) = NoEntry
<1> DEFINE S == Staying(r)
           part == Filter(text, S)
<1>1. \A row \in Row : IsOf(row, r.scene, r.device) => row \notin S
  BY OwnRowsGo
<1> HIDE DEF S
<1>2. /\ part \in Seq(Row)
      /\ \A k \in 1 .. Len(part) : part[k] \in S
      /\ Len(part) <= Len(text)
      /\ Len(part) = Len(text) => \A n \in 1 .. Len(text) : text[n] \in S
  BY FilterElements
<1> HIDE DEF part
<1>3. \A k \in 1 .. Len(part) : part[k] \in Row
  BY <1>2
<1>4. LastOf(part, r.scene, r.device) = NoEntry
  BY <1>1, <1>2, <1>3, LastOfNone
<1>5. ASSUME ~ Len(part) < Len(text) PROVE LastOf(text, r.scene, r.device) = NoEntry
  <2>1. Len(part) \in Nat /\ Len(text) \in Nat
    BY <1>2
  <2>2. \A n \in 1 .. Len(text) : text[n] \in S /\ text[n] \in Row
    BY <1>2, <1>5, <2>1
  <2> QED BY <1>1, <2>2, LastOfNone
<1> QED BY <1>2, <1>4, <1>5 DEF part, S

(* Where the worker may be.                                                 *)
Places == {"none", "configure", "append", "delete", "rewrite", "queue", "reply"}

(* A step keeps what is said of the worker and of the file.                 *)
LEMMA NextWorker ==
  ASSUME WorkerInv, StoredInv, worker \in Places, truncated <=> worker = "rewrite",
         [Next]_vars
  PROVE  /\ WorkerInv' /\ StoredInv'
         /\ worker' \in Places /\ (truncated' <=> worker' = "rewrite")
<1>0. scene_txt \in Seq(Row) /\ kept \in Seq(Row) /\ <<>> \in Seq(Row)
  BY DEF WorkerInv
<1>1. CASE get_valid_cbus_data
  <2>1. PICK r \in Requests :
          /\ frame' = r
          /\ worker' = IF r.cmd = "control" THEN "queue" ELSE r.cmd
    BY <1>1 DEF get_valid_cbus_data
  <2>2. worker = "none" /\ UNCHANGED <<kept, scene_txt, truncated>>
    BY <1>1 DEF get_valid_cbus_data, files
  <2>3. r.cmd \in {"configure", "delete", "control"}
    BY RequestTypes
  <2>4. worker' \in {"configure", "delete", "queue"} /\ (worker' = "queue" => frame'.cmd = "control")
        /\ (worker' # "queue" => frame'.cmd = worker') /\ frame' \in Requests
    BY <2>1, <2>3
  <2>5. WorkerInv'
    BY <1>0, <2>2, <2>4 DEF WorkerInv
  <2>6. StoredInv'
    BY <2>4 DEF StoredInv
  <2> QED BY <2>2, <2>4, <2>5, <2>6 DEF Places
<1>2. CASE RecordBrightness
  <2>1. /\ worker = "configure" /\ worker' = "append"
        /\ UNCHANGED <<frame, kept, scene_txt, truncated>>
    BY <1>2 DEF RecordBrightness, files
  <2> QED BY <2>1 DEF WorkerInv, StoredInv, Places
<1>3. CASE save_scene_para
  <2>1. /\ worker = "append" /\ worker' = "queue" /\ scene_txt' = Append(scene_txt, RowFor(frame))
        /\ UNCHANGED <<frame, kept, truncated>>
    BY <1>3 DEF save_scene_para, RowFor
  <2>2. frame \in Requests /\ frame.cmd = "configure"
    BY <2>1 DEF WorkerInv
  <2>3. RowFor(frame) \in Row /\ IsOf(RowFor(frame), frame.scene, frame.device)
    BY <2>2, RequestTypes
  <2>4. LastOf(scene_txt', frame.scene, frame.device) = RowFor(frame).value
    BY <1>0, <2>1, <2>3, LastOfAppend
  <2>5. RowFor(frame).value = frame.value
    BY DEF RowFor
  <2>6. scene_txt' \in Seq(Row)
    BY <1>0, <2>1, <2>3
  <2>7. WorkerInv'
    BY <1>0, <2>1, <2>2, <2>6 DEF WorkerInv
  <2>8. StoredInv'
    BY <2>1, <2>2, <2>4, <2>5 DEF StoredInv
  <2> QED BY <2>1, <2>7, <2>8 DEF Places
<1>4. CASE CopyRows
  <2>1. /\ worker = "delete" /\ kept' = Filter(scene_txt, Staying(frame))
        /\ IF Len(kept') < Len(scene_txt)
           THEN truncated' = TRUE /\ worker' = "rewrite"
           ELSE UNCHANGED truncated /\ worker' = "queue"
        /\ UNCHANGED <<frame, scene_txt>>
    BY <1>4 DEF CopyRows
  <2>2. frame \in Requests /\ frame.cmd = "delete"
    BY <2>1 DEF WorkerInv
  <2>3. /\ kept' \in Seq(Row)
        /\ ~ Len(kept') < Len(scene_txt) => LastOf(scene_txt, frame.scene, frame.device) = NoEntry
    BY <1>0, <2>1, <2>2, DeletionDone
  <2>4. WorkerInv'
    BY <1>0, <2>1, <2>2, <2>3 DEF WorkerInv
  <2>5. StoredInv'
    BY <2>1, <2>2, <2>3 DEF StoredInv
  <2> QED BY <2>1, <2>4, <2>5 DEF Places
<1>5. CASE RewriteRows
  <2>1. /\ worker = "rewrite" /\ worker' = "queue" /\ scene_txt' = kept /\ kept' = <<>>
        /\ truncated' = FALSE /\ UNCHANGED frame
    BY <1>5 DEF RewriteRows
  <2>2. frame \in Requests /\ frame.cmd = "delete" /\ kept = Filter(scene_txt, Staying(frame))
    BY <2>1 DEF WorkerInv
  <2>3. LastOf(scene_txt', frame.scene, frame.device) = NoEntry
    BY <1>0, <2>1, <2>2, DeletionDone
  <2>4. WorkerInv'
    BY <1>0, <2>1, <2>2 DEF WorkerInv
  <2>5. StoredInv'
    BY <2>1, <2>2, <2>3 DEF StoredInv
  <2> QED BY <2>1, <2>4, <2>5 DEF Places
<1>6. CASE QueueFrame
  <2>1. /\ worker = "queue" /\ UNCHANGED <<kept, scene_txt, truncated>>
        /\ worker' = IF frame.cmd = "control" THEN "none" ELSE "reply"
        /\ frame' = IF frame.cmd = "control" THEN NoEntry ELSE frame
    BY <1>6 DEF QueueFrame, files
  <2>2. CASE frame.cmd = "control"
    BY <2>1, <2>2 DEF WorkerInv, StoredInv, Places
  <2>3. CASE frame.cmd # "control"
    BY <2>1, <2>3 DEF WorkerInv, StoredInv, Places
  <2> QED BY <2>2, <2>3
<1>7. CASE Reply
  <2>1. /\ worker = "reply" /\ worker' = "none" /\ UNCHANGED <<kept, scene_txt, truncated>>
    BY <1>7 DEF Reply, files
  <2> QED BY <2>1 DEF WorkerInv, StoredInv, Places
<1>8. CASE \/ data_to_clo_thread \/ get_handle \/ trans_serial_write
           \/ Wake \/ general_serial_write \/ UNCHANGED vars
  <2>1. UNCHANGED <<worker, frame, kept, scene_txt, truncated>>
    BY <1>8, OthersKeepWorker
  <2> QED BY <2>1 DEF WorkerInv, StoredInv
<1> QED BY <1>1, <1>2, <1>3, <1>4, <1>5, <1>6, <1>7, <1>8 DEF Next, data_to_other_thread

(* What match_dimmer_scene finds are rows of the file, of the scene.        *)
LEMMA RowsFound ==
  ASSUME scene_txt \in Seq(Row), NEW s
  PROVE  /\ Visible \in Seq(Row)
         /\ RowsOf(Visible, s) \in Seq(Row)
         /\ \A k \in 1 .. Len(RowsOf(Visible, s)) :
              /\ RowsOf(Visible, s)[k].scene = s
              /\ \E n \in DOMAIN scene_txt : scene_txt[n] = RowsOf(Visible, s)[k]
<1> DEFINE S == [device : Devices, scene : {s}, value : Values,
                  delay : Delays]
           t == Filter(Visible, S)
<1>1. Visible \in Seq(Row) /\ (Visible = scene_txt \/ Visible = <<>>)
  <2>1. <<>> \in Seq(Row)
    OBVIOUS
  <2> QED BY <2>1 DEF Visible
<1>2. /\ t \in Seq(Row)
      /\ \A k \in 1 .. Len(t) : t[k] \in S /\ \E n \in 1 .. Len(Visible) : Visible[n] = t[k]
  <2> HIDE DEF S
  <2> QED BY <1>1, FilterElements
<1>3. RowsOf(Visible, s) = t
  BY DEF RowsOf
<1> HIDE DEF t
<1>4. \A k \in 1 .. Len(t) : t[k].scene = s
  BY <1>2
<1>5. ASSUME NEW k \in 1 .. Len(t) PROVE \E n \in DOMAIN scene_txt : scene_txt[n] = t[k]
  <2>1. PICK n \in 1 .. Len(Visible) : Visible[n] = t[k]
    BY <1>2
  <2>2. Visible # <<>>
    BY <2>1
  <2>3. Visible = scene_txt
    BY <1>1, <2>2
  <2> QED BY <2>1, <2>3
<1> QED BY <1>1, <1>2, <1>3, <1>4, <1>5

(* The rows up to and including the one at i.                               *)
LEMMA OneRowMore ==
  ASSUME para \in Seq(Row), i \in 1 .. Len(para)
  PROVE  /\ para[i] \in Row
         /\ SubSeq(para, 1, i - 1) \in Seq(Row)
         /\ SubSeq(para, 1, (i + 1) - 1) = Append(SubSeq(para, 1, i - 1), para[i])
<1>1. /\ Len(para) \in Nat /\ i \in Nat /\ (i + 1) - 1 = i /\ i - 1 \in 0 .. Len(para)
      /\ (i - 1) + 1 = i
  OBVIOUS
<1>2. \A n \in 0 .. Len(para) - 1 :
        SubSeq(para, 1, n + 1) = Append(SubSeq(para, 1, n), para[n + 1])
  OBVIOUS
<1>3. SubSeq(para, 1, i - 1) \in Seq(Row)
  BY <1>1
<1>4. i - 1 \in 0 .. Len(para) - 1
  BY <1>1
<1> QED BY <1>1, <1>2, <1>3, <1>4

(* Where the main loop may be.                                              *)
Steps == {"clowire", "qiyuan", "match", "apply", "off", "again", "feedback"}

(* A step keeps what is said of the main loop and of masked sensors.        *)
LEMMA NextMain ==
  ASSUME MainInv, MaskInv, QueueInv, scene_txt \in Seq(Row), main \in Steps,
         state \in [Sensors -> 0 .. 255], [Next]_vars
  PROVE  MainInv' /\ MaskInv' /\ main' \in Steps
<1>0. para \in Seq(Row) /\ i \in Nat /\ pir_state \in 0 .. 255 /\ Len(para) \in Nat
      /\ DOMAIN para = 1 .. Len(para)
  BY DEF MainInv
<1>1. CASE \/ get_valid_cbus_data \/ data_to_other_thread \/ data_to_clo_thread
           \/ trans_serial_write \/ Wake \/ general_serial_write \/ UNCHANGED vars
  <2>1. UNCHANGED <<main, job, para, i, pir_state, state>>
    BY <1>1, OthersKeepMain
  <2> QED BY <2>1 DEF MainInv, MaskInv, SceneMasks
<1>2. CASE TakeFrame
  <2>1. /\ main = "clowire" /\ queue_read # <<>> /\ UNCHANGED <<para, i, pir_state>>
        /\ IF Head(queue_read).cmd = "control"
           THEN main' = "match" /\ job' = [scene |-> Head(queue_read).scene, off |-> FALSE]
           ELSE UNCHANGED <<main, job>>
    BY <1>2 DEF TakeFrame
  <2>2. Head(queue_read) \in Requests \cup {Triggered}
    BY <2>1 DEF QueueInv
  <2>3. Head(queue_read).scene \in Scenes
    BY <2>2, RequestTypes DEF Triggered, Scenes
  <2>4. CASE main' = "match"
    <3>1. job' = [scene |-> Head(queue_read).scene, off |-> FALSE]
      BY <2>1, <2>4
    <3>2. job' \in Job
      BY <2>3, <3>1 DEF Job
    <3> QED BY <1>0, <2>1, <2>4, <3>2 DEF MainInv, MaskInv, SceneMasks, Steps
  <2>5. CASE main' = "clowire"
    BY <1>0, <2>1, <2>5 DEF MainInv, MaskInv, SceneMasks, Steps
  <2> QED BY <2>1, <2>4, <2>5
<1>3. CASE NoFrame \/ NoEvent
  <2>1. main' \in {"clowire", "qiyuan"} /\ UNCHANGED <<para, i, pir_state>>
    BY <1>3 DEF NoFrame, NoEvent
  <2> QED BY <1>0, <2>1 DEF MainInv, MaskInv, SceneMasks, Steps
<1>4. CASE TakeEvent
  <2>1. /\ main = "qiyuan" /\ UNCHANGED <<para, i, pir_state>>
        /\ \/ main' = "match" /\ job' = [scene |-> Target, off |-> TRUE]
           \/ UNCHANGED main
    BY <1>4 DEF TakeEvent
  <2>2. CASE main' = "match" /\ job' = [scene |-> Target, off |-> TRUE]
    <3>1. Target \in Scenes
      BY DEF Scenes
    <3>2. job' \in Job
      BY <2>2, <3>1 DEF Job
    <3> QED BY <1>0, <2>1, <2>2, <3>2 DEF MainInv, MaskInv, SceneMasks, Steps
  <2>3. CASE UNCHANGED main
    BY <1>0, <2>1, <2>3 DEF MainInv, MaskInv, SceneMasks, Steps
  <2> QED BY <2>1, <2>2, <2>3
<1>5. CASE match_dimmer_scene
  <2>1. /\ main = "match" /\ para' = RowsOf(Visible, job.scene) /\ i' = 1
        /\ main' = IF job.off THEN "off" ELSE "apply"
        /\ UNCHANGED <<job, state>>
    BY <1>5 DEF match_dimmer_scene, dbs, lamp_db
  <2>2. pir_state' \in 0 .. 255
    <3>1. Garbage \subseteq 0 .. 255
      BY ConstantTypes
    <3> QED BY <1>5, <3>1 DEF match_dimmer_scene
  <2>3. job \in Job /\ job.off \in BOOLEAN
    BY <2>1 DEF MainInv, Job
  <2>4. para' \in Seq(Row) /\ \A k \in 1 .. Len(para') : para'[k].scene = job.scene
    BY <2>1, RowsFound
  <2>5. Len(para') \in Nat /\ DOMAIN para' = 1 .. Len(para') /\ 1 \in 1 .. Len(para') + 1
    BY <2>4
  <2>6. MainInv'
    BY <2>1, <2>2, <2>3, <2>4, <2>5 DEF MainInv
  <2>7. SubSeq(para', 1, i' - 1) = <<>>
    BY <2>1, <2>4
  <2>8. \A p \in Sensors : LastOf(SubSeq(para', 1, i' - 1), job.scene, p) # 1
    <3>1. <<>> \in Seq(Row) /\ Len(<<>>) = 0 /\ 1 \in 0 .. 255
      OBVIOUS
    <3>2. \A p \in Sensors : LastOf(<<>>, job.scene, p) = NoEntry
      <4> DEFINE e == <<>>
      <4>1. e \in Seq(Row) /\ \A s, d : \A k \in 1 .. Len(e) : ~ IsOf(e[k], s, d)
        BY <3>1
      <4> HIDE DEF e
      <4>2. \A s, d : LastOf(e, s, d) = NoEntry
        BY <4>1, LastOfNone
      <4> QED BY <4>2 DEF e
    <3>3. NoEntry # 1
      <4>1. NoEntry \notin 0 .. 255
        BY ConstantTypes
      <4> QED BY <3>1, <4>1
    <3> QED BY <2>7, <3>2, <3>3
  <2>9. MaskInv'
    BY <2>1, <2>8 DEF MaskInv, SceneMasks
  <2> QED BY <2>1, <2>6, <2>9 DEF Steps
<1>6. CASE ApplyLamp
  <2>1. /\ main = "apply" /\ i <= Len(para) /\ IsDimmer(para[i].device.dev) /\ i' = i + 1
        /\ UNCHANGED <<main, job, para, pir_state, state>>
    BY <1>6 DEF ApplyLamp
  <2>2. i \in 1 .. Len(para)
    BY <1>0, <2>1 DEF MainInv
  <2>3. MainInv'
    <3>1. i' \in 1 .. Len(para) + 1 /\ i' \in Nat
      BY <1>0, <2>1, <2>2
    <3> QED BY <2>1, <3>1 DEF MainInv
  <2>4. ASSUME NEW p \in Sensors, LastOf(SubSeq(para', 1, i' - 1), job.scene, p) = 1
        PROVE  state[p] = 0
    <3>1. /\ para[i] \in Row /\ SubSeq(para, 1, i - 1) \in Seq(Row)
          /\ SubSeq(para', 1, i' - 1) = Append(SubSeq(para, 1, i - 1), para[i])
      BY <1>0, <2>1, <2>2, OneRowMore
    <3>2. para[i].device # p
      BY <2>1, DeviceKinds
    <3>4. LastOf(Append(SubSeq(para, 1, i - 1), para[i]), job.scene, p)
            = IF IsOf(para[i], job.scene, p) THEN para[i].value
              ELSE LastOf(SubSeq(para, 1, i - 1), job.scene, p)
      <4> DEFINE part == SubSeq(para, 1, i - 1)
                 row == para[i]
                 s == job.scene
      <4>1. part \in Seq(Row) /\ row \in Row
        BY <3>1
      <4> HIDE DEF part, row, s
      <4>2. LastOf(Append(part, row), s, p)
              = IF IsOf(row, s, p) THEN row.value ELSE LastOf(part, s, p)
        BY <4>1, LastOfAppend
      <4> QED BY <4>2 DEF part, row, s
    <3>3. LastOf(SubSeq(para, 1, i - 1), job.scene, p) = 1
      BY <2>4, <3>1, <3>2, <3>4 DEF IsOf
    <3> QED BY <2>1, <3>3 DEF MaskInv
  <2>5. MaskInv'
    BY <2>1, <2>4 DEF MaskInv, SceneMasks
  <2> QED BY <2>1, <2>3, <2>5
<1>7. CASE ApplySensor
  <2>1. /\ main = "apply" /\ i <= Len(para) /\ ~ IsDimmer(para[i].device.dev) /\ i' = i + 1
        /\ pir_state' = IF para[i].value = 1 THEN 0 ELSE pir_state
        /\ UNCHANGED <<main, job, para>>
    BY <1>7 DEF ApplySensor
  <2>2. i \in 1 .. Len(para)
    BY <1>0, <2>1 DEF MainInv
  <2>3. MainInv'
    <3>1. i' \in 1 .. Len(para) + 1 /\ i' \in Nat
      BY <1>0, <2>1, <2>2
    <3>2. pir_state' \in 0 .. 255
      BY <1>0, <2>1
    <3> QED BY <1>0, <2>1, <3>1, <3>2 DEF MainInv
  <2>4. ASSUME NEW p \in Sensors, LastOf(SubSeq(para', 1, i' - 1), job.scene, p) = 1
        PROVE  state'[p] = 0
    <3>1. /\ para[i] \in Row /\ SubSeq(para, 1, i - 1) \in Seq(Row)
          /\ SubSeq(para', 1, i' - 1) = Append(SubSeq(para, 1, i - 1), para[i])
      BY <1>0, <2>1, <2>2, OneRowMore
    <3>2. para[i].scene = job.scene
      BY <1>0, <2>1, <2>2 DEF MainInv
    <3>3. LastOf(Append(SubSeq(para, 1, i - 1), para[i]), job.scene, p)
            = IF IsOf(para[i], job.scene, p) THEN para[i].value
              ELSE LastOf(SubSeq(para, 1, i - 1), job.scene, p)
      <4> DEFINE part == SubSeq(para, 1, i - 1)
                 row == para[i]
                 s == job.scene
      <4>1. part \in Seq(Row) /\ row \in Row
        BY <3>1
      <4> HIDE DEF part, row, s
      <4>2. LastOf(Append(part, row), s, p)
              = IF IsOf(row, s, p) THEN row.value ELSE LastOf(part, s, p)
        BY <4>1, LastOfAppend
      <4> QED BY <4>2 DEF part, row, s
    <3>4. CASE para[i].device = p
      <4>1. para[i].value = 1
        BY <2>4, <3>1, <3>2, <3>3, <3>4 DEF IsOf
      <4>2. pir_state' = 0
        BY <2>1, <4>1
      <4>3. state'[p] = 0
        BY <1>7, <3>4, <4>2 DEF ApplySensor
      <4> QED BY <4>3
    <3>5. CASE para[i].device # p
      <4>1. LastOf(SubSeq(para, 1, i - 1), job.scene, p) = 1
        BY <2>4, <3>1, <3>3, <3>5 DEF IsOf
      <4>2. state[p] = 0
        BY <2>1, <4>1 DEF MaskInv
      <4>3. state'[p] = state[p]
        BY <1>7, <3>5 DEF ApplySensor
      <4> QED BY <4>2, <4>3
    <3> QED BY <3>4, <3>5
  <2>5. MaskInv'
    BY <2>1, <2>4 DEF MaskInv, SceneMasks
  <2> QED BY <2>1, <2>3, <2>5
<1>8. CASE OffRow
  <2>1. /\ main = "off" /\ i <= Len(para) /\ i' = i + 1
        /\ UNCHANGED <<main, job, para, pir_state, state>>
    BY <1>8 DEF OffRow
  <2>2. i' \in 1 .. Len(para) + 1 /\ i' \in Nat
    BY <1>0, <2>1 DEF MainInv
  <2>3. MainInv'
    BY <2>1, <2>2 DEF MainInv
  <2>4. MaskInv'
    BY <2>1 DEF MaskInv, SceneMasks
  <2> QED BY <2>1, <2>3, <2>4
<1>9. CASE SendRows
  <2>1. /\ main \in {"apply", "off"} /\ i > Len(para) /\ main' = "again"
        /\ UNCHANGED <<job, para, i, pir_state, state>>
    BY <1>9 DEF SendRows, dbs, lamp_db
  <2>2. MainInv'
    BY <1>0, <2>1 DEF MainInv
  <2>3. ASSUME ~ job.off, NEW p \in Sensors, LastOf(para, job.scene, p) = 1
        PROVE  state[p] = 0
    <3>1. main = "apply"
      BY <2>1, <2>3 DEF MainInv
    <3>2. i - 1 = Len(para)
      BY <1>0, <2>1, <3>1 DEF MainInv
    <3>3. SubSeq(para, 1, Len(para)) = para
      BY <1>0
    <3> QED BY <2>3, <3>1, <3>2, <3>3 DEF MaskInv
  <2>4. MaskInv'
    BY <2>1, <2>3 DEF MaskInv, SceneMasks
  <2> QED BY <2>1, <2>2, <2>4 DEF Steps
<1>10. CASE MatchAgain
  <2>1. /\ main = "again" /\ para' = RowsOf(Visible, job.scene) /\ main' = "feedback"
        /\ UNCHANGED <<job, i, pir_state>>
    BY <1>10 DEF MatchAgain
  <2>2. para' \in Seq(Row) /\ \A k \in 1 .. Len(para') : para'[k].scene = job.scene
    BY <2>1, RowsFound
  <2>3. DOMAIN para' = 1 .. Len(para')
    BY <2>2
  <2>4. MainInv'
    BY <1>0, <2>1, <2>2, <2>3 DEF MainInv
  <2>5. MaskInv'
    BY <2>1 DEF MaskInv, SceneMasks
  <2> QED BY <2>1, <2>4, <2>5 DEF Steps
<1>11. CASE scene_control_feedback
  <2>1. /\ main' \in {"clowire", "qiyuan"} /\ para' = <<>> /\ i' = 0 /\ pir_state' = 0
    BY <1>11 DEF scene_control_feedback
  <2>2. <<>> \in Seq(Row) /\ 0 \in 0 .. 255 /\ 0 \in Nat
    OBVIOUS
  <2>3. MainInv'
    BY <2>1, <2>2 DEF MainInv
  <2>4. MaskInv'
    BY <2>1 DEF MaskInv, SceneMasks
  <2> QED BY <2>1, <2>3, <2>4 DEF Steps
<1> QED BY <1>1, <1>2, <1>3, <1>4, <1>5, <1>6, <1>7, <1>8, <1>9, <1>10, <1>11
        DEF Next, get_handle

(* The commands of the first n rows.                                        *)
LEMMA CommandsType ==
  ASSUME para \in Seq(Row), NEW n \in 0 .. Len(para)
  PROVE  [k \in 1 .. n |-> CommandOf(para[k])] \in Seq(Command \cup {Empty})
<1> DEFINE T == Command \cup {Empty}
           q == [k \in 1 .. n |-> CommandOf(para[k])]
<1>1. \A k \in 1 .. n : para[k] \in Row
  OBVIOUS
<1>2. \A k \in 1 .. n : CommandOf(para[k]) \in T
  BY <1>1, CommandType
<1> HIDE DEF T
<1>3. q \in [1 .. n -> T] /\ n \in Nat
  BY <1>2
<1>4. \A m \in Nat : \A f \in [1 .. m -> T] : f \in Seq(T)
  OBVIOUS
<1> HIDE DEF q
<1>5. q \in Seq(T)
  BY <1>3, <1>4
<1> QED BY <1>5 DEF q, T

(* A thread sends its command without the delay, or sends 0 instead.        *)
LEMMA CommandChanged ==
  ASSUME NEW a \in Command
  PROVE  LET c == [a EXCEPT !.delay = 0]
             z == [a EXCEPT !.level = 0, !.delay = 0]
         IN  /\ c \in Command /\ z \in Command
             /\ a.delay \in Nat /\ c.level = a.level /\ c.delay = 0 /\ z.delay = 0
             /\ \A l : (Reaches(c, l) <=> Reaches(a, l)) /\ (Reaches(z, l) <=> Reaches(a, l))
<1> DEFINE c == [a EXCEPT !.delay = 0]
           z == [a EXCEPT !.level = 0, !.delay = 0]
<1>1. c \in Command /\ c.level = a.level /\ c.delay = 0
  BY DEF Command
<1>2. z \in Command
  <2>1. [c EXCEPT !.level = 0] \in Command
    <3> HIDE DEF c
    <3> QED BY <1>1 DEF Command
  <2>2. z = [c EXCEPT !.level = 0]
    BY DEF Command
  <2> QED BY <2>1, <2>2
<1>3. a.delay \in Nat /\ z.delay = 0
  BY DEF Command
<1>4. /\ c.what = a.what /\ c.circuit = a.circuit /\ c.application = a.application
      /\ z.what = a.what /\ z.circuit = a.circuit /\ z.application = a.application
  BY DEF Command
<1> HIDE DEF c, z
<1>5. \A l : (Reaches(c, l) <=> Reaches(a, l)) /\ (Reaches(z, l) <=> Reaches(a, l))
  BY <1>4 DEF Reaches
<1> QED BY <1>1, <1>2, <1>3, <1>5 DEF c, z

(* Without its n-th element a sequence has all others, and no more.         *)
LEMMA Removed ==
  ASSUME NEW T, NEW s \in Seq(T), NEW n \in 1 .. Len(s)
  PROVE  /\ RemoveAt(s, n) \in Seq(T) /\ s[n] \in T
         /\ \A k \in DOMAIN RemoveAt(s, n) :
              \E m \in DOMAIN s : m # n /\ RemoveAt(s, n)[k] = s[m]
         /\ \A m \in DOMAIN s :
              m # n => \E k \in DOMAIN RemoveAt(s, n) : RemoveAt(s, n)[k] = s[m]
<1> DEFINE N == Len(s)
           a == SubSeq(s, 1, n - 1)
           b == SubSeq(s, n + 1, N)
           t == a \o b
<1>1. /\ N \in Nat /\ DOMAIN s = 1 .. N /\ n \in 1 .. N /\ n \in Int
      /\ \A k \in 1 .. N : s[k] \in T
  OBVIOUS
<1>2. RemoveAt(s, n) = t
  BY DEF RemoveAt
<1> HIDE DEF N
<1>3. a \in Seq(T) /\ Len(a) = n - 1 /\ \A k \in 1 .. n - 1 : a[k] = s[1 + k - 1]
  <2>1. n - 1 \in Int /\ \A k \in 1 .. n - 1 : s[k] \in T
    BY <1>1
  <2>2. Len(a) = IF 1 <= n - 1 THEN n - 1 - 1 + 1 ELSE 0
    BY <2>1, SubSeqProperties
  <2>3. a \in Seq(T) /\ \A k \in 1 .. n - 1 - 1 + 1 : a[k] = s[1 + k - 1]
    BY <2>1, SubSeqProperties
  <2> HIDE DEF a
  <2> QED BY <1>1, <2>2, <2>3
<1>4. b \in Seq(T) /\ Len(b) = N - n /\ \A k \in 1 .. N - n : b[k] = s[n + 1 + k - 1]
  <2>1. n + 1 \in Int /\ N \in Int /\ \A k \in n + 1 .. N : s[k] \in T
    BY <1>1
  <2>2. Len(b) = IF n + 1 <= N THEN N - (n + 1) + 1 ELSE 0
    BY <2>1, SubSeqProperties
  <2>3. b \in Seq(T) /\ \A k \in 1 .. N - (n + 1) + 1 : b[k] = s[n + 1 + k - 1]
    BY <2>1, SubSeqProperties
  <2> HIDE DEF b
  <2> QED BY <1>1, <2>2, <2>3
<1> HIDE DEF a, b
<1>5. /\ t \in Seq(T) /\ Len(t) = Len(a) + Len(b)
      /\ \A k \in 1 .. Len(a) + Len(b) : t[k] = IF k <= Len(a) THEN a[k] ELSE b[k - Len(a)]
  BY <1>3, <1>4, ConcatProperties
<1> HIDE DEF t
<1>6. DOMAIN t = 1 .. N - 1
  BY <1>1, <1>3, <1>4, <1>5
<1>7. ASSUME NEW k \in 1 .. N - 1 PROVE t[k] = IF k < n THEN s[k] ELSE s[k + 1]
  <2>1. k \in 1 .. Len(a) + Len(b) /\ 1 + k - 1 = k
    BY <1>1, <1>3, <1>4
  <2>2. t[k] = IF k <= Len(a) THEN a[k] ELSE b[k - Len(a)]
    BY <1>5, <2>1
  <2>3. CASE k < n
    <3>1. k <= Len(a) /\ k \in 1 .. n - 1
      BY <1>1, <1>3, <2>3
    <3> QED BY <1>3, <2>1, <2>2, <2>3, <3>1
  <2>4. CASE ~ (k < n)
    <3>1. ~ (k <= Len(a)) /\ k - (n - 1) \in 1 .. N - n /\ k - Len(a) = k - (n - 1)
      BY <1>1, <1>3, <2>4
    <3>2. n + 1 + (k - (n - 1)) - 1 = k + 1
      BY <1>1
    <3> QED BY <1>4, <2>2, <2>4, <3>1, <3>2
  <2> QED BY <2>3, <2>4
<1>8. ASSUME NEW k \in 1 .. N - 1 PROVE \E m \in 1 .. N : m # n /\ t[k] = s[m]
  <2>1. k \in 1 .. N /\ k + 1 \in 1 .. N /\ k + 1 \in Int
    BY <1>1
  <2>2. CASE k < n
    BY <1>1, <1>7, <2>1, <2>2
  <2>3. CASE ~ (k < n)
    BY <1>1, <1>7, <2>1, <2>3
  <2> QED BY <2>2, <2>3
<1>9. ASSUME NEW m \in 1 .. N, m # n PROVE \E k \in 1 .. N - 1 : t[k] = s[m]
  <2>1. CASE m < n
    <3>1. m \in 1 .. N - 1
      BY <1>1, <2>1
    <3> QED BY <1>7, <2>1, <3>1
  <2>2. CASE ~ (m < n)
    <3>1. m - 1 \in 1 .. N - 1 /\ ~ (m - 1 < n) /\ (m - 1) + 1 = m
      BY <1>1, <1>9, <2>2
    <3> QED BY <1>7, <3>1
  <2> QED BY <2>1, <2>2
<1> QED BY <1>1, <1>2, <1>5, <1>6, <1>8, <1>9

(* A step puts nothing else in a queue.                                     *)
LEMMA NextQueues ==
  ASSUME QueueInv, WorkerInv, MainInv, dimmer_db \in [Lamps -> 0 .. 100], [Next]_vars
  PROVE  QueueInv'
<1> DEFINE R == Requests \cup {Triggered}
           C == Reports \cup {Done, Announced}
           E == [motion : Events]
           W == Command \cup {Empty}
<1>0. queue_read \in Seq(R) /\ clo_write \in Seq(C) /\ qy_read \in Seq(E) /\ qy_write \in Seq(W)
      /\ asleep \in Seq(Command)
  BY DEF QueueInv
<1>1. SUFFICES /\ queue_read' \in Seq(R) /\ clo_write' \in Seq(C)
               /\ qy_read' \in Seq(E) /\ qy_write' \in Seq(W) /\ asleep' \in Seq(Command)
  BY DEF QueueInv
<1>2. /\ Done \in C /\ Announced \in C /\ Triggered \in R
      /\ worker # "none" => frame \in R
      /\ \A m \in Events : [motion |-> m] \in E
  BY DEF WorkerInv
<1> HIDE DEF R, C, E, W
<1>3. CASE get_valid_cbus_data \/ UNCHANGED vars
  BY <1>0, <1>3 DEF get_valid_cbus_data, vars, queues
<1>4. CASE data_to_other_thread
  <2>1. CASE RecordBrightness \/ save_scene_para \/ CopyRows \/ RewriteRows
    BY <1>0, <2>1 DEF RecordBrightness, save_scene_para, CopyRows, RewriteRows, queues
  <2>2. CASE QueueFrame
    <3>1. /\ worker = "queue" /\ queue_read' = Append(queue_read, frame)
          /\ UNCHANGED <<clo_write, qy_read, qy_write, asleep>>
      BY <2>2 DEF QueueFrame
    <3> QED BY <1>0, <1>2, <3>1
  <2>3. CASE Reply
    <3>1. /\ clo_write' = Append(clo_write, Done)
          /\ UNCHANGED <<queue_read, qy_read, qy_write, asleep>>
      BY <2>3 DEF Reply, Done
    <3> QED BY <1>0, <1>2, <3>1
  <2> QED BY <1>4, <2>1, <2>2, <2>3 DEF data_to_other_thread
<1>5. CASE data_to_clo_thread
  <2>1. PICK m \in Events : qy_read' = Append(qy_read, [motion |-> m])
    BY <1>5 DEF data_to_clo_thread
  <2>2. UNCHANGED <<queue_read, clo_write, qy_write, asleep>>
    BY <1>5 DEF data_to_clo_thread
  <2> QED BY <1>0, <1>2, <2>1, <2>2
<1>6. CASE get_handle
  <2>1. CASE \/ NoFrame \/ NoEvent \/ match_dimmer_scene \/ ApplyLamp \/ ApplySensor \/ OffRow
             \/ MatchAgain
    BY <1>0, <2>1 DEF NoFrame, NoEvent, match_dimmer_scene, ApplyLamp, ApplySensor, OffRow,
                      MatchAgain, queues
  <2>2. CASE TakeFrame
    <3>1. /\ queue_read # <<>> /\ queue_read' = Tail(queue_read)
          /\ UNCHANGED <<clo_write, qy_read, qy_write, asleep>>
      BY <2>2 DEF TakeFrame
    <3> QED BY <1>0, <3>1
  <2>3. CASE TakeEvent
    <3>1. /\ qy_read # <<>> /\ qy_read' = Tail(qy_read) /\ UNCHANGED <<qy_write, asleep>>
          /\ queue_read' = queue_read \/ queue_read' = Append(queue_read, Triggered)
          /\ clo_write' = clo_write \/ clo_write' = Append(clo_write, Announced)
      BY <2>3 DEF TakeEvent, Triggered, Announced
    <3>2. qy_read' \in Seq(E) /\ qy_write' \in Seq(W) /\ asleep' \in Seq(Command)
      BY <1>0, <3>1
    <3>3. queue_read' \in Seq(R)
      <4>1. Append(queue_read, Triggered) \in Seq(R)
        BY <1>0, <1>2
      <4> QED BY <1>0, <3>1, <4>1
    <3>4. clo_write' \in Seq(C)
      <4>1. Append(clo_write, Announced) \in Seq(C)
        BY <1>0, <1>2
      <4> QED BY <1>0, <3>1, <4>1
    <3> QED BY <3>2, <3>3, <3>4
  <2>4. CASE SendRows
    <3> DEFINE q == [k \in 1 .. Len(para) |-> CommandOf(para[k])]
    <3>1. qy_write' = qy_write \o q /\ UNCHANGED <<queue_read, clo_write, qy_read, asleep>>
      BY <2>4 DEF SendRows
    <3>2. q \in Seq(W)
      <4>1. para \in Seq(Row) /\ Len(para) \in 0 .. Len(para)
        BY DEF MainInv
      <4> QED BY <4>1, CommandsType DEF W
    <3> HIDE DEF q
    <3> QED BY <1>0, <3>1, <3>2
  <2>5. CASE scene_control_feedback
    <3>1. /\ clo_write' = clo_write \o LampReports \o SensorReports
          /\ UNCHANGED <<queue_read, qy_read, qy_write, asleep>>
      BY <2>5 DEF scene_control_feedback
    <3>2. para \in Seq(Row)
      BY DEF MainInv
    <3>3. LampReports \in Seq(Reports) /\ SensorReports \in Seq(Reports)
      BY <3>2, ReportTypes
    <3>4. LampReports \in Seq(C) /\ SensorReports \in Seq(C)
      <4>1. Reports \subseteq C
        BY DEF C
      <4>2. \A t \in Seq(Reports) : t \in Seq(C)
        BY <4>1
      <4> QED BY <3>3, <4>2
    <3>5. \A a, b, c \in Seq(C) : a \o b \o c \in Seq(C)
      OBVIOUS
    <3>6. clo_write' \in Seq(C)
      BY <1>0, <3>1, <3>4, <3>5
    <3> QED BY <1>0, <3>1, <3>6
  <2> QED BY <1>6, <2>1, <2>2, <2>3, <2>4, <2>5 DEF get_handle
<1>7. CASE trans_serial_write
  <2> DEFINE row == Head(qy_write)
  <2>1. /\ qy_write # <<>> /\ qy_write' = Tail(qy_write)
        /\ asleep' = IF row.delay > 0 THEN Append(asleep, row) ELSE asleep
        /\ UNCHANGED <<queue_read, clo_write, qy_read>>
    BY <1>7 DEF trans_serial_write
  <2>2. row \in W /\ Tail(qy_write) \in Seq(W)
    BY <1>0, <2>1
  <2>3. row.delay > 0 => row \in Command
    BY <2>2 DEF W, Empty
  <2>4. asleep' \in Seq(Command)
    <3> HIDE DEF row
    <3>1. row \in Command => Append(asleep, row) \in Seq(Command)
      BY <1>0
    <3> QED BY <1>0, <2>1, <2>3, <3>1
  <2> QED BY <1>0, <2>1, <2>2, <2>4
<1>8. CASE general_serial_write
  <2>1. /\ clo_write # <<>> /\ clo_write' = Tail(clo_write)
        /\ UNCHANGED <<queue_read, qy_read, qy_write, asleep>>
    BY <1>8 DEF general_serial_write
  <2> QED BY <1>0, <2>1
<1>9. CASE Wake
  <2>1. PICK n \in DOMAIN asleep : delay_sec(n) \/ wait_seconds(n) \/ feed_back(n)
    BY <1>9 DEF Wake
  <2>2. UNCHANGED <<queue_read, qy_read>>
    BY <1>9 DEF Wake
  <2>3. /\ n \in 1 .. Len(asleep) /\ asleep[n] \in Command
        /\ RemoveAt(asleep, n) \in Seq(Command)
    <3>1. n \in 1 .. Len(asleep)
      BY <1>0
    <3> QED BY <1>0, <3>1, Removed
  <2> DEFINE a == asleep[n]
             c == [a EXCEPT !.delay = 0]
             z == [a EXCEPT !.level = 0, !.delay = 0]
             f == [what |-> "lamp", of |-> addr_trans_qy(Dial, a.circuit, a.application)]
             A == [asleep EXCEPT ![n] = c]
  <2>4. /\ c \in Command /\ z \in Command /\ c \in W /\ z \in W
    <3>1. c \in Command /\ z \in Command
      BY <2>3, CommandChanged
    <3> QED BY <3>1 DEF W
  <2>5. f \in C
    BY <2>3 DEF C, Reports
  <2>6. A \in Seq(Command)
    <3> HIDE DEF c
    <3> QED BY <1>0, <2>3, <2>4
  <2>7. CASE delay_sec(n)
    <3>1. /\ qy_write' = Append(qy_write, c) /\ asleep' = RemoveAt(asleep, n)
          /\ UNCHANGED clo_write
      BY <2>7 DEF delay_sec
    <3> HIDE DEF c
    <3> QED BY <1>0, <2>2, <2>3, <2>4, <3>1
  <2>8. CASE wait_seconds(n)
    <3>1. /\ qy_write' = Append(qy_write, z) /\ asleep' = A /\ UNCHANGED clo_write
      BY <2>8 DEF wait_seconds
    <3> HIDE DEF z, A
    <3> QED BY <1>0, <2>2, <2>4, <2>6, <3>1
  <2>9. CASE feed_back(n)
    <3>1. /\ clo_write' = Append(clo_write, f) /\ asleep' = RemoveAt(asleep, n)
          /\ UNCHANGED qy_write
      BY <2>9 DEF feed_back
    <3> HIDE DEF f
    <3> QED BY <1>0, <2>2, <2>3, <2>5, <3>1
  <2> QED BY <2>1, <2>7, <2>8, <2>9
<1> QED BY <1>3, <1>4, <1>5, <1>6, <1>7, <1>8, <1>9 DEF Next

(* The databases, the lamps and what the gateway believes.                  *)
DataTypes ==
  /\ photometric \in [Lamps -> (1 .. 100) \cup {NoEntry}]
  /\ dimmer_db \in [Lamps -> 0 .. 100]
  /\ state \in [Sensors -> 0 .. 255]
  /\ lamp \in [Lamps -> 0 .. 255] /\ shown \in [Lamps -> 0 .. 100]
  /\ \A lamps \in {unsettled, untold, ended} : lamps \subseteq Lamps

(* A step keeps the values of lamps and sensors in their ranges.            *)
LEMMA NextData ==
  ASSUME QueueInv, WorkerInv, MainInv, DataTypes, [Next]_vars
  PROVE  DataTypes'
<1>1. CASE get_valid_cbus_data \/ data_to_clo_thread \/ Wake \/ UNCHANGED vars
  <2>1. UNCHANGED <<photometric, dimmer_db, state, lamp, shown, unsettled, untold, ended>>
    BY <1>1 DEF get_valid_cbus_data, data_to_clo_thread, Wake, vars, dbs, lamp_db, outside, belief
  <2> QED BY <2>1 DEF DataTypes
<1>2. CASE data_to_other_thread
  <2>1. UNCHANGED <<dimmer_db, state, lamp, shown, unsettled, untold, ended>>
    BY <1>2 DEF data_to_other_thread, RecordBrightness, save_scene_para, CopyRows, RewriteRows,
                QueueFrame, Reply, dbs, lamp_db, outside, belief
  <2>2. photometric' \in [Lamps -> (1 .. 100) \cup {NoEntry}]
    <3>1. CASE RecordBrightness
      <4>1. /\ worker = "configure"
            /\ photometric' = IF IsDimmer(frame.device.dev) /\ frame.value # 0
                              THEN [photometric EXCEPT ![frame.device] = frame.value]
                              ELSE photometric
        BY <3>1 DEF RecordBrightness
      <4>2. frame \in Requests
        BY <4>1 DEF WorkerInv
      <4>3. frame.value \in 0 .. 100
        BY <4>2, RequestTypes
      <4>4. frame.value # 0 => frame.value \in (1 .. 100) \cup {NoEntry}
        BY <4>3
      <4> QED BY <4>1, <4>4 DEF DataTypes
    <3>2. CASE save_scene_para \/ CopyRows \/ RewriteRows \/ QueueFrame \/ Reply
      <4>1. UNCHANGED photometric
        BY <3>2 DEF save_scene_para, CopyRows, RewriteRows, QueueFrame, Reply, dbs, lamp_db
      <4> QED BY <4>1 DEF DataTypes
    <3> QED BY <1>2, <3>1, <3>2 DEF data_to_other_thread
  <2> QED BY <2>1, <2>2 DEF DataTypes
<1>3. CASE get_handle
  <2>0. para \in Seq(Row) /\ i \in Nat /\ Values \subseteq 0 .. 100
    <3>1. Values \subseteq 0 .. 100
      BY ConstantTypes
    <3> QED BY <3>1 DEF MainInv
  <2>1. CASE \/ TakeFrame \/ NoFrame \/ TakeEvent \/ NoEvent \/ match_dimmer_scene
             \/ SendRows \/ scene_control_feedback
    <3>1. UNCHANGED <<photometric, dimmer_db, state, lamp, shown, unsettled, untold, ended>>
      BY <2>1 DEF TakeFrame, NoFrame, TakeEvent, NoEvent, match_dimmer_scene,
                  SendRows, scene_control_feedback, dbs, lamp_db, outside, belief
    <3> QED BY <3>1 DEF DataTypes
  <2>2. CASE ApplyLamp
    <3>1. /\ main = "apply" /\ i <= Len(para)
          /\ dimmer_db' = [dimmer_db EXCEPT ![para[i].device] = para[i].value]
          /\ unsettled' \subseteq unsettled \cup Lamps
          /\ UNCHANGED <<photometric, state, lamp, shown, untold, ended>>
      BY <2>2 DEF ApplyLamp, Settle, outside, belief
    <3>2. i \in 1 .. Len(para)
      BY <2>0, <3>1 DEF MainInv
    <3>3. para[i] \in Row
      BY <2>0, <3>2
    <3>4. para[i].value \in 0 .. 100
      BY <2>0, <3>3 DEF Row
    <3>5. dimmer_db' \in [Lamps -> 0 .. 100]
      <4> DEFINE v == para[i].value
      <4>1. v \in 0 .. 100
        BY <3>4
      <4>2. dimmer_db' = [dimmer_db EXCEPT ![para[i].device] = v]
        BY <3>1
      <4> HIDE DEF v
      <4> QED BY <4>1, <4>2 DEF DataTypes
    <3>6. unsettled' \subseteq Lamps
      BY <3>1 DEF DataTypes
    <3>7. UNCHANGED <<photometric, state, lamp, shown, untold, ended>>
      BY <3>1
    <3> QED BY <3>5, <3>6, <3>7 DEF DataTypes
  <2>3. CASE ApplySensor
    <3>1. /\ pir_state' = IF para[i].value = 1 THEN 0 ELSE pir_state
          /\ UNCHANGED <<photometric, dimmer_db, lamp, shown, unsettled, untold, ended>>
      BY <2>3 DEF ApplySensor, lamp_db, outside, belief
    <3>2. pir_state' \in 0 .. 255
      BY <3>1 DEF MainInv
    <3>3. PICK v \in {pir_state', 0, 1} : state' = [state EXCEPT ![para[i].device] = v]
      BY <2>3 DEF ApplySensor
    <3>4. v \in 0 .. 255
      BY <3>2, <3>3
    <3>5. state' \in [Sensors -> 0 .. 255]
      <4> DEFINE p == para[i].device
      <4>1. state' = [state EXCEPT ![p] = v]
        BY <3>3
      <4> HIDE DEF p
      <4> QED BY <3>4, <4>1 DEF DataTypes
    <3> QED BY <3>1, <3>5 DEF DataTypes
  <2>4. CASE OffRow
    <3>1. /\ dimmer_db' = [l \in Lamps |-> IF l = para[i].device THEN 0 ELSE dimmer_db[l]]
          /\ unsettled' \subseteq unsettled \cup Lamps
          /\ UNCHANGED <<photometric, state, lamp, shown, untold, ended>>
      BY <2>4 DEF OffRow, Settle, outside, belief
    <3> QED BY <3>1 DEF DataTypes
  <2>5. CASE MatchAgain
    <3>1. /\ untold' \subseteq Lamps
          /\ UNCHANGED <<photometric, dimmer_db, state, lamp, shown, unsettled, ended>>
      BY <2>5 DEF MatchAgain, dbs, lamp_db
    <3> QED BY <3>1 DEF DataTypes
  <2> QED BY <1>3, <2>1, <2>2, <2>3, <2>4, <2>5 DEF get_handle
<1>4. CASE trans_serial_write
  <2> DEFINE row == Head(qy_write)
  <2>1. /\ qy_write # <<>>
        /\ lamp' = [l \in Lamps |->
             IF Reaches(row, l) /\ row.delay \notin 1 .. 127 THEN row.level ELSE lamp[l]]
        /\ UNCHANGED <<photometric, dimmer_db, state, shown, unsettled, untold, ended>>
    BY <1>4 DEF trans_serial_write, dbs, lamp_db, belief
  <2>2. row \in Command \cup {Empty}
    BY <2>1 DEF QueueInv
  <2> HIDE DEF row
  <2>3. \A l : Reaches(row, l) => row.level \in 0 .. 255
    BY <2>2 DEF Command, Empty, Reaches
  <2>4. lamp' \in [Lamps -> 0 .. 255]
    <3>1. \A l \in Lamps : lamp[l] \in 0 .. 255
      BY DEF DataTypes
    <3> QED BY <2>1, <2>3, <3>1
  <2> QED BY <2>1, <2>4 DEF DataTypes
<1>5. CASE general_serial_write
  <2> DEFINE report == Head(clo_write)
             Module(l) == report.what = "module" /\ l.dev = report.dev
             Ended(l)  == report.what = "lamp" /\ l = report.of
  <2>1. /\ clo_write # <<>>
        /\ shown' = [l \in Lamps |-> IF Module(l) THEN report.values[l]
                                     ELSE IF Ended(l) THEN 0 ELSE shown[l]]
        /\ ended' \subseteq Lamps
        /\ UNCHANGED <<photometric, dimmer_db, state, lamp, unsettled, untold>>
    BY <1>5 DEF general_serial_write, dbs, lamp_db
  <2>2. report \in Reports \cup {Done, Announced}
    BY <2>1 DEF QueueInv
  <2> HIDE DEF report
  <2>3. report.what = "module" => report.values \in [Lamps -> 0 .. 100]
    BY <2>2 DEF Reports, Done, Announced
  <2>4. shown' \in [Lamps -> 0 .. 100]
    <3>1. \A l \in Lamps : Module(l) => report.values[l] \in 0 .. 100
      BY <2>3
    <3>2. \A l \in Lamps : shown[l] \in 0 .. 100
      BY DEF DataTypes
    <3> HIDE DEF Module, Ended
    <3> QED BY <2>1, <3>1, <3>2
  <2> QED BY <2>1, <2>4 DEF DataTypes
<1> QED BY <1>1, <1>2, <1>3, <1>4, <1>5 DEF Next

(* The type invariant, by the parts that the lemmas above speak of.         *)
LEMMA TypesAre ==
  ASSUME WorkerInv, MainInv
  PROVE  TypeOK <=> /\ worker \in Places /\ main \in Steps
                    /\ truncated <=> worker = "rewrite"
                    /\ DataTypes
<1>1. \A text \in Seq(Row) : Range(text) \subseteq Row
  BY DEF Range
<1>2. \A text \in {scene_txt, kept, para} : Range(text) \subseteq Row
  BY <1>1 DEF WorkerInv, MainInv
<1> QED BY <1>2 DEF TypeOK, Places, Steps, DataTypes

(* The inductive invariant holds.                                           *)
THEOREM Inductive == Spec => []IInv
<1>1. Init => IInv
  <2> SUFFICES ASSUME Init PROVE IInv
    OBVIOUS
  <2>1. <<>> \in Seq(Row) /\ Stored \in Seq(Row)
    <3>1. Stored \in Seq(Row)
      BY ConstantTypes
    <3> QED BY <3>1
  <2>2. WorkerInv
    BY <2>1 DEF Init, WorkerInv
  <2>3. MainInv
    BY <2>1 DEF Init, MainInv
  <2>4. StoredInv /\ MaskInv
    BY DEF Init, StoredInv, MaskInv, SceneMasks
  <2>5. QueueInv
    BY DEF Init, QueueInv
  <2>6. DataTypes
    <3>1. StoredLevel \in [Lamps -> 0 .. 100]
      BY ConstantTypes
    <3>2. \A l \in Lamps : clo_qy_trans(StoredLevel[l]) \in 0 .. 255
      <4>1. \A l \in Lamps : StoredLevel[l] \in 0 .. 100
        BY <3>1
      <4> QED BY <4>1, LevelType
    <3>5. photometric \in [Lamps -> (1 .. 100) \cup {NoEntry}]
      <4>1. NoEntry \in (1 .. 100) \cup {NoEntry}
        OBVIOUS
      <4> QED BY <4>1, Zenon DEF Init
    <3>6. state \in [Sensors -> 0 .. 255]
      BY DEF Init
    <3>3. /\ photometric \in [Lamps -> (1 .. 100) \cup {NoEntry}]
          /\ dimmer_db \in [Lamps -> 0 .. 100] /\ shown \in [Lamps -> 0 .. 100]
          /\ state \in [Sensors -> 0 .. 255]
      BY <3>1, <3>5, <3>6 DEF Init
    <3>4. lamp \in [Lamps -> 0 .. 255]
      BY <3>2 DEF Init
    <3> QED BY <3>3, <3>4 DEF DataTypes, Init
  <2>7. worker \in Places /\ main \in Steps /\ (truncated <=> worker = "rewrite")
    BY DEF Init, Places, Steps
  <2>8. TypeOK
    BY <2>2, <2>3, <2>6, <2>7, TypesAre
  <2> QED BY <2>2, <2>3, <2>4, <2>5, <2>8 DEF IInv
<1>2. IInv /\ [Next]_vars => IInv'
  <2> SUFFICES ASSUME IInv, [Next]_vars PROVE IInv'
    OBVIOUS
  <2>1. QueueInv /\ WorkerInv /\ MainInv /\ StoredInv /\ MaskInv /\ TypeOK
    BY DEF IInv
  <2>2. /\ worker \in Places /\ main \in Steps
        /\ truncated <=> worker = "rewrite"
        /\ DataTypes
    BY <2>1, TypesAre
  <2>3. scene_txt \in Seq(Row)
    BY <2>1 DEF WorkerInv
  <2>4. /\ dimmer_db \in [Lamps -> 0 .. 100]
        /\ state \in [Sensors -> 0 .. 255]
    BY <2>2 DEF DataTypes
  <2>5. /\ WorkerInv' /\ StoredInv'
        /\ worker' \in Places /\ (truncated' <=> worker' = "rewrite")
    BY <2>1, <2>2, NextWorker
  <2>6. MainInv' /\ MaskInv' /\ main' \in Steps
    BY <2>1, <2>2, <2>3, <2>4, NextMain
  <2>7. QueueInv'
    BY <2>1, <2>4, NextQueues
  <2>8. DataTypes'
    BY <2>1, <2>2, NextData
  <2>9. TypeOK'
    <3>1. ASSUME WorkerInv', MainInv'
          PROVE  TypeOK' <=> /\ worker' \in Places /\ main' \in Steps
                             /\ truncated' <=> worker' = "rewrite"
                             /\ DataTypes'
      <4>1. \A text \in Seq(Row) : Range(text) \subseteq Row
        BY DEF Range
      <4>2. \A text \in {scene_txt', kept', para'} : Range(text) \subseteq Row
        BY <3>1, <4>1 DEF WorkerInv, MainInv
      <4> QED BY <4>2 DEF TypeOK, Places, Steps, DataTypes
    <3> QED BY <2>5, <2>6, <2>8, <3>1
  <2> QED BY <2>5, <2>6, <2>7, <2>9 DEF IInv
<1> QED BY <1>1, <1>2, PTL DEF Spec

(* The type invariant: rows are rows, brightness is at most 100 and levels  *)
(* are bytes, whatever scenes are stored, and scene.txt is empty only       *)
(* between the two halves of a deletion.                                    *)
THEOREM TypeCorrect == Spec => []TypeOK
<1>1. IInv => TypeOK
  BY DEF IInv
<1> QED BY <1>1, Inductive, PTL

(* When the gateway is about to be told that a configuration or deletion    *)
(* succeeded, the file has just what it asked for: the last row decides, so *)
(* that a value stored again and again is the newest, and a deletion takes  *)
(* every row of its entry.                                                  *)
THEOREM AcknowledgedStored == Spec => []AcknowledgedIsStored
<1>1. IInv => AcknowledgedIsStored
  <2> SUFFICES ASSUME IInv, worker = "reply"
               PROVE  LastOf(Visible, frame.scene, frame.device)
                        = IF frame.cmd = "configure" THEN frame.value ELSE NoEntry
    BY DEF AcknowledgedIsStored
  <2>1. frame \in Requests /\ frame.cmd # "control"
    BY DEF IInv, WorkerInv
  <2>2. frame.cmd \in {"configure", "delete"}
    BY <2>1, RequestTypes
  <2>3. Visible = scene_txt
    BY DEF IInv, TypeOK, Visible
  <2> QED BY <2>2, <2>3 DEF IInv, StoredInv
<1> QED BY <1>1, Inductive, PTL

(* A scene masks every sensor whose last row in it says so.                 *)
THEOREM ScenesMask == Spec => []SceneMasks
<1>1. IInv => SceneMasks
  BY DEF IInv, MaskInv
<1> QED BY <1>1, Inductive, PTL

--------------------------------------------------------------------------------
(* The database and the lamps.                                              *)

(* The circuit of a lamp, module m and pair k of the module.                *)
LEMMA CircuitOf ==
  ASSUME NEW d \in 0 .. 255, NEW m \in 0 .. 62, NEW k \in 0 .. 3,
         NEW sub \in {49 + 2 * k, 50 + 2 * k}
  PROVE  addr_trans(d, d + m, sub) = 4 * m + k + 1
<1>1. CASE sub = 49 + 2 * k
  BY <1>1, SMT DEF addr_trans, IsColorTemp, Half, DIMMER, SUB_ADDR_MIN, UCHAR
<1>2. CASE sub = 50 + 2 * k
  BY <1>2, SMT DEF addr_trans, IsColorTemp, Half, DIMMER, SUB_ADDR_MIN, UCHAR
<1> QED BY <1>1, <1>2

(* And the lamp of a circuit.                                               *)
LEMMA LampOf ==
  ASSUME NEW d \in 0 .. 240, NEW m \in 0 .. 62, NEW k \in 0 .. 3, d + m <= 255,
         NEW application
  PROVE  addr_trans_qy(d, 4 * m + k + 1, application)
           = [dev |-> d + m, sub |-> IF application = 59 THEN 50 + 2 * k ELSE 49 + 2 * k]
<1> DEFINE c == 4 * m + k + 1
<1>1. c # 0 /\ (c - 1) \div 4 = m /\ (c - m * 4 - 1) * 2 + 49 = 49 + 2 * k
  BY SMT
<1> HIDE DEF c
<1>2. addr_trans_qy(d, c, application)
        = [dev |-> UCHAR(m + d),
           sub |-> UCHAR(IF application = 59 THEN 49 + 2 * k + 1 ELSE 49 + 2 * k)]
  BY <1>1, Zenon DEF addr_trans_qy, DIMMER, SUB_ADDR_MIN
<1>3. /\ UCHAR(m + d) = d + m
      /\ UCHAR(49 + 2 * k) = 49 + 2 * k
      /\ UCHAR(49 + 2 * k + 1) = 50 + 2 * k
  BY SMT DEF UCHAR
<1>4. addr_trans_qy(d, c, application)
        = [dev |-> d + m, sub |-> IF application = 59 THEN 50 + 2 * k ELSE 49 + 2 * k]
  BY <1>2, <1>3
<1> QED BY <1>4 DEF c

(* A command for a lamp reaches that lamp.                                  *)
LEMMA LampReached ==
  ASSUME NEW l \in Lamps
  PROVE  addr_trans_qy(Dial, addr_trans(Dial, l.dev, l.sub), app(l.sub)) = l
<1> DEFINE dev == l.dev
           sub == l.sub
<1>1. dev \in Dial .. Dial + DIMMER_CNT - 1 /\ dev \in 0 .. 255
  BY DeviceKinds
<1>2. sub \in 49 .. 56
  BY DeviceKinds DEF LampSubs, SUB_ADDR_MIN
<1>3. l = [dev |-> dev, sub |-> sub]
  BY DeviceKinds
<1>4. Dial \in 0 .. 240 /\ DIMMER_CNT \in 0 .. 63
  BY ConstantTypes
<1> HIDE DEF dev, sub
<1>5. PICK m \in 0 .. 62 : dev = Dial + m
  <2>1. dev - Dial \in 0 .. 62 /\ dev = Dial + (dev - Dial)
    BY <1>1, <1>4
  <2> QED BY <2>1
<1>6. PICK k \in 0 .. 3 : sub \in {49 + 2 * k, 50 + 2 * k}
  <2>1. 0 \in 0 .. 3 /\ 1 \in 0 .. 3 /\ 2 \in 0 .. 3 /\ 3 \in 0 .. 3
    OBVIOUS
  <2>2. \/ sub \in {49 + 2 * 0, 50 + 2 * 0} \/ sub \in {49 + 2 * 1, 50 + 2 * 1}
        \/ sub \in {49 + 2 * 2, 50 + 2 * 2} \/ sub \in {49 + 2 * 3, 50 + 2 * 3}
    BY <1>2
  <2> QED BY <2>1, <2>2
<1>7. Dial + m <= 255 /\ Dial \in 0 .. 255
  BY <1>1, <1>4, <1>5
<1>8. addr_trans(Dial, dev, sub) = 4 * m + k + 1
  BY <1>5, <1>6, <1>7, CircuitOf
<1>9. addr_trans_qy(Dial, 4 * m + k + 1, app(sub))
        = [dev |-> Dial + m, sub |-> IF app(sub) = 59 THEN 50 + 2 * k ELSE 49 + 2 * k]
  BY <1>4, <1>7, LampOf, ZenonT(60)
<1>10. sub = IF app(sub) = 59 THEN 50 + 2 * k ELSE 49 + 2 * k
  BY <1>6 DEF app, IsColorTemp
<1> QED BY <1>3, <1>5, <1>8, <1>9, <1>10 DEF dev, sub

(* The command of a row is for its lamp, with its delay; a sensor's, in a   *)
(* scene that is applied, is for none.  One that switches off is for the    *)
(* lamp that the device's address leads to, and not delayed.                *)
LEMMA CommandHeard ==
  ASSUME NEW row \in Row, NEW l \in Lamps
  PROVE  /\ row.device \in Lamps =>
              /\ Reaches(CommandOf(row), l) <=> row.device = l
              /\ CommandOf(row).level = IF job.off THEN 0 ELSE clo_qy_trans(row.value)
              /\ CommandOf(row).delay = IF job.off THEN 0 ELSE row.delay
         /\ row.device \notin Lamps /\ ~ job.off =>
              ~ Reaches(CommandOf(row), l) /\ CommandOf(row).delay = 0
         /\ job.off =>
              /\ Reaches(CommandOf(row), l) <=> Addressed(row.device) = l
              /\ CommandOf(row).level = 0 /\ CommandOf(row).delay = 0
         /\ row.device \in Lamps => Addressed(row.device) = row.device
<1> DEFINE c == [what        |-> "dim",
                 circuit     |-> addr_trans(Dial, row.device.dev, row.device.sub),
                 application |-> app(row.device.sub),
                 level       |-> IF job.off THEN 0 ELSE clo_qy_trans(row.value),
                 delay       |-> IF job.off THEN 0 ELSE row.delay]
<1>1. row.device \in Devices
  BY DEF Row
<1>2. Reaches(c, l) <=> Addressed(row.device) = l
  BY DEF Reaches, Addressed
<1>3. /\ c.level = IF job.off THEN 0 ELSE clo_qy_trans(row.value)
      /\ c.delay = IF job.off THEN 0 ELSE row.delay
  OBVIOUS
<1>4. row.device \in Lamps => IsDimmer(row.device.dev) /\ Addressed(row.device) = row.device
  BY DeviceKinds, LampReached DEF Addressed
<1>5. job.off \/ IsDimmer(row.device.dev) => CommandOf(row) = c
  BY DEF CommandOf
<1> HIDE DEF c
<1>6. ASSUME row.device \notin Lamps, ~ job.off
      PROVE  ~ Reaches(CommandOf(row), l) /\ CommandOf(row).delay = 0
  <2>1. ~ IsDimmer(row.device.dev)
    BY <1>1, <1>6, DeviceKinds
  <2>2. CommandOf(row) = Empty
    BY <1>6, <2>1 DEF CommandOf, Empty
  <2> QED BY <2>2 DEF Reaches, Empty
<1> QED BY <1>2, <1>3, <1>4, <1>5, <1>6

(* The commands of the rows handled so far: with another one.               *)
LEMMA OneCommandMore ==
  ASSUME para \in Seq(Row), i \in 1 .. Len(para)
  PROVE  /\ [k \in 1 .. i - 1 |-> CommandOf(para[k])] \in Seq(Command \cup {Empty})
         /\ CommandOf(para[i]) \in Command \cup {Empty}
         /\ [k \in 1 .. (i + 1) - 1 |-> CommandOf(para[k])]
              = Append([k \in 1 .. i - 1 |-> CommandOf(para[k])], CommandOf(para[i]))
<1> DEFINE T == Command \cup {Empty}
           C(n) == [k \in 1 .. n |-> CommandOf(para[k])]
<1>1. Len(para) \in Nat /\ i \in Nat /\ (i + 1) - 1 = i /\ i - 1 \in 0 .. Len(para)
      /\ (i - 1) + 1 = i /\ i \in 0 .. Len(para) /\ para[i] \in Row
  OBVIOUS
<1>2. C(i - 1) \in Seq(T) /\ C(i) \in Seq(T) /\ CommandOf(para[i]) \in T
  BY <1>1, CommandsType, CommandType
<1>3. C(i) = Append(C(i - 1), CommandOf(para[i]))
  <2>1. /\ Len(C(i)) = i /\ Len(C(i - 1)) = i - 1
        /\ \A k \in 1 .. i : C(i)[k] = CommandOf(para[k])
        /\ \A k \in 1 .. i - 1 : C(i - 1)[k] = CommandOf(para[k])
    BY <1>1
  <2> DEFINE a == C(i)
             b == C(i - 1)
             c == CommandOf(para[i])
  <2>2. /\ Len(a) = i /\ Len(b) = i - 1 /\ a[i] = c
        /\ \A k \in 1 .. i - 1 : a[k] = b[k]
        /\ a \in Seq(T) /\ b \in Seq(T) /\ c \in T
    BY <1>1, <1>2, <2>1
  <2> HIDE DEF a, b, c, T, C
  <2>3. a = Append(b, c)
    BY <1>1, <2>2
  <2> QED BY <2>3 DEF a, b, c
<1> QED BY <1>1, <1>2, <1>3 DEF C, T

(* A command more, for another lamp or for this one.                        *)
LEMMA CommandAdded ==
  ASSUME NEW T, NEW q \in Seq(T), NEW c \in T, NEW l, NEW x
  PROVE  LET new == Append(q, c)
         IN  /\ Reaches(c, l) => ~ Idle(new, l) /\ (Ends(new, l, x) <=> c.level = x)
             /\ ~ Reaches(c, l) => /\ Idle(new, l) <=> Idle(q, l)
                                   /\ Ends(new, l, x) <=> Ends(q, l, x)
             /\ Prompt(q, l, x) /\ (Reaches(c, l) /\ c.delay > 0
                                    => c.delay <= 127 /\ c.level = x) => Prompt(new, l, x)
             /\ Waits(new, l) <=> Waits(q, l) \/ (Reaches(c, l) /\ c.delay > 0)
<1> DEFINE new == Append(q, c)
<1>1. /\ DOMAIN q = 1 .. Len(q) /\ Len(q) \in Nat
      /\ DOMAIN new = 1 .. Len(q) + 1
      /\ \A k \in 1 .. Len(q) : new[k] = q[k]
      /\ new[Len(q) + 1] = c
  OBVIOUS
<1> HIDE DEF new
<1>2. /\ \A k \in DOMAIN new : k \in DOMAIN q \/ k = Len(q) + 1
      /\ \A k \in DOMAIN q : k \in DOMAIN new /\ new[k] = q[k] /\ Len(q) + 1 > k
      /\ Len(q) + 1 \in DOMAIN new /\ \A k \in DOMAIN new : ~ k > Len(q) + 1
  BY <1>1
<1>3. ASSUME Reaches(c, l) PROVE ~ Idle(new, l) /\ (Ends(new, l, x) <=> c.level = x)
  BY <1>1, <1>2, <1>3 DEF Idle, Ends
<1>4. ASSUME ~ Reaches(c, l)
      PROVE  (Idle(new, l) <=> Idle(q, l)) /\ (Ends(new, l, x) <=> Ends(q, l, x))
  <2>1. Idle(new, l) <=> Idle(q, l)
    BY <1>1, <1>2, <1>4 DEF Idle
  <2>2. \A k \in DOMAIN q : (\A n \in DOMAIN new : n > k => ~ Reaches(new[n], l))
                              <=> (\A n \in DOMAIN q : n > k => ~ Reaches(q[n], l))
    BY <1>1, <1>2, <1>4
  <2>3. Ends(new, l, x) <=> Ends(q, l, x)
    BY <1>1, <1>2, <1>4, <2>2 DEF Ends
  <2> QED BY <2>1, <2>3
<1>5. ASSUME Prompt(q, l, x), Reaches(c, l) /\ c.delay > 0 => c.delay <= 127 /\ c.level = x
      PROVE  Prompt(new, l, x)
  BY <1>1, <1>2, <1>5 DEF Prompt
<1>6. Waits(new, l) <=> Waits(q, l) \/ (Reaches(c, l) /\ c.delay > 0)
  BY <1>1, <1>2 DEF Waits
<1> QED BY <1>3, <1>4, <1>5, <1>6 DEF new

(* Sending the first command of the queue changes nothing about the end.     *)
LEMMA SettlesTail ==
  ASSUME NEW T, NEW q \in Seq(T), q # <<>>, NEW at, NEW l, NEW x, Settles(q, at, l, x)
  PROVE  /\ Settles(Tail(q), IF Reaches(Head(q), l) THEN Head(q).level ELSE at, l, x)
         /\ Reaches(Head(q), l) /\ ~ Settles(Tail(q), at, l, x) =>
              Idle(Tail(q), l) /\ Head(q).level = x
<1> DEFINE rest == Tail(q)
<1>1. /\ DOMAIN q = 1 .. Len(q) /\ Len(q) \in Nat \ {0}
      /\ DOMAIN rest = 1 .. Len(q) - 1
      /\ \A k \in DOMAIN rest : k + 1 \in DOMAIN q /\ rest[k] = q[k + 1]
      /\ Head(q) = q[1]
  OBVIOUS
<1> HIDE DEF rest
<1>2. \A n \in DOMAIN q : n > 1 => n - 1 \in DOMAIN rest /\ rest[n - 1] = q[n]
  <2> SUFFICES ASSUME NEW n \in DOMAIN q, n > 1
               PROVE  n - 1 \in DOMAIN rest /\ rest[n - 1] = q[n]
    OBVIOUS
  <2>1. n - 1 \in DOMAIN rest /\ (n - 1) + 1 = n
    BY <1>1
  <2> QED BY <1>1, <2>1
<1>3. ASSUME NEW k \in DOMAIN rest, Reaches(rest[k], l),
             \A n \in DOMAIN rest : n > k => ~ Reaches(rest[n], l)
      PROVE  rest[k].level = x
  <2>1. k + 1 \in DOMAIN q /\ rest[k] = q[k + 1] /\ Reaches(q[k + 1], l)
    BY <1>1, <1>3
  <2>2. ASSUME NEW n \in DOMAIN q, n > k + 1 PROVE ~ Reaches(q[n], l)
    <3>1. n > 1 /\ n - 1 > k
      BY <1>1, <2>2
    <3> QED BY <1>2, <1>3, <3>1
  <2> QED BY <2>1, <2>2 DEF Settles, Ends
<1>4. ASSUME Idle(rest, l)
      PROVE  (IF Reaches(Head(q), l) THEN Head(q).level ELSE at) = x
  <2>1. \A n \in DOMAIN q : n > 1 => ~ Reaches(q[n], l)
    BY <1>2, <1>4 DEF Idle
  <2>2. 1 \in DOMAIN q
    BY <1>1
  <2>3. CASE Reaches(q[1], l)
    BY <1>1, <2>1, <2>2, <2>3 DEF Settles, Ends
  <2>4. CASE ~ Reaches(q[1], l)
    <3>1. \A n \in DOMAIN q : ~ Reaches(q[n], l)
      BY <1>1, <2>1, <2>4
    <3> QED BY <1>1, <2>4, <3>1 DEF Settles, Idle
  <2> QED BY <2>3, <2>4
<1>5. Ends(rest, l, x)
  BY <1>3 DEF Ends
<1>6. Settles(rest, IF Reaches(Head(q), l) THEN Head(q).level ELSE at, l, x)
  BY <1>4, <1>5 DEF Settles
<1>7. Reaches(Head(q), l) /\ ~ Settles(rest, at, l, x) => Idle(rest, l) /\ Head(q).level = x
  BY <1>4, <1>5 DEF Settles
<1> QED BY <1>6, <1>7 DEF rest

(* The commands of the rows, once all are on their way, come last.          *)
LEMMA RowsOnTheirWay ==
  ASSUME NEW T, NEW h \in Seq(T), NEW q \in Seq(T), NEW a, NEW at, NEW l, NEW x,
         Agrees(h, q, a, at, l, x)
  PROVE  Agrees(<<>>, q \o h, a, at, l, x)
<1> DEFINE new == q \o h
           N == Len(q)
<1> SUFFICES Agrees(<<>>, new, a, at, l, x)
  OBVIOUS
<1>1. /\ N \in Nat /\ DOMAIN q = 1 .. N /\ Len(h) \in Nat /\ DOMAIN h = 1 .. Len(h)
      /\ DOMAIN new = 1 .. N + Len(h)
      /\ \A k \in 1 .. N : new[k] = q[k]
      /\ \A k \in 1 .. Len(h) : new[N + k] = h[k]
  OBVIOUS
<1> HIDE DEF new, N
<1>2. \A k \in 1 .. Len(h) : N + k \in DOMAIN new /\ N + k > N
  BY <1>1
<1>3. \A k \in DOMAIN new : k \in 1 .. N \/ (k - N \in 1 .. Len(h) /\ N + (k - N) = k)
  BY <1>1
<1>4. \A k \in DOMAIN new :
        (\E m \in DOMAIN q : new[k] = q[m]) \/ (\E m \in DOMAIN h : new[k] = h[m])
  BY <1>1, <1>3
<1>5. Prompt(new, l, x) /\ Prompt(a, l, x)
  BY <1>4 DEF Agrees, Prompt
<1>6. /\ Prompt(<<>>, l, x) /\ Ends(<<>>, l, x) /\ Idle(<<>>, l)
  BY DEF Prompt, Ends, Idle
<1>7. CASE Waits(a, l)
  BY <1>5, <1>6, <1>7 DEF Agrees
<1>8. CASE ~ Waits(a, l)
  <2>1. Idle(h, l) => Settles(q, at, l, x)
    BY <1>8 DEF Agrees
  <2>2. ASSUME NEW k \in DOMAIN new, Reaches(new[k], l),
               \A n \in DOMAIN new : n > k => ~ Reaches(new[n], l)
        PROVE  new[k].level = x
    <3>1. CASE k \in 1 .. N
      <4>1. \A m \in 1 .. Len(h) : ~ Reaches(h[m], l)
        <5> SUFFICES ASSUME NEW m \in 1 .. Len(h) PROVE ~ Reaches(h[m], l)
          OBVIOUS
        <5>1. N + m \in DOMAIN new /\ N + m > k /\ new[N + m] = h[m]
          BY <1>1, <1>2, <3>1
        <5> QED BY <2>2, <5>1
      <4>2. Idle(h, l)
        BY <1>1, <4>1 DEF Idle
      <4>3. \A n \in DOMAIN q : n > k => ~ Reaches(q[n], l)
        BY <1>1, <2>2
      <4>4. new[k] = q[k] /\ k \in DOMAIN q
        BY <1>1, <3>1
      <4> QED BY <2>1, <2>2, <4>2, <4>3, <4>4 DEF Settles, Ends
    <3>2. CASE k - N \in 1 .. Len(h) /\ N + (k - N) = k
      <4> DEFINE m == k - N
      <4>1. m \in DOMAIN h /\ new[k] = h[m]
        BY <1>1, <3>2
      <4>2. \A n \in DOMAIN h : n > m => ~ Reaches(h[n], l)
        <5> SUFFICES ASSUME NEW n \in DOMAIN h, n > m PROVE ~ Reaches(h[n], l)
          OBVIOUS
        <5>1. N + n \in DOMAIN new /\ N + n > k /\ new[N + n] = h[n]
          BY <1>1, <3>2
        <5> QED BY <2>2, <5>1
      <4> HIDE DEF m
      <4> QED BY <2>2, <4>1, <4>2 DEF Agrees, Ends
    <3> QED BY <1>3, <3>1, <3>2
  <2>3. ASSUME Idle(new, l) PROVE at = x
    <3>1. Idle(h, l) /\ Idle(q, l)
      <4>1. \A m \in DOMAIN h : N + m \in DOMAIN new /\ new[N + m] = h[m]
        BY <1>1
      <4>2. \A m \in DOMAIN q : m \in DOMAIN new /\ new[m] = q[m]
        BY <1>1
      <4> QED BY <2>3, <4>1, <4>2 DEF Idle
    <3> QED BY <2>1, <3>1 DEF Settles
  <2>4. Settles(new, at, l, x)
    BY <2>2, <2>3 DEF Settles, Ends
  <2> QED BY <1>5, <1>6, <2>4 DEF Agrees
<1> QED BY <1>7, <1>8

(* A command leaves the queue: to the lamp, or to a thread that delays it.  *)
LEMMA CommandSent ==
  ASSUME NEW T, NEW h, NEW q \in Seq(T), q # <<>>, NEW U, NEW a \in Seq(U),
         NEW at, NEW l, NEW x, Agrees(h, q, a, at, l, x),
         Head(q).delay \in Nat, Head(q).delay > 0 => Head(q) \in U
  PROVE  Agrees(h, Tail(q), IF Head(q).delay > 0 THEN Append(a, Head(q)) ELSE a,
                IF Reaches(Head(q), l) /\ Head(q).delay \notin 1 .. 127
                THEN Head(q).level ELSE at, l, x)
<1> DEFINE c == Head(q)
           rest == Tail(q)
           b == IF c.delay > 0 THEN Append(a, c) ELSE a
           after == IF Reaches(c, l) /\ c.delay \notin 1 .. 127 THEN c.level ELSE at
<1>1. /\ 1 \in DOMAIN q /\ c = q[1]
      /\ \A k \in DOMAIN rest : k + 1 \in DOMAIN q /\ rest[k] = q[k + 1]
  OBVIOUS
<1>2. Settles(q, at, l, x) =>
        /\ Settles(rest, IF Reaches(c, l) THEN c.level ELSE at, l, x)
        /\ Reaches(c, l) /\ ~ Settles(rest, at, l, x) => Idle(rest, l) /\ c.level = x
  BY SettlesTail
<1>3. c.delay \in Nat /\ (c.delay > 0 => c \in U)
  OBVIOUS
<1> HIDE DEF c, rest
<1>4. Prompt(h, l, x) /\ Prompt(rest, l, x) /\ Prompt(a, l, x) /\ Ends(h, l, x)
  BY <1>1 DEF Agrees, Prompt
<1>5. Reaches(c, l) /\ c.delay > 0 => c.delay <= 127 /\ c.level = x
  BY <1>1 DEF Agrees, Prompt
<1>6. CASE c.delay = 0
  <2>1. b = a /\ after = IF Reaches(c, l) THEN c.level ELSE at
    BY <1>6
  <2> HIDE DEF b, after
  <2>2. Settles(q, at, l, x) => Settles(rest, after, l, x)
    BY <1>2, <2>1
  <2>3. Agrees(h, rest, b, after, l, x)
    BY <1>4, <2>1, <2>2 DEF Agrees
  <2> QED BY <2>3 DEF b, after, c, rest
<1>7. CASE c.delay > 0
  <2>1. /\ Prompt(Append(a, c), l, x)
        /\ Waits(Append(a, c), l) <=> Waits(a, l) \/ (Reaches(c, l) /\ c.delay > 0)
    <3>1. Reaches(c, l) /\ c.delay > 0 => c.delay <= 127 /\ c.level = x
      BY <1>5
    <3> QED BY <1>3, <1>4, <1>7, <3>1, CommandAdded
  <2>2. b = Append(a, c) /\ after = at
    <3>1. \A d \in Nat : d > 0 /\ d <= 127 => d \in 1 .. 127
      OBVIOUS
    <3>2. ~ (Reaches(c, l) /\ c.delay \notin 1 .. 127)
      BY <1>3, <1>5, <1>7, <3>1, Zenon
    <3>3. after = at
      BY <3>2, Zenon
    <3> QED BY <1>7, <3>3
  <2> HIDE DEF b, after
  <2>3. CASE Reaches(c, l)
    <3>1. Agrees(h, rest, b, after, l, x)
      BY <1>4, <1>7, <2>1, <2>2, <2>3 DEF Agrees
    <3> QED BY <3>1 DEF b, after, c, rest
  <2>4. CASE ~ Reaches(c, l)
    <3>1. Settles(q, at, l, x) => Settles(rest, after, l, x)
      BY <1>2, <2>2, <2>4
    <3>2. Agrees(h, rest, b, after, l, x)
      BY <1>4, <2>1, <2>2, <3>1 DEF Agrees
    <3> QED BY <3>2 DEF b, after, c, rest
  <2> QED BY <2>3, <2>4
<1> QED BY <1>3, <1>6, <1>7

(* A thread ends: its command is queued, or it only reports.                *)
LEMMA ThreadEnds ==
  ASSUME NEW T, NEW h, NEW q \in Seq(T), NEW U, NEW a \in Seq(U), NEW n \in 1 .. Len(a),
         NEW c \in T, NEW at, NEW l, NEW x, Agrees(h, q, a, at, l, x),
         Reaches(c, l) <=> Reaches(a[n], l), c.level = a[n].level, c.delay = 0,
         a[n].delay \in Nat
  PROVE  /\ a[n].delay > 0 => Agrees(h, Append(q, c), RemoveAt(a, n), at, l, x)
         /\ a[n].delay = 0 => Agrees(h, q, RemoveAt(a, n), at, l, x)
<1> DEFINE b == RemoveAt(a, n)
           new == Append(q, c)
<1>1. /\ \A k \in DOMAIN b : \E m \in DOMAIN a : m # n /\ b[k] = a[m]
      /\ \A m \in DOMAIN a : m # n => \E k \in DOMAIN b : b[k] = a[m]
      /\ n \in DOMAIN a
  BY Removed
<1>2. /\ Reaches(c, l) => ~ Idle(new, l) /\ (Ends(new, l, x) <=> c.level = x)
      /\ ~ Reaches(c, l) => /\ Idle(new, l) <=> Idle(q, l)
                            /\ Ends(new, l, x) <=> Ends(q, l, x)
      /\ Prompt(q, l, x) => Prompt(new, l, x)
  BY CommandAdded
<1> HIDE DEF b, new
<1>3. Prompt(h, l, x) /\ Prompt(q, l, x) /\ Prompt(new, l, x) /\ Prompt(b, l, x) /\ Ends(h, l, x)
  <2>1. Prompt(b, l, x)
    BY <1>1 DEF Agrees, Prompt
  <2> QED BY <1>2, <2>1 DEF Agrees
<1>4. ~ (Reaches(a[n], l) /\ a[n].delay > 0) => (Waits(b, l) <=> Waits(a, l))
  BY <1>1 DEF Waits
<1>5. ASSUME a[n].delay > 0 PROVE Agrees(h, new, b, at, l, x)
  <2>1. CASE Reaches(a[n], l)
    <3>1. c.level = x
      BY <1>1, <1>5, <2>1 DEF Agrees, Prompt
    <3>2. Settles(new, at, l, x)
      BY <1>2, <2>1, <3>1 DEF Settles
    <3> QED BY <1>3, <3>2 DEF Agrees
  <2>2. CASE ~ Reaches(a[n], l)
    <3>1. Settles(q, at, l, x) => Settles(new, at, l, x)
      BY <1>2, <2>2 DEF Settles
    <3> QED BY <1>3, <1>4, <2>2, <3>1 DEF Agrees
  <2> QED BY <2>1, <2>2
<1>6. ASSUME a[n].delay = 0 PROVE Agrees(h, q, b, at, l, x)
  BY <1>3, <1>4, <1>6 DEF Agrees
<1> QED BY <1>5, <1>6 DEF b, new

(* A thread that has switched its lamp on switches it off: the lamp is not  *)
(* settled.                                                                 *)
LEMMA LampOffAgain ==
  ASSUME NEW T, NEW h, NEW q \in Seq(T), NEW U, NEW a \in Seq(U), NEW n \in 1 .. Len(a),
         NEW c \in T, NEW d, NEW at, NEW l, NEW x, Agrees(h, q, a, at, l, x),
         Reaches(c, l) <=> Reaches(a[n], l), Reaches(d, l) <=> Reaches(a[n], l),
         a[n].delay > 127, a[n].delay \in Nat
  PROVE  Agrees(h, Append(q, c), [a EXCEPT ![n] = d], at, l, x)
<1> DEFINE b == [a EXCEPT ![n] = d]
           new == Append(q, c)
<1>1. /\ n \in DOMAIN a /\ DOMAIN b = DOMAIN a /\ b[n] = d
      /\ \A m \in DOMAIN a : m # n => b[m] = a[m]
  OBVIOUS
<1>2. ~ Reaches(a[n], l)
  BY <1>1 DEF Agrees, Prompt
<1>3. /\ Idle(new, l) <=> Idle(q, l)
      /\ Ends(new, l, x) <=> Ends(q, l, x)
      /\ Prompt(q, l, x) => Prompt(new, l, x)
  BY <1>2, CommandAdded
<1> HIDE DEF b, new
<1>4. Prompt(b, l, x) /\ (Waits(b, l) <=> Waits(a, l))
  <2>1. Prompt(b, l, x)
    BY <1>1, <1>2 DEF Agrees, Prompt
  <2>2. Waits(b, l) <=> Waits(a, l)
    BY <1>1, <1>2 DEF Waits
  <2> QED BY <2>1, <2>2
<1>5. Settles(q, at, l, x) => Settles(new, at, l, x)
  BY <1>3 DEF Settles
<1>6. Agrees(h, new, b, at, l, x)
  BY <1>3, <1>4, <1>5 DEF Agrees
<1> QED BY <1>6 DEF b, new

(* A row's command more: for another lamp, or, if nothing for this one is   *)
(* delayed, for this one.                                                   *)
LEMMA RowHandled ==
  ASSUME NEW T, NEW h \in Seq(T), NEW c \in T, NEW q, NEW a, NEW at, NEW l, NEW x
  PROVE  /\ ~ Reaches(c, l) /\ Agrees(h, q, a, at, l, x) => Agrees(Append(h, c), q, a, at, l, x)
         /\ /\ Reaches(c, l) /\ c.level = x /\ (c.delay > 0 => c.delay <= 127)
            /\ \A s \in {h, q, a} : \A k \in DOMAIN s : Reaches(s[k], l) => ~ s[k].delay > 0
            => Agrees(Append(h, c), q, a, at, l, x)
<1> DEFINE new == Append(h, c)
<1>1. /\ Reaches(c, l) => ~ Idle(new, l) /\ (Ends(new, l, x) <=> c.level = x)
      /\ ~ Reaches(c, l) => /\ Idle(new, l) <=> Idle(h, l)
                            /\ Ends(new, l, x) <=> Ends(h, l, x)
      /\ Prompt(h, l, x) /\ (Reaches(c, l) /\ c.delay > 0
                             => c.delay <= 127 /\ c.level = x) => Prompt(new, l, x)
  BY CommandAdded
<1> HIDE DEF new
<1>2. ASSUME ~ Reaches(c, l), Agrees(h, q, a, at, l, x) PROVE Agrees(new, q, a, at, l, x)
  BY <1>1, <1>2 DEF Agrees
<1>3. ASSUME Reaches(c, l), c.level = x, c.delay > 0 => c.delay <= 127,
             \A s \in {h, q, a} : \A k \in DOMAIN s : Reaches(s[k], l) => ~ s[k].delay > 0
      PROVE  Agrees(new, q, a, at, l, x)
  <2>1. Prompt(h, l, x) /\ Prompt(q, l, x) /\ Prompt(a, l, x)
    BY <1>3 DEF Prompt
  <2> QED BY <1>1, <1>3, <2>1 DEF Agrees
<1> QED BY <1>2, <1>3 DEF new

(* Every step keeps the commands, the database and the lamps in agreement.   *)
LEMMA NextDb ==
  ASSUME WorkerInv, MainInv, QueueInv, DataTypes, DbInv, [Next]_vars
  PROVE  DbInv'
<1> DEFINE T == Command \cup {Empty}
           C(n) == [k \in 1 .. n |-> CommandOf(para[k])]
           level(l) == clo_qy_trans(dimmer_db[l])
           Fine(h, q, a, at, l) == Agrees(h, q, a, at, l, level(l))
<1>0. /\ para \in Seq(Row) /\ i \in Nat /\ Len(para) \in Nat /\ DOMAIN para = 1 .. Len(para)
      /\ qy_write \in Seq(T) /\ asleep \in Seq(Command) /\ dimmer_db \in [Lamps -> 0 .. 100]
      /\ main \in {"apply", "off"} => i \in 1 .. Len(para) + 1
  BY DEF MainInv, QueueInv, DataTypes
<1>1. \A l \in Lamps \ unsettled : Fine(Handled, qy_write, asleep, lamp[l], l)
  BY DEF DbInv
<1>2. ASSUME Handled' = Handled, UNCHANGED <<dimmer_db, unsettled, qy_write, asleep, lamp>>
      PROVE  DbInv'
  BY <1>1, <1>2 DEF DbInv
<1>3. CASE \/ get_valid_cbus_data \/ data_to_other_thread \/ data_to_clo_thread
           \/ general_serial_write \/ UNCHANGED vars
  <2>1. UNCHANGED <<main, job, para, i, dimmer_db, unsettled>>
    BY <1>3, OthersKeepMain
  <2>2. UNCHANGED <<qy_write, asleep, lamp>>
    BY <1>3 DEF get_valid_cbus_data, data_to_other_thread, RecordBrightness, save_scene_para,
                CopyRows, RewriteRows, QueueFrame, Reply, data_to_clo_thread,
                general_serial_write, vars, queues, outside
  <2>3. Handled' = Handled
    BY <2>1 DEF Handled, CommandOf
  <2> QED BY <1>2, <2>1, <2>2, <2>3
<1>4. CASE \/ TakeFrame \/ NoFrame \/ TakeEvent \/ NoEvent \/ MatchAgain
           \/ scene_control_feedback
  <2>1. /\ main \notin {"apply", "off"} /\ main' \notin {"apply", "off"}
        /\ UNCHANGED <<dimmer_db, unsettled, qy_write, asleep, lamp>>
    BY <1>4 DEF TakeFrame, NoFrame, TakeEvent, NoEvent, MatchAgain, scene_control_feedback,
                dbs, lamp_db, queues, outside
  <2>2. Handled' = Handled
    BY <2>1 DEF Handled
  <2> QED BY <1>2, <2>1, <2>2
<1>5. CASE match_dimmer_scene
  <2>1. /\ main = "match" /\ i' = 1
        /\ UNCHANGED <<dimmer_db, unsettled, qy_write, asleep, lamp>>
    BY <1>5 DEF match_dimmer_scene, dbs, lamp_db, queues, outside
  <2>2. [k \in 1 .. i' - 1 |-> CommandOf(para[k])'] = <<>>
    BY <2>1
  <2>3. Handled' = <<>> /\ Handled = <<>>
    BY <2>1, <2>2 DEF Handled
  <2> QED BY <1>2, <2>1, <2>3
<1>6. ASSUME main \in {"apply", "off"}, i \in 1 .. Len(para),
             i' = i + 1, UNCHANGED <<main, job, para, qy_write, asleep, lamp>>,
             \A l \in Lamps \ unsettled' :
               \/ /\ ~ Reaches(CommandOf(para[i]), l)
                  /\ l \notin unsettled /\ dimmer_db'[l] = dimmer_db[l]
               \/ /\ Reaches(CommandOf(para[i]), l)
                  /\ CommandOf(para[i]).level = clo_qy_trans(dimmer_db'[l])
                  /\ CommandOf(para[i]).delay > 0 => CommandOf(para[i]).delay <= 127
                  /\ ~ DelayedFor(l)
                  /\ \A k \in 1 .. i - 1 : Reaches(CommandOf(para[k]), l) =>
                                           CommandOf(para[k]).delay = 0
      PROVE  DbInv'
  <2> DEFINE c == CommandOf(para[i])
             h == Handled
  <2>1. Handled' = C(i' - 1)
    BY <1>6 DEF Handled, CommandOf
  <2>2. h = C(i - 1)
    BY <1>6 DEF Handled
  <2>3. h \in Seq(T) /\ c \in T /\ C((i + 1) - 1) = Append(h, c)
    BY <1>0, <1>6, <2>2, OneCommandMore
  <2>4. Handled' = Append(h, c)
    BY <1>6, <2>1, <2>3
  <2>5. ASSUME NEW l \in Lamps, l \notin unsettled'
        PROVE  Agrees(Append(h, c), qy_write, asleep, lamp[l], l, clo_qy_trans(dimmer_db'[l]))
    <3>1. CASE /\ ~ Reaches(c, l)
               /\ l \notin unsettled /\ dimmer_db'[l] = dimmer_db[l]
      <4> DEFINE x == level(l)
      <4>1. Agrees(h, qy_write, asleep, lamp[l], l, x) /\ clo_qy_trans(dimmer_db'[l]) = x
        BY <1>1, <3>1
      <4> HIDE DEF c, h, T, x
      <4>2. Agrees(Append(h, c), qy_write, asleep, lamp[l], l, x)
        BY <2>3, <3>1, <4>1, RowHandled
      <4> QED BY <4>1, <4>2
    <3>2. CASE /\ Reaches(c, l)
               /\ c.level = clo_qy_trans(dimmer_db'[l])
               /\ c.delay > 0 => c.delay <= 127
               /\ ~ DelayedFor(l)
               /\ \A k \in 1 .. i - 1 : Reaches(CommandOf(para[k]), l) =>
                                        CommandOf(para[k]).delay = 0
      <4>1. \A k \in DOMAIN h : Reaches(h[k], l) => ~ h[k].delay > 0
        BY <2>2, <3>2
      <4>2. /\ \A k \in DOMAIN qy_write : Reaches(qy_write[k], l) => ~ qy_write[k].delay > 0
            /\ \A k \in DOMAIN asleep : Reaches(asleep[k], l) => ~ asleep[k].delay > 0
        BY <3>2 DEF DelayedFor, Range
      <4> DEFINE x == clo_qy_trans(dimmer_db'[l])
      <4>3. c.level = x
        BY <3>2
      <4>4. \A s \in {h, qy_write, asleep} : \A k \in DOMAIN s : Reaches(s[k], l) => ~ s[k].delay > 0
        BY <4>1, <4>2
      <4> HIDE DEF c, h, T, x
      <4>5. Agrees(Append(h, c), qy_write, asleep, lamp[l], l, x)
        BY <2>3, <3>2, <4>3, <4>4, RowHandled
      <4> QED BY <4>5 DEF x
    <3> QED BY <1>6, <2>5, <3>1, <3>2
  <2> HIDE DEF c, h
  <2> QED BY <1>6, <2>4, <2>5 DEF DbInv
<1>7. CASE ApplyLamp
  <2> DEFINE d == para[i].device
  <2>1. /\ main = "apply" /\ i <= Len(para) /\ IsDimmer(d.dev) /\ i' = i + 1
        /\ dimmer_db' = [dimmer_db EXCEPT ![d] = para[i].value]
        /\ unsettled' = IF Certain THEN unsettled \ {d} ELSE unsettled \cup ({d} \cap Lamps)
        /\ UNCHANGED <<main, job, para, qy_write, asleep, lamp>>
    BY <1>7 DEF ApplyLamp, Settle, queues, outside
  <2>2. i \in 1 .. Len(para)
    BY <1>0, <2>1
  <2>3. para[i] \in Row /\ ~ job.off
    BY <1>0, <2>1, <2>2 DEF MainInv
  <2>4. d \in Lamps
    <3>1. d \in Devices
      BY <2>3 DEF Row
    <3> QED BY <2>1, <3>1, DeviceKinds
  <2>5. ASSUME NEW l \in Lamps \ unsettled'
        PROVE  \/ /\ ~ Reaches(CommandOf(para[i]), l)
                  /\ l \notin unsettled /\ dimmer_db'[l] = dimmer_db[l]
               \/ /\ Reaches(CommandOf(para[i]), l)
                  /\ CommandOf(para[i]).level = clo_qy_trans(dimmer_db'[l])
                  /\ CommandOf(para[i]).delay > 0 => CommandOf(para[i]).delay <= 127
                  /\ ~ DelayedFor(l)
                  /\ \A k \in 1 .. i - 1 : Reaches(CommandOf(para[k]), l) =>
                                           CommandOf(para[k]).delay = 0
    <3>1. /\ Reaches(CommandOf(para[i]), l) <=> d = l
          /\ CommandOf(para[i]).level = clo_qy_trans(para[i].value)
          /\ CommandOf(para[i]).delay = para[i].delay
      BY <2>3, <2>4, CommandHeard
    <3>2. dimmer_db'[l] = IF d = l THEN para[i].value ELSE dimmer_db[l]
      BY <1>0, <2>1
    <3>3. CASE d # l
      <4>1. l \notin unsettled
        BY <2>1, <3>3
      <4> QED BY <3>1, <3>2, <3>3, <4>1
    <3>4. CASE d = l
      <4>1. Certain
        BY <2>1, <2>4, <3>4
      <4>2. ASSUME NEW k \in 1 .. i - 1, Reaches(CommandOf(para[k]), l)
            PROVE  CommandOf(para[k]).delay = 0
        <5>1. para[k] \in Row /\ l \in Lamps
          BY <1>0, <2>2
        <5>2. para[k].device \in Lamps => /\ Reaches(CommandOf(para[k]), l) <=> para[k].device = l
                                          /\ CommandOf(para[k]).delay = para[k].delay
          BY <2>3, <5>1, CommandHeard
        <5>3. para[k].device \notin Lamps => CommandOf(para[k]).delay = 0
          BY <2>3, <5>1, CommandHeard
        <5>4. para[k].device = d => para[k].delay = 0
          BY <4>1 DEF Certain
        <5> QED BY <3>4, <4>2, <5>2, <5>3, <5>4
      <4>3. para[i].delay <= 127 /\ ~ DelayedFor(l)
        BY <3>4, <4>1 DEF Certain
      <4> QED BY <3>1, <3>2, <3>4, <4>2, <4>3
    <3> QED BY <3>3, <3>4
  <2> QED BY <1>6, <2>1, <2>2, <2>5
<1>8. CASE ApplySensor
  <2>1. /\ main = "apply" /\ i <= Len(para) /\ ~ IsDimmer(para[i].device.dev) /\ i' = i + 1
        /\ UNCHANGED <<main, job, para, dimmer_db, unsettled, qy_write, asleep, lamp>>
    BY <1>8 DEF ApplySensor, lamp_db, queues, outside
  <2>2. i \in 1 .. Len(para)
    BY <1>0, <2>1
  <2>3. para[i] \in Row /\ ~ job.off
    BY <1>0, <2>1, <2>2 DEF MainInv
  <2>4. para[i].device \notin Lamps
    BY <2>1, DeviceKinds
  <2>5. \A l \in Lamps : ~ Reaches(CommandOf(para[i]), l)
    BY <2>3, <2>4, CommandHeard
  <2> QED BY <1>6, <2>1, <2>2, <2>5
<1>9. CASE OffRow
  <2> DEFINE d == para[i].device
             m == Addressed(d)
  <2>1. /\ main = "off" /\ i <= Len(para) /\ i' = i + 1
        /\ dimmer_db' = [l \in Lamps |-> IF l = d THEN 0 ELSE dimmer_db[l]]
        /\ unsettled' = IF m = d /\ ~ DelayedFor(m) THEN unsettled \ {m}
                        ELSE unsettled \cup ({m} \cap Lamps)
        /\ UNCHANGED <<main, job, para, qy_write, asleep, lamp>>
    BY <1>9 DEF OffRow, Settle, queues, outside
  <2>2. i \in 1 .. Len(para)
    BY <1>0, <2>1
  <2>3. para[i] \in Row /\ job.off
    BY <1>0, <2>1, <2>2 DEF MainInv
  <2>4. clo_qy_trans(0) = 0
    BY DEF clo_qy_trans, UCHAR, FloatShort
  <2>5. ASSUME NEW l \in Lamps \ unsettled'
        PROVE  \/ /\ ~ Reaches(CommandOf(para[i]), l)
                  /\ l \notin unsettled /\ dimmer_db'[l] = dimmer_db[l]
               \/ /\ Reaches(CommandOf(para[i]), l)
                  /\ CommandOf(para[i]).level = clo_qy_trans(dimmer_db'[l])
                  /\ CommandOf(para[i]).delay > 0 => CommandOf(para[i]).delay <= 127
                  /\ ~ DelayedFor(l)
                  /\ \A k \in 1 .. i - 1 : Reaches(CommandOf(para[k]), l) =>
                                           CommandOf(para[k]).delay = 0
    <3>1. /\ Reaches(CommandOf(para[i]), l) <=> m = l
          /\ CommandOf(para[i]).level = 0 /\ CommandOf(para[i]).delay = 0
          /\ d \in Lamps => m = d
      BY <2>3, CommandHeard
    <3>2. \A k \in 1 .. i - 1 : CommandOf(para[k]).delay = 0
      <4> SUFFICES ASSUME NEW k \in 1 .. i - 1 PROVE CommandOf(para[k]).delay = 0
        OBVIOUS
      <4>1. para[k] \in Row
        BY <1>0, <2>2
      <4> QED BY <2>3, <4>1, CommandHeard
    <3>3. dimmer_db'[l] = IF l = d THEN 0 ELSE dimmer_db[l]
      BY <2>1
    <3> HIDE DEF d, m
    <3>4. CASE m # l
      <4>1. l \notin unsettled
        BY <2>1, <3>4
      <4>2. l # d
        BY <3>1, <3>4
      <4> QED BY <3>1, <3>3, <3>4, <4>1, <4>2
    <3>5. CASE m = l
      <4>1. m = d /\ ~ DelayedFor(m)
        BY <2>1, <3>5
      <4> QED BY <2>4, <3>1, <3>2, <3>3, <3>5, <4>1
    <3> QED BY <3>4, <3>5
  <2> QED BY <1>6, <2>1, <2>2, <2>5
<1>10. CASE SendRows
  <2>1. /\ main \in {"apply", "off"} /\ i > Len(para) /\ main' = "again"
        /\ qy_write' = qy_write \o C(Len(para))
        /\ UNCHANGED <<dimmer_db, unsettled, asleep, lamp>>
    BY <1>10 DEF SendRows, dbs, lamp_db, outside
  <2>2. i - 1 = Len(para)
    BY <1>0, <2>1
  <2> DEFINE h == Handled
  <2>3. Handled' = <<>> /\ h = C(Len(para))
    BY <2>1, <2>2 DEF Handled
  <2>4. h \in Seq(T)
    <3>1. Len(para) \in 0 .. Len(para)
      BY <1>0
    <3> QED BY <1>0, <2>3, <3>1, CommandsType
  <2>5. ASSUME NEW l \in Lamps, l \notin unsettled
        PROVE  Agrees(<<>>, qy_write \o h, asleep, lamp[l], l, level(l))
    <3> DEFINE x == level(l)
    <3>1. Agrees(h, qy_write, asleep, lamp[l], l, x)
      BY <1>1, <2>5
    <3> HIDE DEF h, x, T
    <3>2. Agrees(<<>>, qy_write \o h, asleep, lamp[l], l, x)
      BY <1>0, <2>4, <3>1, RowsOnTheirWay
    <3> QED BY <3>2 DEF x
  <2> QED BY <2>1, <2>3, <2>5 DEF DbInv
<1>11. ASSUME trans_serial_write \/ Wake PROVE Handled' = Handled
  <2>1. UNCHANGED <<main, job, para, i>>
    BY <1>11, OthersKeepMain
  <2> QED BY <2>1 DEF Handled, CommandOf
<1>12. CASE trans_serial_write
  <2> DEFINE row == Head(qy_write)
             h == Handled
  <2>1. /\ qy_write # <<>> /\ qy_write' = Tail(qy_write)
        /\ lamp' = [l \in Lamps |->
             IF Reaches(row, l) /\ row.delay \notin 1 .. 127 THEN row.level ELSE lamp[l]]
        /\ asleep' = IF row.delay > 0 THEN Append(asleep, row) ELSE asleep
        /\ UNCHANGED <<dimmer_db, unsettled>>
    BY <1>12, OthersKeepMain DEF trans_serial_write
  <2>2. row.delay \in Nat /\ (row.delay > 0 => row \in Command)
    <3>1. row \in T
      BY <1>0, <2>1
    <3> QED BY <3>1 DEF Command, Empty
  <2>3. ASSUME NEW l \in Lamps, l \notin unsettled
        PROVE  Agrees(h, qy_write', asleep', lamp'[l], l, level(l))
    <3> DEFINE x == level(l)
    <3>1. Agrees(h, qy_write, asleep, lamp[l], l, x)
      BY <1>1, <2>3
    <3>2. lamp'[l] = IF Reaches(row, l) /\ row.delay \notin 1 .. 127 THEN row.level ELSE lamp[l]
      BY <2>1
    <3> HIDE DEF h, x, T
    <3>3. Agrees(h, Tail(qy_write), IF row.delay > 0 THEN Append(asleep, row) ELSE asleep,
                 IF Reaches(row, l) /\ row.delay \notin 1 .. 127 THEN row.level ELSE lamp[l],
                 l, x)
      BY <1>0, <2>1, <2>2, <3>1, CommandSent
    <3> HIDE DEF row
    <3>4. Agrees(h, qy_write', asleep', lamp'[l], l, x)
      BY <2>1, <3>2, <3>3
    <3> QED BY <3>4 DEF x
  <2> QED BY <1>11, <1>12, <2>1, <2>3 DEF DbInv
<1>13. CASE Wake
  <2>1. PICK n \in DOMAIN asleep : delay_sec(n) \/ wait_seconds(n) \/ feed_back(n)
    BY <1>13 DEF Wake
  <2>2. UNCHANGED <<dimmer_db, unsettled, lamp>>
    BY <1>13, OthersKeepMain DEF Wake, outside
  <2> DEFINE a == asleep[n]
             h == Handled
             c == [a EXCEPT !.delay = 0]
             z == [a EXCEPT !.level = 0, !.delay = 0]
  <2>3. n \in 1 .. Len(asleep) /\ a \in Command
    BY <1>0
  <2>4. /\ c \in T /\ z \in T /\ a.delay \in Nat
        /\ c.level = a.level /\ c.delay = 0
        /\ \A l : (Reaches(c, l) <=> Reaches(a, l)) /\ (Reaches(z, l) <=> Reaches(a, l))
    <3>1. c \in Command /\ z \in Command => c \in T /\ z \in T
      OBVIOUS
    <3> HIDE DEF T, a
    <3> QED BY <2>3, <3>1, CommandChanged
  <2>5. /\ delay_sec(n) => /\ a.delay > 0 /\ qy_write' = Append(qy_write, c)
                           /\ asleep' = RemoveAt(asleep, n)
        /\ wait_seconds(n) => /\ a.delay > 127 /\ qy_write' = Append(qy_write, z)
                              /\ asleep' = [asleep EXCEPT ![n] = c]
        /\ feed_back(n) => a.delay = 0 /\ asleep' = RemoveAt(asleep, n) /\ UNCHANGED qy_write
    <3>1. delay_sec(n) => /\ a.delay > 0 /\ qy_write' = Append(qy_write, c)
                          /\ asleep' = RemoveAt(asleep, n)
      <4>1. delay_sec(n) => a.delay \in 1 .. 127
        BY DEF delay_sec
      <4>2. a.delay \in 1 .. 127 => a.delay > 0
        <5> HIDE DEF a
        <5> QED OBVIOUS
      <4>3. delay_sec(n) => qy_write' = Append(qy_write, c) /\ asleep' = RemoveAt(asleep, n)
        BY DEF delay_sec
      <4> QED BY <4>1, <4>2, <4>3
    <3>2. wait_seconds(n) => /\ a.delay > 127 /\ qy_write' = Append(qy_write, z)
                             /\ asleep' = [asleep EXCEPT ![n] = c]
      BY DEF wait_seconds
    <3>3. feed_back(n) => a.delay = 0 /\ asleep' = RemoveAt(asleep, n) /\ UNCHANGED qy_write
      BY DEF feed_back
    <3> QED BY <3>1, <3>2, <3>3
  <2>6. ASSUME NEW l \in Lamps, l \notin unsettled
        PROVE  Agrees(h, qy_write', asleep', lamp[l], l, level(l))
    <3> DEFINE x == level(l)
    <3>1. Agrees(h, qy_write, asleep, lamp[l], l, x)
      BY <1>1, <2>6
    <3> HIDE DEF h, x, T, c, z
    <3>2. /\ a.delay > 0 => Agrees(h, Append(qy_write, c), RemoveAt(asleep, n), lamp[l], l, x)
          /\ a.delay = 0 => Agrees(h, qy_write, RemoveAt(asleep, n), lamp[l], l, x)
      BY <1>0, <2>3, <2>4, <3>1, ThreadEnds
    <3>3. a.delay > 127 =>
            Agrees(h, Append(qy_write, z), [asleep EXCEPT ![n] = c], lamp[l], l, x)
      BY <1>0, <2>3, <2>4, <3>1, LampOffAgain
    <3> HIDE DEF a
    <3>4. Agrees(h, qy_write', asleep', lamp[l], l, x)
      BY <2>1, <2>5, <3>2, <3>3
    <3> QED BY <3>4 DEF x
  <2> QED BY <1>11, <1>13, <2>2, <2>6 DEF DbInv
<1> QED BY <1>3, <1>4, <1>5, <1>7, <1>8, <1>9, <1>10, <1>12, <1>13 DEF Next, get_handle

(* At rest every lamp stands at the level dimmer.db has for it, after any   *)
(* scenes and switch-offs in any order and however long delays are, but for *)
(* the lamps named there: set while an older command was delayed, on for a  *)
(* while only, or hit by a sensor's row of a scene that is switched off.    *)
THEOREM DbTracksLamps == Spec => []DbTracksDevice
<1>1. Init => DbInv
  <2> SUFFICES ASSUME Init, NEW l \in Lamps
               PROVE  Agrees(Handled, qy_write, asleep, lamp[l], l, clo_qy_trans(dimmer_db[l]))
    BY DEF DbInv
  <2>1. main = "clowire" /\ qy_write = <<>> /\ asleep = <<>>
    BY DEF Init
  <2>2. Handled = <<>>
    BY <2>1 DEF Handled
  <2>3. lamp[l] = clo_qy_trans(dimmer_db[l])
    BY DEF Init
  <2> QED BY <2>1, <2>2, <2>3 DEF Agrees, Prompt, Ends, Idle, Waits, Settles
<1>2. IInv /\ DbInv /\ [Next]_vars => DbInv'
  <2> SUFFICES ASSUME IInv, DbInv, [Next]_vars PROVE DbInv'
    OBVIOUS
  <2>1. WorkerInv /\ MainInv /\ QueueInv /\ DataTypes
    BY DEF IInv, TypeOK, DataTypes
  <2> QED BY <2>1, NextDb
<1>3. IInv /\ DbInv => DbTracksDevice
  <2> SUFFICES ASSUME IInv, DbInv, Quiescent, NEW l \in Lamps \ unsettled
               PROVE  lamp[l] = clo_qy_trans(dimmer_db[l])
    BY DEF DbTracksDevice
  <2>1. qy_write = <<>> /\ asleep = <<>> /\ main \notin {"apply", "off"}
    BY DEF Quiescent
  <2>2. Agrees(<<>>, <<>>, <<>>, lamp[l], l, clo_qy_trans(dimmer_db[l]))
    BY <2>1 DEF DbInv, Handled
  <2> QED BY <2>2 DEF Agrees, Idle, Waits, Settles
<1> QED BY <1>1, <1>2, <1>3, Inductive, PTL DEF Spec

--------------------------------------------------------------------------------
(* What the gateway hears.                                                  *)

(* Reports that follow decide if one is about the lamp, and those of its    *)
(* module all say x; otherwise those before decide.                         *)
LEMMA TellsConcat ==
  ASSUME NEW T, NEW q \in Seq(T), NEW r \in Seq(T), NEW at, NEW over, NEW l, NEW x,
         \A k \in DOMAIN r : IsModule(r[k], l) => r[k].values[l] = x,
         Tells(q, at, over, l, x) \/ \E k \in DOMAIN r : About(r[k], l)
  PROVE  Tells(q \o r, at, over, l, x)
<1> DEFINE new == q \o r
           N == Len(q)
<1>1. /\ N \in Nat /\ DOMAIN q = 1 .. N /\ Len(r) \in Nat /\ DOMAIN r = 1 .. Len(r)
      /\ DOMAIN new = 1 .. N + Len(r)
      /\ \A k \in 1 .. N : new[k] = q[k]
      /\ \A k \in 1 .. Len(r) : new[N + k] = r[k]
  OBVIOUS
<1> HIDE DEF new, N
<1>2. \A k \in 1 .. Len(r) : N + k \in DOMAIN new /\ N + k > N
  BY <1>1
<1>3. \A k \in DOMAIN new : k \in 1 .. N \/ (k - N \in 1 .. Len(r) /\ N + (k - N) = k)
  BY <1>1
<1>4. ASSUME NEW k \in DOMAIN new, IsModule(new[k], l),
             \A n \in DOMAIN new : n > k => ~ About(new[n], l)
      PROVE  new[k].values[l] = x
  <2>1. CASE k \in 1 .. N
    <3>1. \A m \in 1 .. Len(r) : ~ About(r[m], l)
      <4>1. SUFFICES ASSUME NEW m \in 1 .. Len(r) PROVE ~ About(r[m], l)
        OBVIOUS
      <4>2. N + m \in DOMAIN new /\ N + m > k /\ new[N + m] = r[m]
        BY <1>1, <1>2, <2>1
      <4> QED BY <1>4, <4>2
    <3>2. Tells(q, at, over, l, x)
      BY <1>1, <3>1
    <3>3. \A n \in 1 .. N : n > k => ~ About(q[n], l)
      <4>1. \A n \in 1 .. N : n \in DOMAIN new
        BY <1>1
      <4> QED BY <1>1, <1>4, <4>1
    <3>4. k \in DOMAIN q /\ IsModule(q[k], l) /\ new[k] = q[k]
      BY <1>1, <1>4, <2>1
    <3> QED BY <1>1, <3>2, <3>3, <3>4 DEF Tells
  <2>2. CASE k - N \in 1 .. Len(r) /\ N + (k - N) = k
    <3>1. new[k] = r[k - N]
      BY <1>1, <2>2
    <3> QED BY <1>1, <1>4, <2>2, <3>1
  <2> QED BY <1>3, <2>1, <2>2
<1>5. ASSUME \A k \in DOMAIN new : ~ About(new[k], l) PROVE l \in over \/ at = x
  <2>1. \A m \in 1 .. Len(r) : ~ About(r[m], l)
    BY <1>1, <1>2, <1>5
  <2>2. Tells(q, at, over, l, x)
    BY <1>1, <2>1
  <2>3. \A n \in DOMAIN q : ~ About(q[n], l)
    <3>1. \A n \in 1 .. N : n \in DOMAIN new
      BY <1>1
    <3> QED BY <1>1, <1>5, <3>1
  <2> QED BY <2>2, <2>3 DEF Tells
<1> QED BY <1>4, <1>5 DEF Tells, new

(* Another frame for the gateway does not matter, unless it is a module's.  *)
LEMMA TellsAppend ==
  ASSUME NEW T, NEW q \in Seq(T), NEW c \in T, NEW at, NEW over, NEW l, NEW x,
         ~ IsModule(c, l), Tells(q, at, over, l, x)
  PROVE  Tells(Append(q, c), at, over, l, x)
<1> DEFINE r == <<c>>
<1>1. r \in Seq(T) /\ DOMAIN r = 1 .. 1 /\ r[1] = c /\ Append(q, c) = q \o r
  OBVIOUS
<1> HIDE DEF r
<1>2. \A k \in DOMAIN r : ~ IsModule(r[k], l)
  <2>1. \A k \in 1 .. 1 : k = 1
    OBVIOUS
  <2> QED BY <1>1, <2>1
<1>3. Tells(q \o r, at, over, l, x)
  BY <1>1, <1>2, TellsConcat
<1> QED BY <1>1, <1>3

(* Nor does the delivery of the first.                                      *)
LEMMA TellsTail ==
  ASSUME NEW T, NEW q \in Seq(T), q # <<>>, NEW at, NEW over, NEW l, NEW x,
         Tells(q, at, over, l, x), NEW then, NEW since,
         IsModule(Head(q), l) => then = Head(q).values[l],
         IsLamp(Head(q), l) => l \in since,
         ~ About(Head(q), l) => then = at /\ (l \in over => l \in since)
  PROVE  Tells(Tail(q), then, since, l, x)
<1> DEFINE rest == Tail(q)
<1>1. /\ DOMAIN q = 1 .. Len(q) /\ Len(q) \in Nat \ {0}
      /\ DOMAIN rest = 1 .. Len(q) - 1
      /\ \A k \in DOMAIN rest : k + 1 \in DOMAIN q /\ rest[k] = q[k + 1]
      /\ Head(q) = q[1]
  OBVIOUS
<1> HIDE DEF rest
<1>2. \A n \in DOMAIN q : n > 1 => n - 1 \in DOMAIN rest /\ rest[n - 1] = q[n]
  <2> SUFFICES ASSUME NEW n \in DOMAIN q, n > 1
               PROVE  n - 1 \in DOMAIN rest /\ rest[n - 1] = q[n]
    OBVIOUS
  <2>1. n - 1 \in DOMAIN rest /\ (n - 1) + 1 = n
    BY <1>1
  <2> QED BY <1>1, <2>1
<1>3. ASSUME NEW k \in DOMAIN rest, IsModule(rest[k], l),
             \A n \in DOMAIN rest : n > k => ~ About(rest[n], l)
      PROVE  rest[k].values[l] = x
  <2>1. k + 1 \in DOMAIN q /\ rest[k] = q[k + 1] /\ IsModule(q[k + 1], l)
    BY <1>1, <1>3
  <2>2. ASSUME NEW n \in DOMAIN q, n > k + 1 PROVE ~ About(q[n], l)
    <3>1. n > 1 /\ n - 1 > k
      BY <1>1, <2>2
    <3> QED BY <1>2, <1>3, <3>1
  <2> QED BY <2>1, <2>2 DEF Tells
<1>4. ASSUME \A k \in DOMAIN rest : ~ About(rest[k], l)
      PROVE  l \in since \/ then = x
  <2>1. \A n \in DOMAIN q : n > 1 => ~ About(q[n], l)
    BY <1>2, <1>4
  <2>2. 1 \in DOMAIN q
    BY <1>1
  <2>3. CASE IsModule(q[1], l)
    BY <1>1, <2>1, <2>2, <2>3 DEF Tells
  <2>4. CASE IsLamp(q[1], l)
    BY <1>1, <2>4
  <2>5. CASE ~ About(q[1], l)
    <3>1. \A n \in DOMAIN q : ~ About(q[n], l)
      BY <1>1, <2>1, <2>5
    <3> QED BY <1>1, <2>5, <3>1 DEF Tells
  <2> QED BY <2>3, <2>4, <2>5 DEF About
<1> QED BY <1>3, <1>4 DEF Tells, rest

(* Every step keeps each lamp's brightness on its way to the gateway, or    *)
(* its row in the hands of the main loop, unless it will not be told.       *)
LEMMA NextHeard ==
  ASSUME MainInv, QueueInv, DataTypes, HeardInv, [Next]_vars
  PROVE  HeardInv'
<1> DEFINE C == Reports \cup {Done, Announced}
           Heard(l) == Tells(clo_write, shown[l], ended, l, dimmer_db[l])
<1>0. /\ para \in Seq(Row) /\ i \in Nat /\ Len(para) \in Nat /\ DOMAIN para = 1 .. Len(para)
      /\ clo_write \in Seq(C) /\ dimmer_db \in [Lamps -> 0 .. 100]
      /\ shown \in [Lamps -> 0 .. 100]
  BY DEF MainInv, QueueInv, DataTypes
<1>1. /\ \A l \in ended : shown[l] = 0
      /\ \A l \in Lamps \ untold : Concerned(l) \/ Heard(l)
  BY DEF HeardInv
<1>2. \A l : ~ IsModule(Done, l) /\ ~ IsModule(Announced, l)
  BY DEF Done, Announced, IsModule
<1>3. Done \in C /\ Announced \in C
  OBVIOUS
<1> HIDE DEF C
<1>4. ASSUME UNCHANGED <<shown, ended>>,
             \A l \in Lamps \ untold' : Concerned(l)' \/ Tells(clo_write', shown[l], ended, l, dimmer_db'[l])
      PROVE  HeardInv'
  BY <1>1, <1>4 DEF HeardInv
<1>5. ASSUME UNCHANGED <<shown, ended, untold, dimmer_db>>,
             \A l \in Lamps : Concerned(l) => Concerned(l)',
             NEW c, clo_write' = clo_write \/ (c \in C /\ clo_write' = Append(clo_write, c)),
             \A l : ~ IsModule(c, l)
      PROVE  HeardInv'
  <2> SUFFICES ASSUME NEW l \in Lamps \ untold, Heard(l)
               PROVE  Tells(clo_write', shown[l], ended, l, dimmer_db[l])
    BY <1>1, <1>4, <1>5
  <2>1. ASSUME c \in C PROVE Tells(Append(clo_write, c), shown[l], ended, l, dimmer_db[l])
    BY <1>0, <1>5, <2>1, TellsAppend
  <2> QED BY <1>5, <2>1
<1>6. CASE \/ get_valid_cbus_data \/ data_to_other_thread \/ data_to_clo_thread
           \/ trans_serial_write \/ UNCHANGED vars
  <2>1. UNCHANGED <<main, para, dimmer_db>>
    BY <1>6, OthersKeepMain
  <2>2. /\ UNCHANGED <<shown, ended, untold>>
        /\ clo_write' = clo_write \/ clo_write' = Append(clo_write, Done)
    BY <1>6 DEF get_valid_cbus_data, data_to_other_thread, RecordBrightness, save_scene_para,
                CopyRows, RewriteRows, QueueFrame, Reply, data_to_clo_thread,
                trans_serial_write, vars, queues, outside, belief, Done
  <2>3. \A l \in Lamps : Concerned(l) => Concerned(l)'
    BY <2>1 DEF Concerned
  <2> QED BY <1>2, <1>3, <1>5, <2>1, <2>2, <2>3
<1>7. CASE Wake
  <2>1. PICK n \in DOMAIN asleep : delay_sec(n) \/ wait_seconds(n) \/ feed_back(n)
    BY <1>7 DEF Wake
  <2> DEFINE f == [what |-> "lamp",
                   of |-> addr_trans_qy(Dial, asleep[n].circuit, asleep[n].application)]
  <2>2. /\ UNCHANGED <<main, para, dimmer_db, shown, ended, untold>>
        /\ clo_write' = clo_write \/ clo_write' = Append(clo_write, f)
    <3>1. UNCHANGED <<main, para, dimmer_db>>
      BY <1>7, OthersKeepMain
    <3>2. UNCHANGED <<shown, ended, untold>>
      BY <1>7 DEF Wake, outside, belief
    <3>3. clo_write' = clo_write \/ clo_write' = Append(clo_write, f)
      BY <2>1 DEF delay_sec, wait_seconds, feed_back
    <3> QED BY <3>1, <3>2, <3>3
  <2>3. f \in C /\ \A l : ~ IsModule(f, l)
    <3>1. asleep[n] \in Command
      BY DEF QueueInv
    <3> QED BY <3>1 DEF C, Reports, IsModule
  <2>4. \A l \in Lamps : Concerned(l) => Concerned(l)'
    BY <2>2 DEF Concerned
  <2> HIDE DEF f
  <2> QED BY <1>5, <2>2, <2>3, <2>4
<1>8. CASE TakeFrame \/ NoFrame \/ TakeEvent \/ NoEvent \/ match_dimmer_scene
  <2>1. /\ main \in {"clowire", "qiyuan", "match"}
        /\ UNCHANGED <<dimmer_db, shown, ended, untold>>
        /\ clo_write' = clo_write \/ clo_write' = Append(clo_write, Announced)
    BY <1>8 DEF TakeFrame, NoFrame, TakeEvent, NoEvent, match_dimmer_scene,
                dbs, lamp_db, queues, outside, belief, Announced
  <2>2. \A l \in Lamps : ~ Concerned(l)
    BY <2>1 DEF Concerned
  <2> QED BY <1>2, <1>3, <1>5, <2>1, <2>2
<1>9. CASE ApplyLamp \/ ApplySensor \/ OffRow
  <2>1. /\ main \in {"apply", "off"} /\ i <= Len(para)
        /\ UNCHANGED <<main, para, clo_write, shown, ended, untold>>
    BY <1>9 DEF ApplyLamp, ApplySensor, OffRow, queues, outside, belief
  <2>2. i \in 1 .. Len(para)
    BY <1>0, <2>1 DEF MainInv
  <2>3. \/ \E v : dimmer_db' = [dimmer_db EXCEPT ![para[i].device] = v]
        \/ dimmer_db' = dimmer_db
        \/ dimmer_db' = [m \in Lamps |-> IF m = para[i].device THEN 0 ELSE dimmer_db[m]]
    BY <1>9 DEF ApplyLamp, ApplySensor, OffRow, lamp_db
  <2>4. ASSUME NEW l \in Lamps \ untold
        PROVE  Concerned(l)' \/ Tells(clo_write', shown[l], ended, l, dimmer_db'[l])
    <3>1. CASE para[i].device = l
      BY <1>0, <2>1, <2>2, <3>1 DEF Concerned
    <3>2. CASE para[i].device # l
      <4>1. dimmer_db'[l] = dimmer_db[l]
        BY <1>0, <2>3, <3>2
      <4>2. Concerned(l) => Concerned(l)'
        BY <2>1 DEF Concerned
      <4> QED BY <1>1, <2>1, <4>1, <4>2
    <3> QED BY <3>1, <3>2
  <2> QED BY <1>4, <2>1, <2>4
<1>10. CASE SendRows
  <2>1. /\ main \in {"apply", "off"} /\ main' = "again"
        /\ UNCHANGED <<para, dimmer_db, clo_write, shown, ended, untold>>
    BY <1>10 DEF SendRows, dbs, lamp_db, outside, belief
  <2>2. \A l \in Lamps : Concerned(l) => Concerned(l)'
    BY <2>1 DEF Concerned
  <2> QED BY <1>2, <1>5, <2>1, <2>2
<1>11. CASE MatchAgain
  <2>1. /\ main = "again" /\ main' = "feedback"
        /\ untold' = {l \in Lamps : /\ ~ WillBeTold(l, para')
                                    /\ l \in untold \/ \E row \in Range(para) : row.device = l}
        /\ UNCHANGED <<dimmer_db, clo_write, shown, ended>>
    BY <1>11 DEF MatchAgain, dbs, lamp_db, queues
  <2>2. ASSUME NEW l \in Lamps \ untold'
        PROVE  Concerned(l)' \/ Tells(clo_write', shown[l], ended, l, dimmer_db'[l])
    <3>1. CASE WillBeTold(l, para')
      BY <2>1, <3>1 DEF Concerned
    <3>2. CASE ~ WillBeTold(l, para')
      <4>1. l \notin untold /\ \A k \in DOMAIN para : para[k].device # l
        BY <2>1, <3>2 DEF Range
      <4>2. Heard(l)
        BY <1>1, <2>1, <4>1 DEF Concerned
      <4> QED BY <2>1, <4>2
    <3> QED BY <3>1, <3>2
  <2> QED BY <1>4, <2>1, <2>2
<1>12. CASE scene_control_feedback
  <2> DEFINE L == LampReports
             S == SensorReports
  <2>1. /\ main = "feedback" /\ clo_write' = clo_write \o L \o S
        /\ UNCHANGED <<dimmer_db, shown, ended, untold>>
    BY <1>12 DEF scene_control_feedback, dbs, lamp_db, outside, belief
  <2>2. /\ L \in Seq(Reports) /\ S \in Seq(Reports)
        /\ \A k \in DOMAIN L : L[k].what = "module" /\ L[k].values = dimmer_db
        /\ \A k \in DOMAIN S : S[k].what = "sensor"
        /\ \A l \in Lamps : WillBeTold(l, para) => \E k \in DOMAIN L : L[k].dev = l.dev
    BY <1>0, ReportTypes
  <2> HIDE DEF L, S
  <2>3. L \in Seq(C) /\ S \in Seq(C)
    <3>1. Reports \subseteq C
      BY DEF C
    <3>2. \A t \in Seq(Reports) : t \in Seq(C)
      BY <3>1
    <3> QED BY <2>2, <3>2
  <2>4. clo_write \o L \in Seq(C)
    BY <1>0, <2>3
  <2>5. ASSUME NEW l \in Lamps \ untold
        PROVE  Tells(clo_write \o L \o S, shown[l], ended, l, dimmer_db[l])
    <3>1. \A k \in DOMAIN L : IsModule(L[k], l) => L[k].values[l] = dimmer_db[l]
      BY <2>2
    <3>2. Heard(l) \/ \E k \in DOMAIN L : About(L[k], l)
      <4>1. CASE Concerned(l)
        <5>1. WillBeTold(l, para)
          BY <2>1, <4>1 DEF Concerned
        <5>2. PICK k \in DOMAIN L : L[k].dev = l.dev
          BY <2>2, <5>1
        <5> QED BY <2>2, <5>2 DEF About, IsModule
      <4> QED BY <1>1, <4>1
    <3>3. Tells(clo_write \o L, shown[l], ended, l, dimmer_db[l])
      BY <1>0, <2>3, <3>1, <3>2, TellsConcat
    <3>4. \A k \in DOMAIN S : IsModule(S[k], l) => S[k].values[l] = dimmer_db[l]
      BY <2>2 DEF IsModule
    <3> QED BY <2>3, <2>4, <3>3, <3>4, TellsConcat
  <2> QED BY <1>4, <2>1, <2>5
<1>13. CASE general_serial_write
  <2> DEFINE report == Head(clo_write)
             Module(l) == report.what = "module" /\ l.dev = report.dev
             Ended(l)  == report.what = "lamp" /\ l = report.of
  <2>1. /\ clo_write # <<>> /\ clo_write' = Tail(clo_write)
        /\ shown' = [l \in Lamps |-> IF Module(l) THEN report.values[l]
                                     ELSE IF Ended(l) THEN 0 ELSE shown[l]]
        /\ ended' = {l \in Lamps : ~ Module(l) /\ (Ended(l) \/ l \in ended)}
        /\ UNCHANGED <<main, para, dimmer_db, untold>>
    BY <1>13, OthersKeepMain DEF general_serial_write
  <2>2. \A l : /\ Module(l) <=> IsModule(report, l)
               /\ Ended(l) <=> IsLamp(report, l)
               /\ ~ (Module(l) /\ Ended(l))
    BY DEF IsModule, IsLamp
  <2> HIDE DEF report, Module, Ended
  <2>3. \A l \in ended' : shown'[l] = 0
    BY <1>1, <2>1
  <2>4. ASSUME NEW l \in Lamps \ untold
        PROVE  Concerned(l)' \/ Tells(clo_write', shown'[l], ended', l, dimmer_db[l])
    <3>1. CASE Concerned(l)
      BY <2>1, <3>1 DEF Concerned
    <3>2. CASE Heard(l)
      <4> DEFINE then == shown'[l]
                 since == ended'
                 x == dimmer_db[l]
                 at == shown[l]
                 q == clo_write
                 over == ended
      <4>1. /\ IsModule(Head(q), l) => then = Head(q).values[l]
            /\ IsLamp(Head(q), l) => l \in since
            /\ ~ About(Head(q), l) => then = at /\ (l \in over => l \in since)
        <5>1. report = Head(q)
          BY DEF report
        <5>2. then = IF Module(l) THEN report.values[l] ELSE IF Ended(l) THEN 0 ELSE at
          BY <2>1
        <5>3. l \in since <=> ~ Module(l) /\ (Ended(l) \/ l \in over)
          BY <2>1
        <5>4. /\ Module(l) <=> IsModule(Head(q), l)
              /\ Ended(l) <=> IsLamp(Head(q), l)
              /\ ~ (Module(l) /\ Ended(l))
          BY <2>2, <5>1 DEF IsModule, IsLamp
        <5> HIDE DEF then, since, at, q, over
        <5>5. CASE Module(l)
          BY <5>1, <5>2, <5>4, <5>5 DEF About
        <5>6. CASE ~ Module(l) /\ Ended(l)
          BY <5>3, <5>4, <5>6 DEF About
        <5>7. CASE ~ Module(l) /\ ~ Ended(l)
          BY <5>2, <5>3, <5>4, <5>7
        <5> QED BY <5>5, <5>6, <5>7
      <4>2. q \in Seq(C) /\ q # <<>> /\ Tells(q, at, over, l, x)
        BY <1>0, <2>1, <3>2
      <4> HIDE DEF then, since, x, at, q, over
      <4>3. Tells(Tail(q), then, since, l, x)
        BY <4>1, <4>2, TellsTail
      <4> QED BY <2>1, <4>3 DEF then, since, x, q
    <3> QED BY <1>1, <3>1, <3>2
  <2> QED BY <2>1, <2>3, <2>4 DEF HeardInv
<1> QED BY <1>6, <1>7, <1>8, <1>9, <1>10, <1>11, <1>12, <1>13 DEF Next, get_handle

(* At rest the gateway believes what the database holds, or 0 if it was     *)
(* last told that a delay has ended, after any scenes, switch-offs and      *)
(* deletions, but for the lamps that a scene set and did not report.        *)
THEOREM GatewayHears == Spec => []GatewaySeesScene
<1>1. Init => HeardInv
  <2> SUFFICES ASSUME Init PROVE HeardInv
    OBVIOUS
  <2>1. clo_write = <<>> /\ shown = dimmer_db /\ ended = {}
    BY DEF Init
  <2>2. \A l \in Lamps : Tells(clo_write, shown[l], ended, l, dimmer_db[l])
    BY <2>1 DEF Tells
  <2> QED BY <2>1, <2>2 DEF HeardInv
<1>2. IInv /\ HeardInv /\ [Next]_vars => HeardInv'
  <2> SUFFICES ASSUME IInv, HeardInv, [Next]_vars PROVE HeardInv'
    OBVIOUS
  <2>1. MainInv /\ QueueInv /\ DataTypes
    BY DEF IInv, TypeOK, DataTypes
  <2> QED BY <2>1, NextHeard
<1>3. IInv /\ HeardInv => GatewaySeesScene
  <2> SUFFICES ASSUME HeardInv, Quiescent, NEW l \in Lamps \ untold PROVE Believed(l)
    BY DEF GatewaySeesScene
  <2>1. clo_write = <<>> /\ main \in {"clowire", "qiyuan"}
    BY DEF Quiescent
  <2>2. ~ Concerned(l)
    BY <2>1 DEF Concerned
  <2>3. Tells(<<>>, shown[l], ended, l, dimmer_db[l])
    BY <2>1, <2>2 DEF HeardInv
  <2>4. l \in ended \/ shown[l] = dimmer_db[l]
    BY <2>3 DEF Tells
  <2>5. l \in ended => shown[l] = 0
    BY DEF HeardInv
  <2> QED BY <2>4, <2>5 DEF Believed
<1> QED BY <1>1, <1>2, <1>3, Inductive, PTL DEF Spec

--------------------------------------------------------------------------------
(* Of which lamps the gateway hears.                                        *)

(* No module's number is found in another's.                                *)
NumbersApart ==
  /\ \A l \in Lamps : ~ IsPir(l.dev)
  /\ \A d, e \in Devices : HasDigits(d.dev, e.dev) => d.dev = e.dev

(* The rows the main loop has are still in the file.                        *)
RowsStay ==
  deletes = 0 /\ main \in {"apply", "off", "again", "feedback"} =>
    \A k \in DOMAIN para : \E n \in DOMAIN scene_txt : scene_txt[n] = para[k]

(* Without a deletion the rows of a scene remain, and every lamp it sets is *)
(* reported.                                                                *)
RowsInv ==
  /\ deletes \in Nat
  /\ deletes = 0 => worker \notin {"delete", "rewrite"}
  /\ RowsStay
  /\ deletes = 0 => untold = {}

(* The rows are found again: those that were in the file still are.         *)
LEMMA FoundAgain ==
  ASSUME scene_txt \in Seq(Row), ~ truncated, NEW n \in DOMAIN scene_txt,
         NEW s, scene_txt[n].scene = s
  PROVE  \E k \in 1 .. Len(RowsOf(Visible, s)) : RowsOf(Visible, s)[k] = scene_txt[n]
<1> DEFINE S == [device : Devices, scene : {s}, value : Values,
                  delay : Delays]
           t == Filter(scene_txt, S)
<1>1. scene_txt[n] \in Row /\ n \in 1 .. Len(scene_txt)
  OBVIOUS
<1>2. scene_txt[n] \in S
  BY <1>1 DEF Row
<1> HIDE DEF S
<1>3. \E k \in 1 .. Len(t) : t[k] = scene_txt[n]
  BY <1>1, <1>2, FilterElements
<1>4. RowsOf(Visible, s) = t
  BY DEF RowsOf, Visible, S
<1> HIDE DEF t
<1> QED BY <1>3, <1>4

(* Without a deletion the file only grows.                                  *)
LEMMA FileGrows ==
  ASSUME WorkerInv, RowsInv, [Next]_vars
  PROVE  /\ deletes' \in Nat /\ (deletes' = 0 => deletes = 0)
         /\ deletes' = 0 => worker' \notin {"delete", "rewrite"}
         /\ deletes' = 0 => \A n \in DOMAIN scene_txt : /\ n \in DOMAIN scene_txt'
                                                        /\ scene_txt'[n] = scene_txt[n]
<1>0. scene_txt \in Seq(Row) /\ deletes \in Nat
      /\ (deletes = 0 => worker \notin {"delete", "rewrite"})
  BY DEF WorkerInv, RowsInv
<1>1. CASE get_valid_cbus_data
  <2>1. PICK r \in Requests :
          /\ deletes' = IF r.cmd = "delete" THEN deletes + 1 ELSE deletes
          /\ worker' = IF r.cmd = "control" THEN "queue" ELSE r.cmd
    BY <1>1 DEF get_valid_cbus_data
  <2>2. r.cmd \in {"configure", "delete", "control"}
    BY RequestTypes
  <2>3. UNCHANGED scene_txt
    BY <1>1 DEF get_valid_cbus_data, files
  <2>4. deletes' \in Nat /\ (deletes' = 0 => deletes = 0 /\ r.cmd # "delete")
    BY <1>0, <2>1
  <2>5. deletes' = 0 => worker' \notin {"delete", "rewrite"}
    BY <2>1, <2>2, <2>4
  <2> QED BY <2>3, <2>4, <2>5
<1>2. CASE save_scene_para
  <2>1. /\ worker = "append" /\ worker' = "queue" /\ UNCHANGED deletes
        /\ scene_txt' = Append(scene_txt, RowFor(frame))
    BY <1>2 DEF save_scene_para, RowFor, counts
  <2>2. \A n \in DOMAIN scene_txt : n \in DOMAIN scene_txt' /\ scene_txt'[n] = scene_txt[n]
    BY <1>0, <2>1
  <2> QED BY <1>0, <2>1, <2>2
<1>3. CASE CopyRows \/ RewriteRows
  <2>1. worker \in {"delete", "rewrite"} /\ UNCHANGED deletes
    BY <1>3 DEF CopyRows, RewriteRows, counts
  <2> QED BY <1>0, <2>1
<1>4. CASE RecordBrightness \/ QueueFrame \/ Reply
  <2>1. /\ worker' \in {"append", "none", "reply"}
        /\ UNCHANGED <<scene_txt, deletes>>
    BY <1>4 DEF RecordBrightness, QueueFrame, Reply, files, counts
  <2> QED BY <1>0, <2>1
<1>5. CASE \/ data_to_clo_thread \/ get_handle \/ trans_serial_write
           \/ Wake \/ general_serial_write \/ UNCHANGED vars
  <2>1. UNCHANGED <<worker, scene_txt, deletes>>
    BY <1>5, OthersKeepWorker
  <2> QED BY <1>0, <2>1
<1> QED BY <1>1, <1>2, <1>3, <1>4, <1>5 DEF Next, data_to_other_thread

(* While nothing is deleted, the rows of the scene under way stay in the    *)
(* file.                                                                    *)
LEMMA NextRowsStay ==
  ASSUME WorkerInv, RowsInv, [Next]_vars
  PROVE  RowsStay'
<1> SUFFICES ASSUME deletes' = 0, main' \in {"apply", "off", "again", "feedback"},
                    NEW k \in DOMAIN para'
             PROVE  \E n \in DOMAIN scene_txt' : scene_txt'[n] = para'[k]
  BY DEF RowsStay
<1>0. /\ deletes = 0
      /\ \A n \in DOMAIN scene_txt : n \in DOMAIN scene_txt' /\ scene_txt'[n] = scene_txt[n]
  BY FileGrows
<1>1. SUFFICES \E n \in DOMAIN scene_txt : scene_txt[n] = para'[k]
  BY <1>0
<1>2. CASE UNCHANGED para /\ main \in {"apply", "off", "again", "feedback"}
  BY <1>0, <1>2 DEF RowsInv, RowsStay
<1>3. CASE match_dimmer_scene \/ MatchAgain
  <2>1. para' = RowsOf(Visible, job.scene)
    BY <1>3 DEF match_dimmer_scene, MatchAgain
  <2> DEFINE found == RowsOf(Visible, job.scene)
  <2>2. /\ found \in Seq(Row)
        /\ \A m \in 1 .. Len(found) : \E n \in DOMAIN scene_txt : scene_txt[n] = found[m]
    BY RowsFound DEF WorkerInv
  <2> HIDE DEF found
  <2>3. k \in 1 .. Len(found) /\ para' = found
    BY <2>1, <2>2 DEF found
  <2> QED BY <2>2, <2>3
<1>4. CASE \/ get_valid_cbus_data \/ data_to_other_thread \/ data_to_clo_thread
           \/ trans_serial_write \/ Wake \/ general_serial_write \/ UNCHANGED vars
  <2>1. UNCHANGED <<main, para>>
    BY <1>4, OthersKeepMain
  <2> QED BY <1>2, <2>1
<1>5. CASE ApplyLamp \/ ApplySensor \/ OffRow \/ SendRows
  <2>1. UNCHANGED para /\ main \in {"apply", "off"}
    BY <1>5 DEF ApplyLamp, ApplySensor, OffRow, SendRows
  <2> QED BY <1>2, <2>1
<1>6. CASE TakeFrame \/ NoFrame \/ TakeEvent \/ NoEvent \/ scene_control_feedback
  <2>1. main' \in {"clowire", "qiyuan", "match"}
    BY <1>6 DEF TakeFrame, NoFrame, TakeEvent, NoEvent, scene_control_feedback
  <2> QED BY <2>1
<1> QED BY <1>3, <1>4, <1>5, <1>6 DEF Next, get_handle

(* A scene's lamps are reported, if their rows stay and their numbers are   *)
(* no part of others.                                                       *)
LEMMA NextUntold ==
  ASSUME NumbersApart, WorkerInv, MainInv, RowsInv, truncated <=> worker = "rewrite",
         deletes' = 0, untold = {}, [Next]_vars
  PROVE  untold' = {}
<1>0. /\ scene_txt \in Seq(Row) /\ para \in Seq(Row) /\ DOMAIN para = 1 .. Len(para)
      /\ deletes = 0 /\ ~ truncated
  <2>1. deletes = 0
    BY FileGrows
  <2> QED BY <2>1 DEF WorkerInv, MainInv, RowsInv
<1>1. CASE MatchAgain
  <2>1. /\ main = "again" /\ para' = RowsOf(Visible, job.scene)
        /\ untold' = {l \in Lamps : /\ ~ WillBeTold(l, para')
                                    /\ l \in untold \/ \E row \in Range(para) : row.device = l}
    BY <1>1 DEF MatchAgain
  <2>2. para' \in Seq(Row)
    BY <1>0, <2>1, RowsFound
  <2>3. DOMAIN para' = 1 .. Len(para') /\ \A k \in DOMAIN para' : para'[k].device \in Devices
    <3>1. DOMAIN para' = 1 .. Len(para') /\ \A k \in DOMAIN para' : para'[k] \in Row
      BY <2>2
    <3> QED BY <3>1 DEF Row
  <2>4. ASSUME NEW l \in Lamps, NEW row \in Range(para), row.device = l
        PROVE  WillBeTold(l, para')
    <3>1. PICK k \in DOMAIN para : para[k].device = l
      BY <2>4 DEF Range
    <3>2. PICK n \in DOMAIN scene_txt : scene_txt[n] = para[k]
      BY <1>0, <2>1 DEF RowsInv, RowsStay
    <3>3. scene_txt[n].scene = job.scene
      BY <2>1, <3>2 DEF MainInv
    <3>4. PICK j \in 1 .. Len(para') : para'[j] = scene_txt[n]
      BY <1>0, <2>1, <3>3, FoundAgain
    <3>5. j \in DOMAIN para' /\ para'[j].device.dev = l.dev
      BY <2>3, <3>1, <3>2, <3>4
    <3>6. ~ IsPir(l.dev) /\ l \in Devices
      BY DEF NumbersApart, Devices
    <3>7. ASSUME NEW m \in 1 .. j - 1, HasDigits(para'[m].device.dev, l.dev)
          PROVE  para'[m].device.dev = l.dev
      <4>1. m \in DOMAIN para'
        BY <2>3, <3>5
      <4> QED BY <2>3, <3>6, <3>7, <4>1 DEF NumbersApart
    <3> QED BY <3>5, <3>6, <3>7 DEF WillBeTold
  <2> QED BY <2>1, <2>4
<1>2. CASE ~ MatchAgain
  <2>1. UNCHANGED untold
    BY <1>2 DEF Next, vars, get_valid_cbus_data, data_to_other_thread, RecordBrightness,
                save_scene_para, CopyRows, RewriteRows, QueueFrame, Reply, data_to_clo_thread,
                get_handle, TakeFrame, NoFrame, TakeEvent, NoEvent, match_dimmer_scene,
                ApplyLamp, ApplySensor, OffRow, SendRows, scene_control_feedback,
                trans_serial_write, Wake, general_serial_write, outside, belief
  <2> QED BY <2>1
<1> QED BY <1>1, <1>2

(* With nine modules or fewer, whatever the dial says, no number is part of *)
(* another: two that are fewer than nine apart have not as many digits in   *)
(* common.                                                                  *)
LEMMA FewModulesApart ==
  ASSUME DIMMER_CNT + PIR_NUM <= 9
  PROVE  NumbersApart
<1>1. Dial \in 0 .. 240 /\ DIMMER_CNT \in 0 .. 63 /\ PIR_NUM \in 0 .. 31
      /\ Dial + DIMMER_CNT + PIR_NUM <= 256
  BY ConstantTypes
<1>2. \A d \in Devices : d.dev \in 0 .. 255 /\ d.dev \in Dial .. Dial + 8
  <2>1. ASSUME NEW d \in Lamps PROVE d.dev \in 0 .. 255 /\ d.dev \in Dial .. Dial + 8
    <3> DEFINE dev == d.dev
    <3>1. dev \in 0 .. 255 /\ dev \in Dial .. Dial + DIMMER_CNT - 1
      BY DeviceKinds
    <3> HIDE DEF dev
    <3>2. dev \in 0 .. 255 /\ dev \in Dial .. Dial + 8
      BY <1>1, <3>1
    <3> QED BY <3>2 DEF dev
  <2>2. ASSUME NEW d \in Sensors PROVE d.dev \in 0 .. 255 /\ d.dev \in Dial .. Dial + 8
    <3> DEFINE dev == d.dev
    <3>1. Sensors \subseteq [dev : Dial + DIMMER_CNT .. Dial + DIMMER_CNT + PIR_NUM - 1,
                             sub : SensorSubs]
      BY ConstantTypes
    <3>2. dev \in Dial + DIMMER_CNT .. Dial + DIMMER_CNT + PIR_NUM - 1
      BY <3>1
    <3> HIDE DEF dev
    <3>3. dev \in 0 .. 255 /\ dev \in Dial .. Dial + 8
      BY <1>1, <3>2
    <3> QED BY <3>3 DEF dev
  <2> QED BY <2>1, <2>2 DEF Devices
<1>3. ASSUME NEW m \in 0 .. 255, NEW n \in 0 .. 255, m - n <= 8, n - m <= 8, HasDigits(m, n)
      PROVE  m = n
  <2>1. PICK k \in {1, 10, 100} : (k = 1 \/ m \div k > 0) /\ EndsWith(m \div k, n)
    BY <1>3 DEF HasDigits
  <2>2. CASE k = 1
    <3>1. m \div 1 = m
      OBVIOUS
    <3>2. EndsWith(m, n)
      BY <2>1, <2>2, <3>1
    <3> QED BY <1>3, <3>2 DEF EndsWith
  <2>3. CASE k = 10
    <3>1. m \div 10 > 0 /\ EndsWith(m \div 10, n)
      BY <2>1, <2>3
    <3> QED BY <1>3, <3>1 DEF EndsWith
  <2>4. CASE k = 100
    <3>1. m \div 100 > 0 /\ EndsWith(m \div 100, n)
      BY <2>1, <2>4
    <3> QED BY <1>3, <3>1 DEF EndsWith
  <2> QED BY <2>2, <2>3, <2>4
<1>4. \A d, e \in Devices : HasDigits(d.dev, e.dev) => d.dev = e.dev
  <2> SUFFICES ASSUME NEW d \in Devices, NEW e \in Devices, HasDigits(d.dev, e.dev)
               PROVE  d.dev = e.dev
    OBVIOUS
  <2> DEFINE m == d.dev
             n == e.dev
  <2>1. m \in 0 .. 255 /\ n \in 0 .. 255 /\ m \in Dial .. Dial + 8 /\ n \in Dial .. Dial + 8
    BY <1>2
  <2> HIDE DEF m, n
  <2>2. m - n <= 8 /\ n - m <= 8
    BY <1>1, <2>1
  <2>3. HasDigits(m, n)
    BY DEF m, n
  <2>4. m = n
    BY <1>3, <2>1, <2>2, <2>3
  <2> QED BY <2>4 DEF m, n
<1>5. ASSUME NEW l \in Lamps PROVE ~ IsPir(l.dev)
  <2> DEFINE n == l.dev
  <2>1. n \in 0 .. 255 /\ n \in Dial .. Dial + DIMMER_CNT - 1
    BY DeviceKinds
  <2> HIDE DEF n
  <2>2. SUFFICES ASSUME NEW j \in 1 .. PIR_NUM, BeginsWith(Dial + DIMMER_CNT + j - 1, n)
                 PROVE  FALSE
    BY DEF IsPir, match_addr, n
  <2> DEFINE m == Dial + DIMMER_CNT + j - 1
  <2>3. m \in 0 .. 255 /\ m > n /\ m - n <= 8
    BY <1>1, <2>1
  <2> HIDE DEF m
  <2>4. PICK k \in {1, 10, 100} : m \div k = n /\ (k > 1 => n > 0)
    BY <2>2 DEF BeginsWith, m
  <2>5. CASE k = 1
    BY <2>1, <2>3, <2>4, <2>5
  <2>6. CASE k = 10
    BY <2>1, <2>3, <2>4, <2>6
  <2>7. CASE k = 100
    BY <2>1, <2>3, <2>4, <2>7
  <2> QED BY <2>5, <2>6, <2>7
<1> QED BY <1>4, <1>5 DEF NumbersApart

(* With so few modules, and as long as nothing is deleted, there is no lamp *)
(* that a scene sets and does not report.                                   *)
THEOREM GatewayHearsFew ==
  DIMMER_CNT + PIR_NUM <= 9 => (Spec => [](deletes = 0 => GatewaySeesSceneAlways))
<1> SUFFICES ASSUME DIMMER_CNT + PIR_NUM <= 9
             PROVE  Spec => [](deletes = 0 => GatewaySeesSceneAlways)
  OBVIOUS
<1>1. Init => RowsInv
  BY DEF Init, RowsInv, RowsStay
<1>2. IInv /\ RowsInv /\ [Next]_vars => RowsInv'
  <2> SUFFICES ASSUME IInv, RowsInv, [Next]_vars PROVE RowsInv'
    OBVIOUS
  <2>1. WorkerInv /\ MainInv /\ (truncated <=> worker = "rewrite")
    BY DEF IInv, TypeOK
  <2>2. /\ deletes' \in Nat /\ (deletes' = 0 => deletes = 0)
        /\ deletes' = 0 => worker' \notin {"delete", "rewrite"}
    BY <2>1, FileGrows
  <2>3. RowsStay'
    BY <2>1, NextRowsStay
  <2>4. deletes' = 0 => untold' = {}
    BY <2>1, <2>2, FewModulesApart, NextUntold DEF RowsInv
  <2> QED BY <2>2, <2>3, <2>4 DEF RowsInv
<1>3. RowsInv /\ GatewaySeesScene => (deletes = 0 => GatewaySeesSceneAlways)
  BY DEF RowsInv, GatewaySeesScene, GatewaySeesSceneAlways
<1> QED BY <1>1, <1>2, <1>3, Inductive, GatewayHears, PTL DEF Spec

--------------------------------------------------------------------------------
(* Scenes are those of SceneBook.                                           *)

(* A deletion finds the rows of its entry only: its module's number is not  *)
(* the end of another's, and its scene's not the beginning of another's.    *)
EntriesApart ==
  \A r \in Requests : r.cmd = "delete" =>
    \A row \in Row : Hits(row, r.device, r.scene) => IsOf(row, r.scene, r.device)

(* The levels of SceneBook: what each lamp will have at the end.            *)
Levels == [l \in Lamps |-> Final(l)]

(* A row more is a configuration of its entry.                              *)
LEMMA BookOfAppend ==
  ASSUME NEW text \in Seq(Row), NEW row \in Row
  PROVE  Book(Append(text, row)) = [Book(text) EXCEPT ![row.scene][row.device] = row.value]
<1> DEFINE more == Append(text, row)
<1>1. \A s, d : LastOf(more, s, d) = IF IsOf(row, s, d) THEN row.value ELSE LastOf(text, s, d)
  BY LastOfAppend
<1>2. row.scene \in Scenes /\ row.device \in Devices
  BY DEF Row
<1> HIDE DEF more
<1>3. Book(more) = [s \in Scenes |-> [d \in Devices |->
                      IF IsOf(row, s, d) THEN row.value ELSE LastOf(text, s, d)]]
  BY <1>1 DEF Book
<1> DEFINE B == [Book(text) EXCEPT ![row.scene][row.device] = row.value]
<1>4. B = [s \in Scenes |-> [d \in Devices |->
             IF IsOf(row, s, d) THEN row.value ELSE LastOf(text, s, d)]]
  BY <1>2 DEF Book, IsOf
<1> QED BY <1>3, <1>4 DEF more

(* Without the rows of an entry, the book is without the entry.             *)
LEMMA BookOfDeletion ==
  ASSUME EntriesApart, NEW text \in Seq(Row), NEW r \in Requests, r.cmd = "delete"
  PROVE  Book(Filter(text, Staying(r))) = [Book(text) EXCEPT ![r.scene][r.device] = NoEntry]
<1> DEFINE S == Staying(r)
           part == Filter(text, S)
<1>1. r.scene \in Scenes /\ r.device \in Devices
  BY RequestTypes
<1>2. LastOf(part, r.scene, r.device) = NoEntry
  BY DeletionDone
<1>3. ASSUME NEW s \in Scenes, NEW d \in Devices, ~ (s = r.scene /\ d = r.device)
      PROVE  LastOf(part, s, d) = LastOf(text, s, d)
  <2>1. \A row \in Row : IsOf(row, s, d) => row \in S
    BY <1>3 DEF EntriesApart, IsOf, Staying
  <2> HIDE DEF S
  <2> QED BY <2>1, LastOfFilter
<1> HIDE DEF part
<1>4. Book(part) = [s \in Scenes |-> [d \in Devices |->
                      IF s = r.scene /\ d = r.device THEN NoEntry ELSE LastOf(text, s, d)]]
  BY <1>2, <1>3 DEF Book
<1> DEFINE B == [Book(text) EXCEPT ![r.scene][r.device] = NoEntry]
<1>5. B = [s \in Scenes |-> [d \in Devices |->
             IF s = r.scene /\ d = r.device THEN NoEntry ELSE LastOf(text, s, d)]]
  BY <1>1 DEF Book
<1> QED BY <1>4, <1>5 DEF part

(* Elsewhere than at the rows of a scene the levels are the database's.     *)
LEMMA LevelsAtRest ==
  ASSUME main \notin {"apply", "off"}
  PROVE  Levels = [l \in Lamps |-> dimmer_db[l]]
BY DEF Levels, Final

(* What remains to be set, at a row and at the next.                        *)
LEMMA RestIs ==
  ASSUME para \in Seq(Row), i \in 1 .. Len(para)
  PROVE  /\ Rest \in Seq(Row) /\ Rest # <<>> /\ Head(Rest) = para[i]
         /\ SubSeq(para, i + 1, Len(para)) = Tail(Rest)
         /\ para[i] \in Row
<1>1. i \in Nat /\ Len(para) \in Nat /\ i <= Len(para) /\ i >= 1
  OBVIOUS
<1>2. Rest = SubSeq(para, i, Len(para))
  BY DEF Rest
<1> DEFINE t == SubSeq(para, i, Len(para))
           u == SubSeq(para, i + 1, Len(para))
<1>3. /\ t \in Seq(Row) /\ Len(t) = Len(para) - i + 1
      /\ \A k \in 1 .. Len(para) - i + 1 : t[k] = para[i + k - 1]
  BY <1>1
<1>4. /\ u \in Seq(Row) /\ Len(u) = Len(para) - i
      /\ \A k \in 1 .. Len(para) - i : u[k] = para[i + k]
  BY <1>1
<1> HIDE DEF t, u
<1>5. t # <<>> /\ Head(t) = para[i]
  <2>1. 1 \in 1 .. Len(para) - i + 1 /\ i + 1 - 1 = i
    BY <1>1
  <2> QED BY <1>3, <2>1
<1>6. u = Tail(t)
  <2>1. /\ Tail(t) \in Seq(Row) /\ Len(Tail(t)) = Len(para) - i
        /\ \A k \in 1 .. Len(para) - i : Tail(t)[k] = t[k + 1]
    BY <1>1, <1>3, <1>5
  <2>2. \A k \in 1 .. Len(para) - i : k + 1 \in 1 .. Len(para) - i + 1 /\ i + (k + 1) - 1 = i + k
    BY <1>1
  <2>3. \A k \in 1 .. Len(para) - i : Tail(t)[k] = u[k]
    BY <1>3, <1>4, <2>1, <2>2
  <2> DEFINE a == Tail(t)
  <2>4. a \in Seq(Row) /\ u \in Seq(Row) /\ Len(a) = Len(u) /\ \A k \in 1 .. Len(u) : a[k] = u[k]
    BY <1>4, <2>1, <2>3
  <2> HIDE DEF a
  <2>5. u = a
    BY <2>4
  <2> QED BY <2>5 DEF a
<1> QED BY <1>2, <1>3, <1>5, <1>6 DEF t, u

(* A row that is handled leaves the levels as they were to be.              *)
LEMMA RowsKeepLevels ==
  ASSUME MainInv, DataTypes, ApplyLamp \/ ApplySensor \/ OffRow
  PROVE  Levels' = Levels
<1>0. /\ para \in Seq(Row) /\ i \in Nat /\ Len(para) \in Nat /\ DOMAIN para = 1 .. Len(para)
      /\ dimmer_db \in [Lamps -> 0 .. 100]
  BY DEF MainInv, DataTypes
<1>1. /\ main \in {"apply", "off"} /\ i <= Len(para) /\ i' = i + 1
      /\ UNCHANGED <<main, job, para>>
  BY DEF ApplyLamp, ApplySensor, OffRow
<1>2. i \in 1 .. Len(para)
  BY <1>0, <1>1 DEF MainInv
<1> DEFINE row == para[i]
           s == job.scene
<1>3. /\ Rest \in Seq(Row) /\ Rest # <<>> /\ Head(Rest) = row
      /\ Rest' = Tail(Rest) /\ row \in Row
  <2>1. Rest' = SubSeq(para, i + 1, Len(para))
    BY <1>1 DEF Rest
  <2> QED BY <1>0, <1>2, <2>1, RestIs
<1>4. row.scene = s /\ row.value # NoEntry
  <2>1. row.scene = s
    BY <1>0, <1>1, <1>2 DEF MainInv
  <2>2. row.value # NoEntry
    BY <1>0, <1>2, EntryIsValue
  <2> QED BY <2>1, <2>2
<1>5. ASSUME NEW l \in Lamps PROVE Final(l)' = Final(l)
  <2> DEFINE t == Rest
             later == LastOf(Tail(t), s, l)
  <2>1. LastOf(t, s, l) = IF later # NoEntry THEN later
                          ELSE IF IsOf(Head(t), s, l) THEN Head(t).value ELSE NoEntry
    <3>1. t \in Seq(Row) /\ t # <<>>
      BY <1>3
    <3> HIDE DEF t, s
    <3> QED BY <3>1, LastOfTail
  <2>2. IsOf(Head(t), s, l) <=> row.device = l
    BY <1>3, <1>4 DEF IsOf
  <2>3. LastOf(t, s, l) = IF later # NoEntry THEN later
                          ELSE IF row.device = l THEN row.value ELSE NoEntry
    BY <1>3, <2>1, <2>2
  <2>4. Final(l) = IF LastOf(t, s, l) = NoEntry THEN dimmer_db[l]
                   ELSE IF main = "off" THEN 0 ELSE LastOf(t, s, l)
    BY <1>1 DEF Final
  <2>5. Final(l)' = IF later = NoEntry THEN dimmer_db'[l]
                    ELSE IF main = "off" THEN 0 ELSE later
    BY <1>1, <1>3 DEF Final
  <2>6. CASE later # NoEntry
    BY <2>3, <2>4, <2>5, <2>6
  <2>7. CASE later = NoEntry
    <3>1. dimmer_db'[l] = IF row.device # l THEN dimmer_db[l]
                          ELSE IF main = "off" THEN 0 ELSE row.value
      <4>1. CASE ApplyLamp
        BY <1>0, <4>1 DEF ApplyLamp
      <4>2. CASE ApplySensor
        <5>1. UNCHANGED dimmer_db /\ ~ IsDimmer(row.device.dev)
          BY <4>2 DEF ApplySensor, lamp_db
        <5>2. row.device # l
          BY <5>1, DeviceKinds
        <5> QED BY <5>1, <5>2
      <4>3. CASE OffRow
        <5>1. /\ main = "off"
              /\ dimmer_db' = [k \in Lamps |-> IF k = row.device THEN 0 ELSE dimmer_db[k]]
          BY <4>3 DEF OffRow
        <5> HIDE DEF row
        <5> QED BY <5>1
      <4> QED BY <4>1, <4>2, <4>3
    <3> HIDE DEF row, t, later, s
    <3> QED BY <1>4, <2>3, <2>4, <2>5, <2>7, <3>1
  <2> QED BY <2>6, <2>7
<1> QED BY <1>5 DEF Levels

(* When a scene is found, the levels to be set are those of its entries; of *)
(* a file that is being rewritten, none.                                    *)
LEMMA MatchSetsLevels ==
  ASSUME MainInv, scene_txt \in Seq(Row), match_dimmer_scene
  PROVE  \/ Levels' = Levels
         \/ Levels' = [l \in Lamps |->
                         IF LastOf(scene_txt, job.scene, l) = NoEntry THEN dimmer_db[l]
                         ELSE IF job.off THEN 0 ELSE LastOf(scene_txt, job.scene, l)]
<1> DEFINE s == job.scene
           S == [device : Devices, scene : {s}, value : Values,
                  delay : Delays]
<1>1. /\ main = "match" /\ para' = RowsOf(Visible, s) /\ i' = 1
      /\ main' = IF job.off THEN "off" ELSE "apply"
      /\ UNCHANGED <<job, dimmer_db>>
  BY DEF match_dimmer_scene, dbs, lamp_db
<1>2. para' \in Seq(Row) /\ Visible \in Seq(Row)
  BY <1>1, RowsFound
<1>3. Rest' = para'
  <2>1. Rest' = SubSeq(para', 1, Len(para'))
    BY <1>1 DEF Rest
  <2> QED BY <1>2, <2>1
<1>4. \A d : LastOf(para', s, d) = LastOf(Visible, s, d)
  <2>1. \A d : \A row \in Row : IsOf(row, s, d) => row \in S
    BY DEF Row, IsOf
  <2>2. para' = Filter(Visible, S)
    BY <1>1 DEF RowsOf
  <2> HIDE DEF S, s
  <2> QED BY <1>2, <2>1, <2>2, LastOfFilter
<1>5. \A l \in Lamps : Final(l)' = IF LastOf(Visible, s, l) = NoEntry THEN dimmer_db[l]
                                   ELSE IF job.off THEN 0 ELSE LastOf(Visible, s, l)
  <2>1. SUFFICES ASSUME NEW l \in Lamps
                 PROVE  Final(l)' = IF LastOf(Visible, s, l) = NoEntry THEN dimmer_db[l]
                                    ELSE IF job.off THEN 0 ELSE LastOf(Visible, s, l)
    OBVIOUS
  <2>2. /\ main' \in {"apply", "off"} /\ (main' = "off" <=> job.off)
        /\ job' = job /\ dimmer_db' = dimmer_db
    BY <1>1
  <2>3. LastOf(Rest', job.scene, l) = LastOf(Visible, s, l)
    BY <1>3, <1>4
  <2> HIDE DEF s
  <2> QED BY <2>2, <2>3 DEF Final
<1>6. CASE ~ truncated
  <2>1. Visible = scene_txt
    BY <1>6 DEF Visible
  <2> QED BY <1>5, <2>1 DEF Levels
<1>7. CASE truncated
  <2> DEFINE e == <<>>
  <2>1. Visible = e /\ e \in Seq(Row) /\ \A k \in 1 .. Len(e) : FALSE
    BY <1>7 DEF Visible
  <2> HIDE DEF e
  <2>2. \A l \in Lamps : LastOf(Visible, s, l) = NoEntry
    BY <2>1, LastOfNone
  <2>3. Levels' = [l \in Lamps |-> dimmer_db[l]]
    BY <1>5, <2>2 DEF Levels
  <2>4. Levels = [l \in Lamps |-> dimmer_db[l]]
    BY <1>1, LevelsAtRest
  <2> QED BY <2>3, <2>4
<1> QED BY <1>6, <1>7

(* A step is a step of SceneBook, or is not seen there.                     *)
LEMMA SceneBookStep ==
  ASSUME EntriesApart, WorkerInv, MainInv, DataTypes, [Next]_vars
  PROVE  [Promise!Next]_Promise!vars
<1>0. /\ scene_txt \in Seq(Row) /\ kept \in Seq(Row) /\ para \in Seq(Row)
      /\ dimmer_db \in [Lamps -> 0 .. 100]
      /\ i \in Nat /\ Len(para) \in Nat
  <2>1. scene_txt \in Seq(Row) /\ kept \in Seq(Row) /\ dimmer_db \in [Lamps -> 0 .. 100]
    BY DEF WorkerInv, DataTypes
  <2>2. para \in Seq(Row) /\ i \in Nat
    BY DEF MainInv
  <2>3. Len(para) \in Nat
    BY <2>2
  <2> QED BY <2>1, <2>2, <2>3
<1>1. ASSUME UNCHANGED Book(scene_txt), UNCHANGED Levels
      PROVE  [Promise!Next]_Promise!vars
  BY <1>1 DEF Promise!vars, Levels
<1>2. ASSUME UNCHANGED scene_txt PROVE UNCHANGED Book(scene_txt)
  BY <1>2 DEF Book
<1>3. ASSUME UNCHANGED <<main, job, para, i, dimmer_db>> PROVE UNCHANGED Levels
  BY <1>3 DEF Levels, Final, Rest
<1>4. CASE get_valid_cbus_data \/ RecordBrightness \/ CopyRows \/ QueueFrame \/ Reply
  <2>1. UNCHANGED scene_txt
    BY <1>4 DEF get_valid_cbus_data, RecordBrightness, CopyRows, QueueFrame, Reply, files
  <2>2. UNCHANGED <<main, job, para, i, dimmer_db>>
    BY <1>4, OthersKeepMain DEF data_to_other_thread
  <2> QED BY <1>1, <1>2, <1>3, <2>1, <2>2
<1>5. CASE save_scene_para
  <2>1. worker = "append" /\ scene_txt' = Append(scene_txt, RowFor(frame))
    BY <1>5 DEF save_scene_para, RowFor
  <2>2. UNCHANGED Levels
    BY <1>3, <1>5, OthersKeepMain DEF data_to_other_thread
  <2>3. frame \in Requests
    BY <2>1 DEF WorkerInv
  <2>4. /\ frame.scene \in Scenes /\ frame.device \in Devices /\ frame.value \in Values
        /\ RowFor(frame) \in Row
    BY <2>3, RequestTypes
  <2>5. Book(scene_txt') = [Book(scene_txt) EXCEPT ![RowFor(frame).scene][RowFor(frame).device]
                              = RowFor(frame).value]
    BY <1>0, <2>1, <2>4, BookOfAppend
  <2>6. Book(scene_txt') = [Book(scene_txt) EXCEPT ![frame.scene][frame.device] = frame.value]
    BY <2>5 DEF RowFor
  <2>7. Promise!Configure(frame.scene, frame.device, frame.value)
    BY <2>2, <2>6 DEF Promise!Configure, Levels
  <2>8. CASE Book(scene_txt') = Book(scene_txt)
    BY <1>1, <2>2, <2>8
  <2>9. CASE Book(scene_txt') # Book(scene_txt)
    BY <2>4, <2>7, <2>9 DEF Promise!Next, Promise!Devices, Devices
  <2> QED BY <2>8, <2>9
<1>6. CASE RewriteRows
  <2>1. worker = "rewrite" /\ scene_txt' = kept
    BY <1>6 DEF RewriteRows
  <2>2. UNCHANGED Levels
    BY <1>3, <1>6, OthersKeepMain DEF data_to_other_thread
  <2>3. frame \in Requests /\ frame.cmd = "delete" /\ kept = Filter(scene_txt, Staying(frame))
    BY <2>1 DEF WorkerInv
  <2>4. frame.scene \in Scenes /\ frame.device \in Devices
    BY <2>3, RequestTypes
  <2>5. Book(scene_txt') = [Book(scene_txt) EXCEPT ![frame.scene][frame.device] = NoEntry]
    BY <1>0, <2>1, <2>3, BookOfDeletion
  <2>6. Promise!Delete(frame.scene, frame.device)
    BY <2>2, <2>5 DEF Promise!Delete, Levels
  <2>7. CASE Book(scene_txt') = Book(scene_txt)
    BY <1>1, <2>2, <2>7
  <2>8. CASE Book(scene_txt') # Book(scene_txt)
    BY <2>4, <2>6, <2>8 DEF Promise!Next, Promise!Devices, Devices
  <2> QED BY <2>7, <2>8
<1>7. CASE \/ data_to_clo_thread \/ trans_serial_write \/ Wake \/ general_serial_write
           \/ UNCHANGED vars
  BY <1>1, <1>2, <1>3, <1>7, OthersKeepWorker, OthersKeepMain
<1>8. CASE get_handle
  <2>1. UNCHANGED Book(scene_txt)
    BY <1>2, <1>8, OthersKeepWorker
  <2>2. CASE match_dimmer_scene
    <3>1. main = "match"
      BY <2>2 DEF match_dimmer_scene
    <3>2. job \in Job
      BY <3>1 DEF MainInv
    <3>3. job.scene \in Scenes /\ job.off \in BOOLEAN
      BY <3>2 DEF Job
    <3>4. Levels = [l \in Lamps |-> dimmer_db[l]]
      BY <3>1, LevelsAtRest
    <3>5. CASE Levels' = Levels
      BY <1>1, <2>1, <3>5
    <3>6. CASE /\ Levels' # Levels
               /\ Levels' = [l \in Lamps |->
                     IF LastOf(scene_txt, job.scene, l) = NoEntry THEN dimmer_db[l]
                     ELSE IF job.off THEN 0 ELSE LastOf(scene_txt, job.scene, l)]
      <4>1. \A l \in Lamps : Book(scene_txt)[job.scene][l] = LastOf(scene_txt, job.scene, l)
        BY <3>3 DEF Book, Devices
      <4>2. \A l \in Lamps : Levels[l] = dimmer_db[l]
        BY <3>4
      <4>3. Levels' = [l \in Lamps |->
              IF Book(scene_txt)[job.scene][l] = NoEntry THEN Levels[l]
              ELSE IF job.off THEN 0 ELSE Book(scene_txt)[job.scene][l]]
        BY <3>6, <4>1, <4>2
      <4>4. CASE job.off
        <5>1. Levels' = [l \in Lamps |->
                IF Book(scene_txt)[job.scene][l] = NoEntry THEN Levels[l] ELSE 0]
          BY <4>3, <4>4
        <5>2. Promise!SwitchOff(job.scene)
          BY <2>1, <5>1 DEF Promise!SwitchOff, Levels
        <5> QED BY <3>3, <3>6, <5>2 DEF Promise!Next, Levels
      <4>5. CASE ~ job.off
        <5>1. Levels' = [l \in Lamps |->
                IF Book(scene_txt)[job.scene][l] = NoEntry THEN Levels[l]
                ELSE Book(scene_txt)[job.scene][l]]
          BY <4>3, <4>5
        <5>2. Promise!Recall(job.scene)
          BY <2>1, <5>1 DEF Promise!Recall, Levels
        <5> QED BY <3>3, <3>6, <5>2 DEF Promise!Next, Levels
      <4> QED BY <4>4, <4>5
    <3> QED BY <1>0, <2>2, <3>5, <3>6, MatchSetsLevels
  <2>3. CASE ApplyLamp \/ ApplySensor \/ OffRow
    BY <1>1, <2>1, <2>3, RowsKeepLevels
  <2>4. CASE SendRows
    <3>1. /\ main \in {"apply", "off"} /\ i > Len(para) /\ main' = "again"
          /\ UNCHANGED dimmer_db
      BY <2>4 DEF SendRows, dbs, lamp_db
    <3>2. i = Len(para) + 1
      BY <1>0, <3>1 DEF MainInv
    <3> DEFINE e == <<>>
    <3>3. Rest = e /\ e \in Seq(Row) /\ \A k \in 1 .. Len(e) : FALSE
      BY <1>0, <3>2 DEF Rest
    <3> HIDE DEF e
    <3>4. \A l \in Lamps : LastOf(Rest, job.scene, l) = NoEntry
      BY <3>3, LastOfNone
    <3>5. Levels = [l \in Lamps |-> dimmer_db[l]]
      BY <3>4 DEF Levels, Final
    <3>6. Levels' = [l \in Lamps |-> dimmer_db[l]]
      BY <3>1 DEF Levels, Final
    <3> QED BY <1>1, <2>1, <3>5, <3>6
  <2>5. CASE \/ TakeFrame \/ NoFrame \/ TakeEvent \/ NoEvent \/ MatchAgain
             \/ scene_control_feedback
    <3>1. /\ main \notin {"apply", "off"} /\ main' \notin {"apply", "off"}
          /\ UNCHANGED dimmer_db
      BY <2>5 DEF TakeFrame, NoFrame, TakeEvent, NoEvent, MatchAgain,
                  scene_control_feedback, dbs, lamp_db
    <3>2. UNCHANGED Levels
      BY <3>1 DEF Levels, Final
    <3> QED BY <1>1, <2>1, <3>2
  <2> QED BY <1>8, <2>2, <2>3, <2>4, <2>5 DEF get_handle
<1> QED BY <1>4, <1>5, <1>6, <1>7, <1>8 DEF Next, data_to_other_thread

(* A configuration stores or replaces its entry in one step, a deletion     *)
(* removes it in one step, and a scene is applied as a whole, as it was     *)
(* stored when its rows were read; the rewriting of the file, the rows a    *)
(* device has more than once, the queues and the feedback are not seen.     *)
THEOREM SceneBookRefinement == EntriesApart => (Spec => ImplementsSceneBook)
<1> SUFFICES ASSUME EntriesApart PROVE Spec => ImplementsSceneBook
  OBVIOUS
<1>1. Init => Promise!Init
  <2> SUFFICES ASSUME Init PROVE Promise!Init
    OBVIOUS
  <2>1. scene_txt = Stored /\ main = "clowire" /\ dimmer_db = StoredLevel
    BY DEF Init
  <2>2. Levels = [l \in Lamps |-> dimmer_db[l]]
    BY <2>1, LevelsAtRest
  <2>3. StoredLevel = [l \in Lamps |-> StoredLevel[l]]
    <3>1. StoredLevel \in [Lamps -> 0 .. 100]
      BY ConstantTypes
    <3> QED BY <3>1
  <2> QED BY <2>1, <2>2, <2>3 DEF Promise!Init, Levels
<1>2. IInv /\ [Next]_vars => [Promise!Next]_Promise!vars
  <2> SUFFICES ASSUME IInv, [Next]_vars PROVE [Promise!Next]_Promise!vars
    OBVIOUS
  <2>1. WorkerInv /\ MainInv /\ DataTypes
    BY DEF IInv, TypeOK, DataTypes
  <2> QED BY <2>1, SceneBookStep
<1> QED BY <1>1, <1>2, Inductive, PTL DEF Spec, ImplementsSceneBook, Promise!Spec

================================================================================
