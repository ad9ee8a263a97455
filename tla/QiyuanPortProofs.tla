---------------------------- MODULE QiyuanPortProofs ----------------------------
(****************************************************************************)
(* Theorems about QiyuanPort, for any lamps, rows, threads and arrivals.    *)
(* First how the part of the queue that is commands changes when a row is   *)
(* put in or taken out, by induction over its length; then the inductive    *)
(* invariant, and that the port does what DelayedLamps says.                *)
(****************************************************************************)
EXTENDS QiyuanPort, WellFoundedInduction, TLAPS

--------------------------------------------------------------------------------
(* Loops over sequences.                                                    *)

(* Induction over the numbers, for a set of them.                           *)
LEMMA SetInduction ==
  ASSUME NEW S, 0 \in S, \A n \in Nat : n \in S => n + 1 \in S
  PROVE  Nat \subseteq S
<1> DEFINE T == {n \in Nat : n \notin S}
<1> SUFFICES ASSUME T # {} PROVE FALSE
  OBVIOUS
<1>1. IsWellFoundedOn(OpToRel(<, Nat), Nat)
  BY NatLessThanWellFounded
<1>2. T \subseteq Nat
  OBVIOUS
<1> HIDE DEF T
<1>3. \E m \in T : \A k \in T : ~ (<<k, m>> \in OpToRel(<, Nat))
  BY <1>1, <1>2, WFMin
<1>4. PICK m \in T : \A k \in T : ~ (k < m)
  BY <1>2, <1>3 DEF OpToRel
<1>5. m # 0 /\ m - 1 \in Nat /\ (m - 1) + 1 = m
  BY DEF T
<1>6. m - 1 \in S
  BY <1>4, <1>5 DEF T
<1> QED BY <1>5, <1>6 DEF T

(* f has the results of a loop of N rounds, of which round n is h[n].       *)
Results(f, N, first, h) == f[0] = first /\ \A n \in 1 .. N : f[n] = h[n][f[n - 1]]

(* A loop of N rounds, which go from one element of D to another, has a     *)
(* result after each of them.                                               *)
LEMMA LoopResults ==
  ASSUME NEW N \in Nat, NEW D, NEW d0 \in D, NEW h \in [1 .. N -> [D -> D]]
  PROVE  \E f \in [0 .. N -> D] : Results(f, N, d0, h)
<1> DEFINE Upto(m) == \E f \in [0 .. m -> D] :
             \A n \in 0 .. m : f[n] = IF n = 0 THEN d0 ELSE h[n][f[n - 1]]
           T == {m \in Nat : m <= N => Upto(m)}
<1>1. 0 \in T
  <2> DEFINE f == [n \in 0 .. 0 |-> d0]
  <2>1. f \in [0 .. 0 -> D]
    OBVIOUS
  <2>2. \A n \in 0 .. 0 : n = 0 /\ f[n] = d0
    OBVIOUS
  <2> HIDE DEF f
  <2>3. Upto(0)
    BY <2>1, <2>2
  <2> QED BY <2>3
<1>2. ASSUME NEW m \in Nat, m \in T PROVE m + 1 \in T
  <2> SUFFICES ASSUME m + 1 <= N PROVE Upto(m + 1)
    OBVIOUS
  <2>1. PICK f \in [0 .. m -> D] :
          \A n \in 0 .. m : f[n] = IF n = 0 THEN d0 ELSE h[n][f[n - 1]]
    BY <1>2
  <2> DEFINE g == [n \in 0 .. m + 1 |-> IF n = m + 1 THEN h[m + 1][f[m]] ELSE f[n]]
  <2>2. m + 1 \in 1 .. N /\ f[m] \in D
    OBVIOUS
  <2>3. h[m + 1][f[m]] \in D
    BY <2>2
  <2>4. g \in [0 .. m + 1 -> D]
    BY <2>3
  <2>5. ASSUME NEW n \in 0 .. m + 1
        PROVE  g[n] = IF n = 0 THEN d0 ELSE h[n][g[n - 1]]
    <3>1. CASE n = m + 1
      <4>1. n # 0 /\ n - 1 = m /\ m \in 0 .. m + 1 /\ m # m + 1
        BY <3>1
      <4> QED BY <3>1, <4>1
    <3>2. CASE n \in 0 .. m
      <4>1. n # m + 1 /\ (n # 0 => n - 1 \in 0 .. m /\ n - 1 # m + 1)
        BY <3>2
      <4>2. g[n] = f[n] /\ (n # 0 => g[n - 1] = f[n - 1])
        BY <4>1
      <4> HIDE DEF g
      <4> QED BY <2>1, <3>2, <4>2
    <3> QED BY <3>1, <3>2
  <2> QED BY <2>4, <2>5
<1> HIDE DEF T
<1>3. Nat \subseteq T
  BY <1>1, <1>2, SetInduction
<1>4. Upto(N)
  BY <1>3 DEF T
<1>5. PICK f \in [0 .. N -> D] :
        \A n \in 0 .. N : f[n] = IF n = 0 THEN d0 ELSE h[n][f[n - 1]]
  BY <1>4
<1>6. f[0] = d0 /\ \A n \in 1 .. N : f[n] = h[n][f[n - 1]]
  <2>1. 0 \in 0 .. N /\ \A n \in 1 .. N : n \in 0 .. N /\ n # 0
    OBVIOUS
  <2> QED BY <1>5, <2>1
<1> QED BY <1>6 DEF Results

(* The loop of Filter, round by round.                                      *)
LEMMA KeptRounds ==
  ASSUME NEW T, NEW s \in Seq(T), NEW S
  PROVE  /\ Kept(s, S) \in [0 .. Len(s) -> Seq(T)]
         /\ Kept(s, S)[0] = <<>>
         /\ \A n \in 1 .. Len(s) :
              Kept(s, S)[n] = IF s[n] \in S THEN Append(Kept(s, S)[n - 1], s[n])
                              ELSE Kept(s, S)[n - 1]
<1> DEFINE h == [n \in 1 .. Len(s) |->
                   [x \in Seq(T) |-> IF s[n] \in S THEN Append(x, s[n]) ELSE x]]
           Round(f) == [n \in 0 .. Len(s) |->
                          IF n = 0 THEN <<>>
                          ELSE IF s[n] \in S THEN Append(f[n - 1], s[n]) ELSE f[n - 1]]
<1>0. Len(s) \in Nat /\ <<>> \in Seq(T)
  OBVIOUS
<1>1. h \in [1 .. Len(s) -> [Seq(T) -> Seq(T)]]
  OBVIOUS
<1>2. \A n \in 1 .. Len(s), x \in Seq(T) :
        h[n][x] = IF s[n] \in S THEN Append(x, s[n]) ELSE x
  OBVIOUS
<1> HIDE DEF h
<1>3. PICK f \in [0 .. Len(s) -> Seq(T)] : Results(f, Len(s), <<>>, h)
  <2> DEFINE D == Seq(T)
             N == Len(s)
             e == <<>>
  <2>1. N \in Nat /\ e \in D /\ h \in [1 .. N -> [D -> D]]
    BY <1>0, <1>1
  <2> HIDE DEF D, N, e
  <2>2. \E f \in [0 .. N -> D] : Results(f, N, e, h)
    BY <2>1, LoopResults
  <2> QED BY <2>2 DEF D, N, e
<1>4. ASSUME NEW n \in 0 .. Len(s)
      PROVE  f[n] = IF n = 0 THEN <<>>
                    ELSE IF s[n] \in S THEN Append(f[n - 1], s[n]) ELSE f[n - 1]
  <2>1. CASE n = 0
    BY <1>3, <2>1 DEF Results
  <2>2. CASE n # 0
    <3>1. n \in 1 .. Len(s) /\ f[n - 1] \in Seq(T)
      BY <2>2
    <3> QED BY <1>2, <1>3, <2>2, <3>1 DEF Results
  <2> QED BY <2>1, <2>2
<1>5. f = Round(f)
  BY <1>4
<1>6. Kept(s, S) = CHOOSE part : part = Round(part)
  BY DEF Kept
<1>7. Kept(s, S) = Round(Kept(s, S))
  <2> HIDE DEF Round
  <2> QED BY <1>5, <1>6
<1> DEFINE k == Kept(s, S)
<1> HIDE DEF k
<1>8. /\ DOMAIN k = 0 .. Len(s)
      /\ \A n \in 0 .. Len(s) :
           k[n] = IF n = 0 THEN <<>>
                  ELSE IF s[n] \in S THEN Append(k[n - 1], s[n]) ELSE k[n - 1]
      /\ k = [n \in 0 .. Len(s) |-> k[n]]
  <2>1. k = Round(k)
    BY <1>7 DEF k
  <2>2. k = [n \in 0 .. Len(s) |->
               IF n = 0 THEN <<>>
               ELSE IF s[n] \in S THEN Append(k[n - 1], s[n]) ELSE k[n - 1]]
    BY <2>1
  <2> HIDE DEF Round
  <2>3. /\ DOMAIN k = 0 .. Len(s)
        /\ \A n \in 0 .. Len(s) :
           k[n] = IF n = 0 THEN <<>>
                  ELSE IF s[n] \in S THEN Append(k[n - 1], s[n]) ELSE k[n - 1]
    BY ONLY <2>2
  <2>4. k = [n \in 0 .. Len(s) |-> k[n]]
    BY <2>2
  <2> QED BY <2>3, <2>4
<1> DEFINE A == {n \in Nat : n <= Len(s) => k[n] \in Seq(T)}
<1>9. 0 \in A
  BY <1>0, <1>8, SMTT(30)
<1>10. ASSUME NEW n \in Nat, n \in A PROVE n + 1 \in A
  <2> SUFFICES ASSUME n + 1 <= Len(s) PROVE k[n + 1] \in Seq(T)
    OBVIOUS
  <2>1. n + 1 \in 1 .. Len(s) /\ n + 1 # 0 /\ (n + 1) - 1 = n /\ k[n] \in Seq(T)
    BY <1>0, <1>10
  <2>2. k[n + 1] = IF s[n + 1] \in S THEN Append(k[n], s[n + 1]) ELSE k[n]
    <3>1. n + 1 \in 0 .. Len(s)
      BY <2>1
    <3> QED BY <1>8, <2>1, <3>1
  <2>3. s[n + 1] \in T
    BY <2>1
  <2> QED BY <2>1, <2>2, <2>3
<1>11. Nat \subseteq A
  <2> HIDE DEF A
  <2> QED BY <1>9, <1>10, SetInduction
<1>12. k \in [0 .. Len(s) -> Seq(T)]
  <2>1. \A n \in 0 .. Len(s) : k[n] \in Seq(T)
    BY <1>0, <1>11
  <2> QED BY <1>8, <2>1
<1>13. k[0] = <<>>
  <2>1. 0 \in 0 .. Len(s)
    BY <1>0
  <2> QED BY <1>8, <2>1
<1>15. \A n \in 1 .. Len(s) : n \in 0 .. Len(s) /\ n # 0
  BY <1>0
<1>14. \A n \in 1 .. Len(s) : k[n] = IF s[n] \in S THEN Append(k[n - 1], s[n]) ELSE k[n - 1]
  BY <1>8, <1>15
<1> QED BY <1>12, <1>13, <1>14 DEF k

(* What is kept of the first rows does not depend on the row that follows.  *)
LEMMA KeptAppend ==
  ASSUME NEW T, NEW q \in Seq(T), NEW r \in T, NEW S, NEW m \in 0 .. Len(q)
  PROVE  Kept(Append(q, r), S)[m] = Kept(q, S)[m]
<1> DEFINE p == Append(q, r)
           f == Kept(p, S)
           g == Kept(q, S)
           A == {n \in Nat : n <= Len(q) => f[n] = g[n]}
<1>1. p \in Seq(T) /\ Len(q) \in Nat /\ Len(p) = Len(q) + 1
      /\ \A n \in 1 .. Len(q) : p[n] = q[n]
  OBVIOUS
<1> HIDE DEF p
<1>2. f[0] = <<>> /\ \A n \in 1 .. Len(p) :
        f[n] = IF p[n] \in S THEN Append(f[n - 1], p[n]) ELSE f[n - 1]
  BY <1>1, KeptRounds
<1>3. g[0] = <<>> /\ \A n \in 1 .. Len(q) :
        g[n] = IF q[n] \in S THEN Append(g[n - 1], q[n]) ELSE g[n - 1]
  BY KeptRounds
<1> HIDE DEF f, g
<1>4. 0 \in A
  BY <1>2, <1>3
<1>5. ASSUME NEW n \in Nat, n \in A PROVE n + 1 \in A
  <2> SUFFICES ASSUME n + 1 <= Len(q) PROVE f[n + 1] = g[n + 1]
    OBVIOUS
  <2>1. n + 1 \in 1 .. Len(q) /\ n + 1 \in 1 .. Len(p) /\ (n + 1) - 1 = n /\ f[n] = g[n]
    BY <1>1, <1>5
  <2>2. f[n + 1] = IF p[n + 1] \in S THEN Append(f[n], p[n + 1]) ELSE f[n]
    BY <1>2, <2>1
  <2>3. g[n + 1] = IF q[n + 1] \in S THEN Append(g[n], q[n + 1]) ELSE g[n]
    BY <1>3, <2>1
  <2>4. p[n + 1] = q[n + 1]
    BY <1>1, <2>1
  <2> QED BY <2>1, <2>2, <2>3, <2>4
<1> HIDE DEF A
<1>6. m \in A
  BY <1>1, <1>4, <1>5, SetInduction, SMTT(30)
<1> QED BY <1>6 DEF A, f, g, p

(* A row that is put in follows what is kept, if it is kept itself.         *)
LEMMA FilterAppend ==
  ASSUME NEW T, NEW q \in Seq(T), NEW r \in T, NEW S
  PROVE  Filter(Append(q, r), S) =
           IF r \in S THEN Append(Filter(q, S), r) ELSE Filter(q, S)
<1> DEFINE p == Append(q, r)
<1>1. p \in Seq(T) /\ Len(q) \in Nat /\ Len(p) = Len(q) + 1 /\ p[Len(q) + 1] = r
  OBVIOUS
<1>2. Kept(p, S)[Len(q)] = Kept(q, S)[Len(q)]
  <2>1. Len(q) \in 0 .. Len(q)
    BY <1>1
  <2> QED BY <2>1, KeptAppend
<1> HIDE DEF p
<1>3. Len(p) \in 1 .. Len(p) /\ Len(p) - 1 = Len(q) /\ p[Len(p)] = r
  BY <1>1
<1>4. Kept(p, S)[Len(p)] = IF p[Len(p)] \in S THEN Append(Kept(p, S)[Len(p) - 1], p[Len(p)])
                           ELSE Kept(p, S)[Len(p) - 1]
  BY <1>1, <1>3, KeptRounds
<1>5. Filter(p, S) = IF r \in S THEN Append(Filter(q, S), r) ELSE Filter(q, S)
  BY <1>2, <1>3, <1>4 DEF Filter
<1> QED BY <1>5 DEF p

(* Nothing is kept of nothing.                                              *)
LEMMA FilterNothing ==
  ASSUME NEW T, NEW q \in Seq(T), NEW S
  PROVE  Len(q) = 0 => Filter(q, S) = <<>>
<1> DEFINE f == Kept(q, S)
<1>1. f[0] = <<>> /\ \A n \in 1 .. Len(q) :
        f[n] = IF q[n] \in S THEN Append(f[n - 1], q[n]) ELSE f[n - 1]
  BY KeptRounds
<1> QED BY <1>1 DEF Filter

(* What is kept of the first row.                                           *)
First(q, S) == IF Head(q) \in S THEN <<Head(q)>> ELSE <<>>

(* What is kept begins with the first row, if that is kept.                 *)
LEMMA KeptTail ==
  ASSUME NEW T, NEW q \in Seq(T), q # <<>>, NEW S, NEW m \in 0 .. Len(Tail(q))
  PROVE  Kept(q, S)[m + 1] = First(q, S) \o Kept(Tail(q), S)[m]
<1> DEFINE p == Tail(q)
           f == Kept(q, S)
           g == Kept(p, S)
           A == {n \in Nat : n <= Len(p) => f[n + 1] = First(q, S) \o g[n]}
<1>1. p \in Seq(T) /\ Len(p) \in Nat /\ Len(q) = Len(p) + 1 /\ Head(q) \in T
      /\ Head(q) = q[1] /\ \A n \in 1 .. Len(p) : p[n] = q[n + 1]
  OBVIOUS
<1> HIDE DEF p
<1>2. f[0] = <<>> /\ \A n \in 1 .. Len(q) :
        f[n] = IF q[n] \in S THEN Append(f[n - 1], q[n]) ELSE f[n - 1]
  BY KeptRounds
<1>3. g \in [0 .. Len(p) -> Seq(T)] /\ g[0] = <<>> /\ \A n \in 1 .. Len(p) :
        g[n] = IF p[n] \in S THEN Append(g[n - 1], p[n]) ELSE g[n - 1]
  BY <1>1, KeptRounds
<1>4. First(q, S) \in Seq(T)
  BY <1>1 DEF First
<1> HIDE DEF f, g
<1>5. 0 \in A
  <2>1. 1 \in 1 .. Len(q) /\ 0 + 1 = 1 /\ 1 - 1 = 0
    BY <1>1
  <2>2. f[1] = IF Head(q) \in S THEN Append(<<>>, Head(q)) ELSE <<>>
    BY <1>1, <1>2, <2>1
  <2>3. Append(<<>>, Head(q)) = <<Head(q)>>
    BY <1>1
  <2>4. f[1] = First(q, S)
    BY <2>2, <2>3 DEF First
  <2>5. First(q, S) \o <<>> = First(q, S)
    BY <1>4
  <2> QED BY <1>3, <2>1, <2>4, <2>5
<1>6. ASSUME NEW n \in Nat, n \in A PROVE n + 1 \in A
  <2> SUFFICES ASSUME n + 1 <= Len(p) PROVE f[(n + 1) + 1] = First(q, S) \o g[n + 1]
    OBVIOUS
  <2> DEFINE k == n + 1
  <2>1. k \in 1 .. Len(p) /\ k + 1 \in 1 .. Len(q) /\ k - 1 = n /\ (k + 1) - 1 = k
        /\ n \in 0 .. Len(p) /\ f[k] = First(q, S) \o g[n]
    BY <1>1, <1>6
  <2> HIDE DEF k
  <2>2. f[k + 1] = IF q[k + 1] \in S THEN Append(f[k], q[k + 1]) ELSE f[k]
    BY <1>2, <2>1
  <2>3. g[k] = IF p[k] \in S THEN Append(g[n], p[k]) ELSE g[n]
    BY <1>3, <2>1
  <2>4. p[k] = q[k + 1] /\ p[k] \in T /\ g[n] \in Seq(T)
    <3>1. p[k] = q[k + 1] /\ p[k] \in T
      BY <1>1, <2>1
    <3>2. g[n] \in Seq(T)
      BY <1>3, <2>1
    <3> QED BY <3>1, <3>2
  <2>5. Append(First(q, S) \o g[n], p[k]) = First(q, S) \o Append(g[n], p[k])
    <3> DEFINE a == First(q, S)
               b == g[n]
               x == p[k]
    <3>1. a \in Seq(T) /\ b \in Seq(T) /\ x \in T
      BY <1>4, <2>4
    <3> HIDE DEF a, b, x
    <3> DEFINE s == Append(a \o b, x)
               t == a \o Append(b, x)
    <3>2. s \in Seq(T) /\ t \in Seq(T) /\ Len(s) = Len(t)
          /\ \A i \in 1 .. Len(s) : s[i] = t[i]
      <4>1. s \in Seq(T) /\ t \in Seq(T)
            /\ Len(s) = Len(a) + Len(b) + 1 /\ Len(t) = Len(a) + Len(b) + 1
        BY <3>1
      <4>2. \A i \in 1 .. Len(a) + Len(b) + 1 : s[i] = t[i]
        <5> QED BY ONLY <3>1
      <4> HIDE DEF s, t
      <4> QED BY <4>1, <4>2
    <3> HIDE DEF s, t
    <3>3. s = t
      BY <3>2
    <3> QED BY <3>3 DEF a, b, x, s, t
  <2>7. f[k + 1] = First(q, S) \o g[k]
    BY <2>1, <2>2, <2>3, <2>4, <2>5
  <2> QED BY <2>7 DEF k
<1> HIDE DEF A
<1>7. m \in A
  BY <1>1, <1>5, <1>6, SetInduction DEF p
<1> QED BY <1>7 DEF A, f, g, p

(* Taking the first row out takes it out of what is kept, if it is in that. *)
LEMMA FilterTail ==
  ASSUME NEW T, NEW q \in Seq(T), q # <<>>, NEW S
  PROVE  Filter(q, S) = First(q, S) \o Filter(Tail(q), S)
<1>1. Len(Tail(q)) \in 0 .. Len(Tail(q)) /\ Len(Tail(q)) + 1 = Len(q)
  OBVIOUS
<1>2. Kept(q, S)[Len(Tail(q)) + 1] = First(q, S) \o Kept(Tail(q), S)[Len(Tail(q))]
  BY <1>1, KeptTail
<1> QED BY <1>1, <1>2 DEF Filter

--------------------------------------------------------------------------------
(* The inductive invariant.                                                 *)

(* A thread that does not wait for work holds a command, which it will put  *)
(* in the queue or report: never a row of another kind.                     *)
RowsHeld == \A t \in Threads :
  IF thread[t].pc = "free" THEN thread[t] = Free ELSE thread[t].row \in Rows

(* The inductive invariant.                                                 *)
IInv == TypeOK /\ RowsHeld

(* What a thread does, and the tasks that it may have.                      *)
Pc == {"free", "delay_sec", "wait_seconds", "feed_back"}

Task == [pc : Pc, row : Rows \cup {NoRow}, left : 0 .. 127]

(* The second command of a delay, and the task that a thread is given.      *)
LEMMA TaskType ==
  ASSUME NEW lamp \in Lamps, NEW value \in Values,
         NEW pc \in {"delay_sec", "wait_seconds"}, NEW seconds \in 0 .. 127
  PROVE  /\ Row(lamp, value, 0) \in Rows
         /\ [pc |-> pc, row |-> Row(lamp, value, 0), left |-> seconds] \in Task
<1>1. 0 \in Delays
  BY PortAssumption
<1>2. Row(lamp, value, 0) \in Rows
  BY <1>1 DEF Row, Rows
<1> QED BY <1>2 DEF Task, Pc

(* A thread that is given a task holds its row.                             *)
LEMMA SleepHolds ==
  ASSUME IInv, NEW seconds \in 0 .. 127, NEW pc \in {"delay_sec", "wait_seconds"},
         NEW lamp \in Lamps, NEW value \in Values,
         Sleep(seconds, pc, Row(lamp, value, 0))
  PROVE  thread' \in [Threads -> Task] /\ RowsHeld'
<1> DEFINE row == Row(lamp, value, 0)
<1>1. row \in Rows /\ [pc |-> pc, row |-> row, left |-> seconds] \in Task
  BY TaskType
<1> HIDE DEF row
<1>2. PICK t \in Threads :
        thread' = [thread EXCEPT ![t] = [pc |-> pc, row |-> row, left |-> seconds]]
  BY DEF Sleep, row
<1>3. thread \in [Threads -> Task] /\ RowsHeld
  BY DEF IInv, TypeOK, Task, Pc
<1>4. thread' \in [Threads -> Task]
  BY <1>1, <1>2, <1>3
<1>5. \A u \in Threads : thread'[u] = IF u = t THEN [pc |-> pc, row |-> row, left |-> seconds]
                                     ELSE thread[u]
  BY <1>2, <1>3
<1>6. RowsHeld'
  <2> SUFFICES ASSUME NEW u \in Threads
               PROVE  IF thread'[u].pc = "free" THEN thread'[u] = Free
                      ELSE thread'[u].row \in Rows
    BY DEF RowsHeld, Free
  <2>1. CASE u = t
    BY <1>1, <1>5, <2>1
  <2>2. CASE u # t
    BY <1>3, <1>5, <2>2 DEF RowsHeld
  <2> QED BY <2>1, <2>2
<1> QED BY <1>4, <1>6

(* What the write thread does with a row.                                   *)
LEMMA WriteHolds ==
  ASSUME IInv, trans_serial_write
  PROVE  IInv'
<1>1. data \in Rows /\ data.lamp \in Lamps /\ data.value \in Values /\ data.delay \in 0 .. 255
  <2>1. data \in Rows
    BY DEF IInv, TypeOK, trans_serial_write
  <2> QED BY <2>1, PortAssumption DEF Rows
<1>2. /\ thread \in [Threads -> Task] /\ RowsHeld /\ level \in [Lamps -> Values]
      /\ reported \subseteq Lamps
  BY DEF IInv, TypeOK, Task, Pc
<1>3. /\ thread' \in [Threads -> Task] /\ RowsHeld' /\ level' \in [Lamps -> Values]
      /\ reported' \subseteq Lamps
  <2>1. CASE SendNow
    <3>1. UNCHANGED <<thread, reported>> /\ level' \in [Lamps -> Values]
      BY <1>1, <1>2, <2>1 DEF SendNow, Write
    <3> QED BY <1>2, <3>1 DEF RowsHeld
  <2>2. CASE SendLater
    <3>1. data.delay \in 0 .. 127 /\ Sleep(data.delay, "delay_sec", Row(data.lamp, data.value, 0))
          /\ UNCHANGED <<level, reported>>
      BY <2>2 DEF SendLater
    <3>2. thread' \in [Threads -> Task] /\ RowsHeld'
      BY <1>1, <3>1, SleepHolds
    <3> QED BY <1>2, <3>1, <3>2
  <2>3. CASE SendForAWhile
    <3>1. BackValue(data) \in Values
      BY PortAssumption DEF BackValue
    <3>2. data.delay - 128 \in 0 .. 127
          /\ Sleep(data.delay - 128, "wait_seconds", Row(data.lamp, BackValue(data), 0))
          /\ reported' \subseteq Lamps
      BY <1>1, <1>2, <2>3 DEF SendForAWhile
    <3>3. level' \in [Lamps -> Values]
      BY <1>1, <1>2, <2>3 DEF SendForAWhile, Write
    <3>4. thread' \in [Threads -> Task] /\ RowsHeld'
      BY <1>1, <3>1, <3>2, SleepHolds
    <3> QED BY <3>2, <3>3, <3>4
  <2> QED BY <2>1, <2>2, <2>3 DEF trans_serial_write
<1> QED BY <1>3 DEF IInv, TypeOK, trans_serial_write, bus, Task, Pc

(* A thread's steps after its sleep.                                        *)
LEMMA HelperHolds ==
  ASSUME IInv, NEW t \in Threads, Helper(t)
  PROVE  IInv'
<1>1. thread \in [Threads -> Task] /\ RowsHeld /\ queue_write \in Seq(Rows \cup {Blank})
  BY DEF IInv, TypeOK, Task, Pc
<1>2. thread[t].pc # "free" /\ thread[t].row \in Rows
  BY <1>1 DEF RowsHeld, Helper, delay_sec, wait_seconds, feed_back
<1>3. Free \in Task
  BY DEF Free, Task, Pc
<1>4. /\ queue_write' \in Seq(Rows \cup {Blank})
      /\ reported' \subseteq Lamps
  <2>1. Append(queue_write, thread[t].row) \in Seq(Rows \cup {Blank})
    BY <1>1, <1>2
  <2>2. thread[t].row.lamp \in Lamps
    BY <1>2 DEF Rows
  <2> QED BY <2>1, <2>2 DEF IInv, TypeOK, Helper, delay_sec, wait_seconds, feed_back
<1>5. thread' \in [Threads -> Task] /\ RowsHeld'
  <2>1. CASE thread' = [thread EXCEPT ![t] = Free]
    <3>1. thread' \in [Threads -> Task]
      BY <1>1, <1>3, <2>1
    <3>2. \A u \in Threads : thread'[u] = IF u = t THEN Free ELSE thread[u]
      BY <1>1, <2>1
    <3>3. RowsHeld'
      BY <1>1, <3>2 DEF RowsHeld, Free
    <3> QED BY <3>1, <3>3
  <2>2. CASE thread' = [thread EXCEPT ![t].pc = "feed_back"]
    <3>1. thread' \in [Threads -> Task]
      BY <1>1, <2>2, ZenonT(60) DEF Task, Pc
    <3>2. \A u \in Threads : u # t => thread'[u] = thread[u]
      BY <1>1, <2>2
    <3>3. thread'[t].pc = "feed_back" /\ thread'[t].row = thread[t].row
      BY <1>1, <2>2 DEF Task
    <3>4. RowsHeld'
      BY <1>1, <1>2, <3>2, <3>3 DEF RowsHeld, Free
    <3> QED BY <3>1, <3>4
  <2> QED BY <2>1, <2>2 DEF Helper, delay_sec, wait_seconds, feed_back
<1> QED BY <1>4, <1>5
    DEF IInv, TypeOK, Helper, delay_sec, wait_seconds, feed_back, bus, Task, Pc

(* The invariant holds: every state has its type, and no thread ever has a  *)
(* row that is not a command.                                               *)
THEOREM Inductive == Spec => []IInv
<1>1. Init => IInv
  <2> SUFFICES ASSUME Init PROVE IInv
    OBVIOUS
  <2>1. Free \in Task
    BY DEF Free, Task, Pc
  <2>2. thread \in [Threads -> Task] /\ RowsHeld
    BY <2>1 DEF Init, RowsHeld, Free
  <2>3. level \in [Lamps -> Values] /\ queue_write \in Seq(Rows \cup {Blank})
    BY PortAssumption DEF Init
  <2>4. rows \in 0 .. MaxRows /\ timeout \in 0 .. Quiet /\ silent \in 0 .. Quiet
        /\ bytes \in 0 .. MaxBytes
    BY PortAssumption DEF Init
  <2> QED BY <2>2, <2>3, <2>4 DEF Init, IInv, TypeOK, Task, Pc
<1>2. ASSUME IInv, [Next]_vars PROVE IInv'
  <2>0. Quiet \in Nat \ {0} /\ MaxRows \in Nat /\ MaxBytes \in Nat
    BY PortAssumption
  <2> USE <1>2
  <2>1. CASE Arrive
    BY <2>0, <2>1 DEF Arrive, IInv, TypeOK, RowsHeld, lamps
  <2>2. CASE Pass
    BY <2>0, <2>2 DEF Pass, IInv, TypeOK, RowsHeld, lamps
  <2>3. CASE Reader
    BY <2>3 DEF Reader, TimeOut, trans_serial_read, Collect, IInv, TypeOK, RowsHeld, lamps
  <2>4. CASE data_to_clo_thread
    BY <2>4 DEF data_to_clo_thread, IInv, TypeOK, RowsHeld, lamps
  <2>5. CASE qy_enqueue
    <3>1. queue_write' \in Seq(Rows \cup {Blank})
      BY <2>5 DEF qy_enqueue, IInv, TypeOK
    <3>2. rows' \in 0 .. MaxRows
      BY <2>0, <2>5 DEF qy_enqueue, IInv, TypeOK
    <3> QED BY <2>5, <3>1, <3>2 DEF qy_enqueue, IInv, TypeOK, RowsHeld, bus
  <2>6. CASE qy_dequeue
    <3> DEFINE R == Rows \cup {Blank}
    <3>1. queue_write \in Seq(R) /\ queue_write # <<>>
      BY <2>6 DEF qy_dequeue, IInv, TypeOK
    <3> HIDE DEF R
    <3>2. Tail(queue_write) \in Seq(R) /\ Head(queue_write) \in R
      BY <3>1
    <3>3. Tail(queue_write) \in Seq(Rows \cup {Blank})
          /\ (Head(queue_write) # Blank => Head(queue_write) \in Rows)
      BY <3>2 DEF R
    <3>4. NoRow \notin Rows
      BY PortAssumption
    <3> QED BY <2>6, <3>3, <3>4 DEF qy_dequeue, IInv, TypeOK, RowsHeld, bus
  <2>7. CASE AwaitFlag
    BY <2>7 DEF AwaitFlag, IInv, TypeOK, RowsHeld, bus
  <2>8. CASE trans_serial_write
    BY <2>8, WriteHolds
  <2>9. CASE Second
    <3>1. thread \in [Threads -> Task] /\ RowsHeld
      BY DEF IInv, TypeOK, Task, Pc
    <3>2. \A t \in Threads :
            thread'[t] = [thread[t] EXCEPT !.left = IF @ > 0 THEN @ - 1 ELSE 0]
      BY <2>9 DEF Second
    <3>3. \A k \in Task : [k EXCEPT !.left = IF @ > 0 THEN @ - 1 ELSE 0] \in Task
      BY DEF Task
    <3>4. \A t \in Threads : thread'[t] \in Task
      BY <3>1, <3>2, <3>3
    <3>5. thread' \in [Threads -> Task]
      BY <2>9, <3>4 DEF Second
    <3>6. \A t \in Threads : /\ thread'[t].pc = thread[t].pc
                             /\ thread'[t].row = thread[t].row
                             /\ thread[t] = Free => thread'[t] = Free
      <4>1. \A k \in Task : LET after == [k EXCEPT !.left = IF @ > 0 THEN @ - 1 ELSE 0]
                            IN  after.pc = k.pc /\ after.row = k.row
        BY DEF Task
      <4>2. [Free EXCEPT !.left = IF @ > 0 THEN @ - 1 ELSE 0] = Free
        BY DEF Free
      <4> QED BY <3>1, <3>2, <4>1, <4>2
    <3>7. RowsHeld'
      BY <3>1, <3>6 DEF RowsHeld, Free
    <3> QED BY <2>9, <3>5, <3>7 DEF Second, IInv, TypeOK, bus, Task, Pc
  <2>10. CASE \E t \in Threads : Helper(t)
    BY <2>10, HelperHolds
  <2>11. CASE UNCHANGED vars
    BY <2>11 DEF vars, lamps, bus, IInv, TypeOK, RowsHeld
  <2> QED BY <2>1, <2>2, <2>3, <2>4, <2>5, <2>6, <2>7, <2>8, <2>9, <2>10, <2>11
       DEF Next, Writer
<1> QED BY <1>1, <1>2, PTL DEF Spec

(* The type invariant, for any lamps, threads and bounds.                   *)
THEOREM TypeCorrect == Spec => []TypeOK
<1>1. IInv => TypeOK
  BY DEF IInv
<1> QED BY <1>1, Inductive, PTL

--------------------------------------------------------------------------------
(* The refinement.                                                          *)

(* The line and the clocks of DelayedLamps, as QiyuanPort has them.         *)
Line == IF data = NoRow THEN Commands ELSE <<data>> \o Commands

(* A thread as the clock of its row, and all of them.                       *)
Clock(t) == IF Sleeping(t) THEN [next |-> thread[t].row, left |-> thread[t].left]
            ELSE [next |-> NoRow, left |-> 0]

Clocks == [t \in Threads |-> Clock(t)]

(* Commands are rows, and queue_write holds rows and blanks.                *)
LEMMA CommandsType ==
  ASSUME NEW q \in Seq(Rows \cup {Blank})
  PROVE  Filter(q, Rows) \in Seq(Rows \cup {Blank})
<1> DEFINE T == Rows \cup {Blank}
<1>1. q \in Seq(T)
  OBVIOUS
<1> HIDE DEF T
<1>2. Len(q) \in 0 .. Len(q)
  BY <1>1
<1>3. Kept(q, Rows)[Len(q)] \in Seq(T)
  BY <1>1, <1>2, KeptRounds
<1> QED BY <1>3 DEF Filter, T

(* A command that is put in the queue joins the end of the line, whatever   *)
(* the write thread has.                                                    *)
LEMMA LineGrows ==
  ASSUME IInv, NEW row \in Rows, data' = data, queue_write' = Append(queue_write, row)
  PROVE  Line' = Append(Line, row)
<1> DEFINE T == Rows \cup {Blank}
<1>1. queue_write \in Seq(T) /\ row \in T /\ (data # NoRow => data \in T)
      /\ Commands \in Seq(T)
  BY CommandsType DEF IInv, TypeOK, Commands
<1> HIDE DEF T
<1>2. Commands' = Append(Commands, row)
  <2>1. Filter(Append(queue_write, row), Rows) = Append(Filter(queue_write, Rows), row)
    BY <1>1, FilterAppend
  <2> QED BY <2>1 DEF Commands
<1>3. CASE data = NoRow
  BY <1>2, <1>3 DEF Line
<1>4. CASE data # NoRow
  <2> DEFINE c == Commands
             s == Append(<<data>> \o c, row)
             t == <<data>> \o Append(c, row)
  <2>1. c \in Seq(T) /\ data \in T /\ row \in T
    BY <1>1, <1>4
  <2>2. Line = <<data>> \o c /\ Line' = t
    BY <1>2, <1>4 DEF Line
  <2> HIDE DEF c
  <2>3. s \in Seq(T) /\ t \in Seq(T) /\ Len(s) = Len(c) + 2 /\ Len(t) = Len(c) + 2
    BY ONLY <2>1
  <2>4. \A i \in 1 .. Len(c) + 2 : s[i] = t[i]
    BY ONLY <2>1
  <2> HIDE DEF s, t
  <2>5. s = t
    BY ONLY <2>3, <2>4
  <2> QED BY <2>2, <2>5 DEF s
<1> QED BY <1>3, <1>4

(* The lamps, the line and the clocks do not see the bus.                   *)
LEMMA BusUnseen ==
  ASSUME UNCHANGED lamps
  PROVE  UNCHANGED Lamp!vars
BY DEF lamps, Lamp!vars, Commands, Sleeping

(* Queueing a row is a request, unless the row is no command.               *)
LEMMA EnqueueAsks ==
  ASSUME IInv, qy_enqueue
  PROVE  Lamp!Ask \/ UNCHANGED Lamp!vars
<1>1. PICK row \in Rows \cup {Blank} : queue_write' = Append(queue_write, row)
  BY DEF qy_enqueue
<1>2. UNCHANGED <<level, data, thread>>
  BY DEF qy_enqueue
<1>3. Clocks' = Clocks
  BY <1>2 DEF Clocks, Clock, Sleeping
<1>4. CASE row \in Rows
  <2>1. Line' = Append(Line, row)
    BY <1>1, <1>2, <1>4, LineGrows
  <2>2. row \in Lamp!Command
    BY <1>4 DEF Lamp!Command, Rows
  <2> QED BY <1>2, <1>3, <2>1, <2>2 DEF Lamp!Ask, Line, Clocks, Clock
<1>5. CASE row \notin Rows
  <2> DEFINE T == Rows \cup {Blank}
  <2>1. queue_write \in Seq(T) /\ row \in T
    BY DEF IInv, TypeOK
  <2> HIDE DEF T
  <2>2. Filter(Append(queue_write, row), Rows) = Filter(queue_write, Rows)
    BY <1>5, <2>1, FilterAppend
  <2>3. Commands' = Commands
    BY <1>1, <2>2 DEF Commands
  <2>4. Line' = Line
    BY <1>2, <2>3 DEF Line
  <2> QED BY <1>2, <1>3, <2>4 DEF Lamp!vars, Line, Clocks, Clock
<1> QED BY <1>4, <1>5

(* Taking a row out of the queue changes nothing: a command stays the first *)
(* of the line, in the hands of the write thread, and a blank was not in it.*)
LEMMA DequeueUnseen ==
  ASSUME IInv, qy_dequeue
  PROVE  UNCHANGED Lamp!vars
<1> DEFINE T == Rows \cup {Blank}
           q == Tail(queue_write)
           r == Head(queue_write)
<1>1. queue_write \in Seq(T) /\ queue_write # <<>> /\ data = NoRow /\ queue_write' = q
      /\ UNCHANGED <<level, thread>>
  BY DEF qy_dequeue, IInv, TypeOK
<1>2. Clocks' = Clocks
  BY <1>1 DEF Clocks, Clock, Sleeping
<1> HIDE DEF T
<1>3. q \in Seq(T) /\ r \in T
  BY <1>1
<1>4. Commands = First(queue_write, Rows) \o Commands'
  BY <1>1, FilterTail DEF Commands
<1>5. Commands' \in Seq(T)
  BY <1>1, <1>3, CommandsType DEF Commands, T
<1>6. Line = Commands
  BY <1>1 DEF Line
<1>7. Line' = Line
  <2>1. CASE r = Blank
    <3>1. First(queue_write, Rows) = <<>> /\ data' = NoRow
      BY <1>1, <2>1, PortAssumption DEF First, qy_dequeue
    <3>2. <<>> \o Commands' = Commands'
      BY <1>5
    <3> QED BY <1>4, <1>6, <3>1, <3>2 DEF Line
  <2>2. CASE r # Blank
    <3>1. r \in Rows /\ r # NoRow
      BY <1>3, <2>2, PortAssumption DEF T
    <3>2. First(queue_write, Rows) = <<r>> /\ data' = r
      BY <2>2, <3>1 DEF First, qy_dequeue
    <3> QED BY <1>4, <1>6, <3>1, <3>2 DEF Line
  <2> QED BY <2>1, <2>2
<1> QED BY <1>1, <1>2, <1>7 DEF Lamp!vars, Line, Clocks, Clock

(* A thread that is put to sleep is a clock that starts.                    *)
LEMMA SleepStarts ==
  ASSUME IInv, NEW seconds, NEW pc \in {"delay_sec", "wait_seconds"}, NEW row,
         Sleep(seconds, pc, row)
  PROVE  \E t \in Threads : /\ Clocks[t] = Lamp!Stopped
                            /\ Clocks' = [Clocks EXCEPT ![t] = Lamp!In(seconds, row)]
<1>1. PICK t \in Threads :
        /\ thread[t] = Free
        /\ thread' = [thread EXCEPT ![t] = [pc |-> pc, row |-> row, left |-> seconds]]
  BY DEF Sleep
<1>2. thread \in [Threads -> Task]
  BY DEF IInv, TypeOK, Task, Pc
<1>3. \A u \in Threads : thread'[u] = IF u = t THEN [pc |-> pc, row |-> row, left |-> seconds]
                                     ELSE thread[u]
  BY <1>1, <1>2
<1>4. Clocks[t] = Lamp!Stopped
  BY <1>1 DEF Clocks, Clock, Sleeping, Free, Lamp!Stopped
<1>5. ASSUME NEW u \in Threads
      PROVE  Clock(u)' = IF u = t THEN Lamp!In(seconds, row) ELSE Clock(u)
  BY <1>3 DEF Clock, Sleeping, Lamp!In
<1>6. Clocks' = [Clocks EXCEPT ![t] = Lamp!In(seconds, row)]
  BY <1>5 DEF Clocks
<1> QED BY <1>4, <1>6

(* Sending a row serves the first of the line.                              *)
LEMMA WriteServes ==
  ASSUME IInv, trans_serial_write
  PROVE  Lamp!Serve
<1> DEFINE T == Rows \cup {Blank}
           c == Commands
<1>1. data \in Rows /\ data # NoRow /\ data \in T /\ data' = NoRow
      /\ queue_write' = queue_write
  BY PortAssumption DEF IInv, TypeOK, trans_serial_write
<1>2. c \in Seq(T)
  BY CommandsType DEF IInv, TypeOK, Commands
<1>3. Line = <<data>> \o c /\ Line' = c
  BY <1>1 DEF Line, Commands
<1> HIDE DEF T, c
<1>4. Line # <<>> /\ Head(Line) = data /\ Tail(Line) = c
  <2>1. /\ <<data>> \o c # <<>> /\ Head(<<data>> \o c) = data
        /\ Tail(<<data>> \o c) = c
    BY <1>1, <1>2
  <2> QED BY <1>3, <2>1
<1>5. CASE SendNow
  <2>1. Clocks' = Clocks
    BY <1>5 DEF SendNow, Clocks, Clock, Sleeping
  <2>2. Lamp!Now(data)
    BY <1>5, <2>1 DEF SendNow, Write, Lamp!Now, Clocks, Clock
  <2> QED BY <1>3, <1>4, <2>2 DEF Lamp!Serve, Line
<1>6. CASE SendLater
  <2>1. PICK t \in Threads :
          /\ Clocks[t] = Lamp!Stopped
          /\ Clocks' = [Clocks EXCEPT ![t] =
                          Lamp!In(data.delay, Row(data.lamp, data.value, 0))]
    BY <1>6, SleepStarts DEF SendLater
  <2>2. Lamp!Start(data.delay, Lamp!AtOnce(data.lamp, data.value))
    BY <2>1 DEF Lamp!Start, Lamp!AtOnce, Row, Clocks, Clock
  <2>3. data.delay \in 1 .. 127 /\ UNCHANGED level
    BY <1>6 DEF SendLater
  <2>4. Lamp!Later(Head(Line))
    BY <1>4, <2>2, <2>3 DEF Lamp!Later, Lamp!Start, Lamp!AtOnce, Lamp!In
  <2> QED BY <1>3, <1>4, <2>4 DEF Lamp!Serve, Line
<1>7. CASE SendForAWhile
  <2>1. PICK t \in Threads :
          /\ Clocks[t] = Lamp!Stopped
          /\ Clocks' = [Clocks EXCEPT ![t] =
                          Lamp!In(data.delay - 128, Row(data.lamp, BackValue(data), 0))]
    BY <1>7, SleepStarts DEF SendForAWhile
  <2>2. Lamp!Start(data.delay - 128, Lamp!AtOnce(data.lamp, 0))
    BY <2>1 DEF Lamp!Start, Lamp!AtOnce, Row, BackValue, Clocks, Clock
  <2>3. data.delay > 127 /\ level' = [level EXCEPT ![data.lamp] = data.value]
    BY <1>7 DEF SendForAWhile, Write
  <2>4. Lamp!ForAWhile(Head(Line))
    BY <1>4, <2>2, <2>3 DEF Lamp!ForAWhile, Lamp!Start, Lamp!AtOnce, Lamp!In
  <2> QED BY <1>3, <1>4, <2>4 DEF Lamp!Serve, Line
<1> QED BY <1>5, <1>6, <1>7 DEF trans_serial_write

(* A second passes for every clock.                                         *)
LEMMA SecondCounts ==
  ASSUME IInv, Second
  PROVE  Lamp!Second
<1>1. thread \in [Threads -> Task]
  BY DEF IInv, TypeOK, Task, Pc
<1>2. ASSUME NEW t \in Threads
      PROVE  Clock(t)' = [Clock(t) EXCEPT !.left = IF @ > 0 THEN @ - 1 ELSE 0]
  <2> DEFINE after == [thread[t] EXCEPT !.left = IF @ > 0 THEN @ - 1 ELSE 0]
  <2>1. thread'[t] = after
    BY DEF Second
  <2>2. after.pc = thread[t].pc /\ after.row = thread[t].row
        /\ after.left = IF thread[t].left > 0 THEN thread[t].left - 1 ELSE 0
    BY <1>1 DEF Task
  <2> HIDE DEF after
  <2>3. CASE Sleeping(t)
    <3>1. Clock(t)' = [next |-> thread[t].row,
                       left |-> IF thread[t].left > 0 THEN thread[t].left - 1 ELSE 0]
      BY <2>1, <2>2, <2>3 DEF Clock, Sleeping
    <3> QED BY <2>3, <3>1 DEF Clock
  <2>4. CASE ~ Sleeping(t)
    <3>1. Clock(t)' = [next |-> NoRow, left |-> 0] /\ Clock(t) = [next |-> NoRow, left |-> 0]
      BY <2>1, <2>2, <2>4 DEF Clock, Sleeping
    <3> QED BY <3>1
  <2> QED BY <2>3, <2>4
<1>3. Clocks' = [t \in Threads |->
                   [Clocks[t] EXCEPT !.left = IF @ > 0 THEN @ - 1 ELSE 0]]
  BY <1>2 DEF Clocks
<1>4. UNCHANGED <<level, Line>>
  BY DEF Second, Line, Commands
<1> QED BY <1>3, <1>4 DEF Lamp!Second, Line, Clocks, Clock

(* A thread whose sleep is over is a clock that has run out; its report is  *)
(* not seen.                                                                *)
LEMMA HelperRunsOut ==
  ASSUME IInv, NEW t \in Threads, Helper(t)
  PROVE  Lamp!RunOut \/ UNCHANGED Lamp!vars
<1>1. thread \in [Threads -> Task] /\ UNCHANGED <<level, data>>
  BY DEF IInv, TypeOK, Task, Pc, Helper, delay_sec, wait_seconds, feed_back
<1>2. thread[t].row \in Rows
  BY DEF IInv, RowsHeld, Helper, delay_sec, wait_seconds, feed_back
<1>3. \A u \in Threads : u # t => thread'[u] = thread[u]
  BY <1>1 DEF Helper, delay_sec, wait_seconds, feed_back
<1>4. thread'[t].pc \notin {"delay_sec", "wait_seconds"}
  BY <1>1 DEF Helper, delay_sec, wait_seconds, feed_back, Free, Task
<1>5. ASSUME NEW u \in Threads
      PROVE  Clock(u)' = IF u = t THEN Lamp!Stopped ELSE Clock(u)
  BY <1>3, <1>4 DEF Clock, Sleeping, Lamp!Stopped
<1>6. Clocks' = [Clocks EXCEPT ![t] = Lamp!Stopped]
  BY <1>5 DEF Clocks
<1>7. CASE delay_sec(t) \/ wait_seconds(t)
  <2>1. Sleeping(t) /\ thread[t].left = 0
        /\ queue_write' = Append(queue_write, thread[t].row)
    BY <1>7 DEF Sleeping, delay_sec, wait_seconds
  <2>2. Line' = Append(Line, thread[t].row)
    BY <1>1, <1>2, <2>1, LineGrows
  <2>3. Clocks[t] = [next |-> thread[t].row, left |-> 0]
    BY <2>1 DEF Clocks, Clock
  <2>4. Clocks[t] # Lamp!Stopped
    <3>1. thread[t].row # NoRow
      BY <1>2, PortAssumption
    <3> QED BY <2>3, <3>1 DEF Lamp!Stopped
  <2>5. Clocks[t].left = 0 /\ Clocks[t].next = thread[t].row
    BY <2>3
  <2> QED BY <1>1, <1>6, <2>2, <2>4, <2>5 DEF Lamp!RunOut, Line, Clocks, Clock
<1>8. CASE feed_back(t)
  <2>1. ~ Sleeping(t) /\ queue_write' = queue_write
    BY <1>8 DEF Sleeping, feed_back
  <2>2. Clock(t) = Lamp!Stopped
    BY <2>1 DEF Clock, Lamp!Stopped
  <2>3. \A u \in Threads : Clock(u)' = Clock(u)
    BY <1>5, <2>2
  <2>4. Clocks' = Clocks
    BY <2>3 DEF Clocks
  <2>5. Line' = Line
    BY <1>1, <2>1 DEF Line, Commands
  <2> QED BY <1>1, <2>4, <2>5 DEF Lamp!vars, Line, Clocks, Clock
<1> QED BY <1>7, <1>8 DEF Helper

(* The port does what DelayedLamps says: whatever the bus, the reader and   *)
(* the other threads do in between, and however many delays run at a time,  *)
(* rows take effect in the order of the queue, none is lost, changed, sent  *)
(* twice or early, and what was switched on for a while ends off.           *)
THEOREM DelayedLampsRefinement == Spec => ImplementsDelayedLamps
<1>1. Init => Lamp!Init
  <2> SUFFICES ASSUME Init PROVE Lamp!Init
    OBVIOUS
  <2>1. Commands = <<>>
    <3> DEFINE e == <<>>
    <3>1. e \in Seq(Rows) /\ Len(e) = 0
      OBVIOUS
    <3> HIDE DEF e
    <3>2. Filter(e, Rows) = <<>>
      BY <3>1, FilterNothing
    <3> QED BY <3>2 DEF Commands, Init, e
  <2>2. Clocks = [t \in Threads |-> Lamp!Stopped]
    BY DEF Init, Clocks, Clock, Sleeping, Free, Lamp!Stopped
  <2> QED BY <2>1, <2>2 DEF Init, Lamp!Init, Line, Clocks, Clock
<1>2. ASSUME IInv, [Next]_vars PROVE [Lamp!Next]_(Lamp!vars)
  <2> USE <1>2
  <2>1. CASE Arrive \/ Pass \/ Reader \/ data_to_clo_thread \/ AwaitFlag
    <3>1. CASE AwaitFlag
      BY <3>1 DEF AwaitFlag, Lamp!vars, Commands, Sleeping
    <3>2. CASE Arrive \/ Pass \/ Reader \/ data_to_clo_thread
      <4>1. UNCHANGED lamps
        BY <3>2 DEF Arrive, Pass, Reader, TimeOut, trans_serial_read, Collect,
                    data_to_clo_thread
      <4> QED BY <4>1, BusUnseen
    <3> QED BY <2>1, <3>1, <3>2
  <2>2. CASE qy_enqueue
    BY <2>2, EnqueueAsks DEF Lamp!Next
  <2>3. CASE qy_dequeue
    BY <2>3, DequeueUnseen
  <2>4. CASE trans_serial_write
    BY <2>4, WriteServes DEF Lamp!Next
  <2>5. CASE Second
    BY <2>5, SecondCounts DEF Lamp!Next
  <2>6. CASE \E t \in Threads : Helper(t)
    BY <2>6, HelperRunsOut DEF Lamp!Next
  <2>7. CASE UNCHANGED vars
    BY <2>7, BusUnseen DEF vars
  <2> QED BY <2>1, <2>2, <2>3, <2>4, <2>5, <2>6, <2>7 DEF Next, Writer
<1> QED BY <1>1, <1>2, Inductive, PTL DEF Spec, ImplementsDelayedLamps, Lamp!Spec

================================================================================
