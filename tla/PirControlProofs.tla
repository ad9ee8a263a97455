---------------------------- MODULE PirControlProofs ---------------------------
(****************************************************************************)
(* Proofs about PirControl, for any sensors, targets, commands and numbers  *)
(* of commands and reports.                                                 *)
(*                                                                          *)
(* IInv follows a report from the queue through the handler.  ValuesInv:    *)
(* the last report of a sensor that is on its way says what the sensor      *)
(* sees, and if there is none the saved value does.  LightInv: of a target  *)
(* with a sensor of its own, the handler never knows the target for another *)
(* report or finds a group, and the light, or the recall that is on its way *)
(* to it, is ahead of the saved value only between the two last steps of    *)
(* the handler.                                                             *)
(****************************************************************************)
EXTENDS PirControl, FiniteSetTheorems, TLAPS

(* Reports, rows of remote.db, and the sensors the gateway toggles.         *)
Report  == [sensor : Sensors, motion : BOOLEAN]
Row     == [state : {0, 1}, value : {0, 1}, target : Targets \cup {NoTarget}]
Toggled == {s \in Sensors : \E c \in Commands : c.what = "toggle" /\ c.sensor = s}

(* The main loop is in pir_handler.                                         *)
InHandler == main \in {"target", "group", "decide", "save"}

(* What is in the queue and in the threads' local variables.                *)
ShapeInv ==
  /\ qy_read \in Seq(Report)
  /\ InHandler => report \in Report
  /\ worker = "toggle" => toggled \in Toggled \X {0, 1}

(* The main loop has a report of this sensor in hand.                       *)
Handled(s) == InHandler /\ report.sensor = s

(* The newest report of a sensor, or else its saved value, is current.      *)
ValuesInv == \A s \in Sensors : NeverMasked(s) =>
  /\ remote[s].state = 1
  /\ \A i \in DOMAIN qy_read :
       /\ qy_read[i].sensor = s
       /\ \A j \in DOMAIN qy_read : j > i => qy_read[j].sensor # s
       => qy_read[i].motion = seen[s]
  /\ (\A i \in DOMAIN qy_read : qy_read[i].sensor # s) =>
       IF Handled(s) THEN report.motion = seen[s] ELSE remote[s].value = 1 <=> seen[s]

(* A target is on, or about to be recalled.                                 *)
Lit(t) == lit[t] \/ t \in ToSet(clo_read)

(* The light of a sensor that has its target alone is as its value says.    *)
LightInv == \A s \in Sensors : KeepsTarget(s) /\ Alone(s) =>
  /\ remote[s].target = Assigned[s]
  /\ \A p \in Sensors \ {s} : remote[p].target # Assigned[s]
  /\ main \in {"group", "decide"} => (target = Assigned[s] <=> report.sensor = s)
  /\ main = "decide" /\ report.sensor = s => nums = <<>>
  /\ IF main = "save" /\ report.sensor = s
     THEN Lit(Assigned[s]) <=> report.motion \/ Assigned[s] \in overtaken
     ELSE Lit(Assigned[s]) <=> remote[s].value = 1 \/ Assigned[s] \in overtaken

(* The inductive invariant.                                                 *)
IInv == TypeOK /\ ShapeInv /\ ValuesInv /\ LightInv

--------------------------------------------------------------------------------

(* What the gateway may send.                                               *)
LEMMA CommandTypes ==
  ASSUME NEW c \in Commands
  PROVE  /\ c.what \in {"enable", "mask", "toggle", "assign", "delete"}
         /\ c.sensor \in Sensors
         /\ c.target \in Targets \cup {NoTarget}
BY PirAssumption DEF PirAssumption

(* A finite set in some order is a sequence of its members.                 *)
LEMMA SetToSeqType ==
  ASSUME NEW S, IsFiniteSet(S)
  PROVE  /\ SetToSeq(S) \in Seq(S)
         /\ S = {} => SetToSeq(S) = <<>>
<1>1. /\ Cardinality(S) \in Nat
      /\ ExistsBijection(1 .. Cardinality(S), S)
  BY FS_CardinalityType
<1>2. \E f \in [1 .. Cardinality(S) -> S] : IsInjective(f)
  BY <1>1 DEF ExistsBijection, Bijection, Injection
<1>3. SetToSeq(S) \in [1 .. Cardinality(S) -> S]
  BY <1>2 DEF SetToSeq
<1>4. SetToSeq(S) \in Seq(S)
  <2>1. \A n \in Nat : [1 .. n -> S] \subseteq Seq(S)
    OBVIOUS
  <2> QED BY <1>1, <1>3, <2>1
<1>5. ASSUME S = {} PROVE SetToSeq(S) = <<>>
  <2>1. Cardinality(S) = 0
    BY <1>5, FS_EmptySet
  <2> QED BY <1>3, <2>1
<1> QED BY <1>4, <1>5

(* What one assignment to a row leaves of the table.                        *)
LEMMA RowUpdates ==
  ASSUME TypeOK, NEW p \in Sensors, NEW v \in {0, 1}, NEW t \in Targets \cup {NoTarget}
  PROVE  /\ [remote EXCEPT ![p].state = v] =
              [s \in Sensors |-> IF s = p THEN [remote[s] EXCEPT !.state = v] ELSE remote[s]]
         /\ [remote EXCEPT ![p].value = v] =
              [s \in Sensors |-> IF s = p THEN [remote[s] EXCEPT !.value = v] ELSE remote[s]]
         /\ [remote EXCEPT ![p].target = t] =
              [s \in Sensors |-> IF s = p THEN [remote[s] EXCEPT !.target = t] ELSE remote[s]]
BY DEF TypeOK

(* The types of what it leaves.                                             *)
LEMMA RowTypes ==
  ASSUME TypeOK, NEW s \in Sensors,
         NEW v \in {0, 1}, NEW t \in Targets \cup {NoTarget}
  PROVE  /\ remote[s] \in Row
         /\ [remote[s] EXCEPT !.state = v] \in Row
         /\ [remote[s] EXCEPT !.value = v] \in Row
         /\ [remote[s] EXCEPT !.target = t] \in Row
BY DEF TypeOK, Row

(* Of the row of a sensor that a command is about, pir_control changes the  *)
(* state and delay_config_inf the target.                                   *)
LEMMA CommandSteps ==
  ASSUME TypeOK, pir_control \/ delay_config_inf
  PROVE  /\ \E c \in Commands, v \in {0, 1}, t \in Targets \cup {NoTarget} :
              \/ /\ c.what = IF v = 1 THEN "enable" ELSE "mask"
                 /\ remote' = [remote EXCEPT ![c.sensor].state = v]
              \/ /\ \/ c.what = "assign" /\ t = c.target
                    \/ c.what = "delete" /\ t = NoTarget
                 /\ remote' = [remote EXCEPT ![c.sensor].target = t]
         /\ UNCHANGED <<worker, toggled, handler, qy_read, lights, room>>
<1>1. CASE pir_control
  <2>1. PICK c \in Commands :
          \/ c.what = "enable" /\ remote' = [remote EXCEPT ![c.sensor].state = 1]
          \/ c.what = "mask"   /\ remote' = [remote EXCEPT ![c.sensor].state = 0]
    BY <1>1 DEF pir_control
  <2>2. CASE c.what = "enable" /\ remote' = [remote EXCEPT ![c.sensor].state = 1]
    BY <1>1, <2>2 DEF pir_control
  <2>3. CASE c.what = "mask" /\ remote' = [remote EXCEPT ![c.sensor].state = 0]
    <3>1. 0 \in {0, 1} /\ NoTarget \in Targets \cup {NoTarget} /\ c.what = IF 0 = 1 THEN "enable" ELSE "mask"
      BY <2>3
    <3> QED BY <1>1, <2>3, <3>1 DEF pir_control
  <2> QED BY <2>1, <2>2, <2>3
<1>2. CASE delay_config_inf
  <2>1. PICK c \in Commands :
          \/ c.what = "assign" /\ remote' = [remote EXCEPT ![c.sensor].target = c.target]
          \/ c.what = "delete" /\ remote' = [remote EXCEPT ![c.sensor].target = NoTarget]
    BY <1>2 DEF delay_config_inf
  <2>2. CASE c.what = "assign" /\ remote' = [remote EXCEPT ![c.sensor].target = c.target]
    BY <1>2, <2>2, CommandTypes DEF delay_config_inf
  <2>3. CASE c.what = "delete" /\ remote' = [remote EXCEPT ![c.sensor].target = NoTarget]
    BY <1>2, <2>3 DEF delay_config_inf
  <2> QED BY <2>1, <2>2, <2>3
<1> QED BY <1>1, <1>2

(* The row of every sensor after such a command.                            *)
LEMMA CommandRows ==
  ASSUME TypeOK, pir_control \/ delay_config_inf
  PROVE  \E c \in Commands, v \in {0, 1}, t \in Targets \cup {NoTarget} :
           \/ /\ c.what = IF v = 1 THEN "enable" ELSE "mask"
              /\ remote' = [s \in Sensors |->
                   IF s = c.sensor THEN [remote[s] EXCEPT !.state = v] ELSE remote[s]]
           \/ /\ \/ c.what = "assign" /\ t = c.target
                 \/ c.what = "delete" /\ t = NoTarget
              /\ remote' = [s \in Sensors |->
                   IF s = c.sensor THEN [remote[s] EXCEPT !.target = t] ELSE remote[s]]
<1>1. PICK c \in Commands, v \in {0, 1}, t \in Targets \cup {NoTarget} :
        \/ /\ c.what = IF v = 1 THEN "enable" ELSE "mask"
           /\ remote' = [remote EXCEPT ![c.sensor].state = v]
        \/ /\ \/ c.what = "assign" /\ t = c.target
              \/ c.what = "delete" /\ t = NoTarget
           /\ remote' = [remote EXCEPT ![c.sensor].target = t]
  BY CommandSteps
<1>2. c.sensor \in Sensors
  BY CommandTypes
<1>3. /\ [remote EXCEPT ![c.sensor].state = v] =
           [s \in Sensors |-> IF s = c.sensor THEN [remote[s] EXCEPT !.state = v] ELSE remote[s]]
      /\ [remote EXCEPT ![c.sensor].target = t] =
           [s \in Sensors |-> IF s = c.sensor THEN [remote[s] EXCEPT !.target = t] ELSE remote[s]]
  BY <1>2, RowUpdates
<1> QED BY <1>1, <1>3

(* What the steps on the Clowire queue leave of it.                         *)
LEMMA TriggerQueue ==
  ASSUME NEW S, NEW q \in Seq(S), NEW e \in S
  PROVE  /\ ToSet(q) \subseteq S
         /\ ToSet(<<>>) = {}
         /\ Append(q, e) \in Seq(S) /\ ToSet(Append(q, e)) = ToSet(q) \cup {e}
         /\ q # <<>> => /\ Head(q) \in S /\ Tail(q) \in Seq(S)
                        /\ ToSet(q) = {Head(q)} \cup ToSet(Tail(q))
<1>1. ToSet(q) \subseteq S /\ ToSet(<<>>) = {}
  BY DEF ToSet
<1>2. Append(q, e) \in Seq(S) /\ ToSet(Append(q, e)) = ToSet(q) \cup {e}
  <2>1. /\ DOMAIN q = 1 .. Len(q) /\ Len(q) \in Nat
        /\ DOMAIN Append(q, e) = 1 .. Len(q) + 1
        /\ \A i \in DOMAIN q : Append(q, e)[i] = q[i]
        /\ Append(q, e)[Len(q) + 1] = e
    OBVIOUS
  <2>2. \A i \in DOMAIN Append(q, e) : i \in DOMAIN q \/ i = Len(q) + 1
    BY <2>1
  <2> QED BY <2>1, <2>2 DEF ToSet
<1>3. ASSUME q # <<>>
      PROVE  /\ Head(q) \in S /\ Tail(q) \in Seq(S)
             /\ ToSet(q) = {Head(q)} \cup ToSet(Tail(q))
  <2>1. /\ DOMAIN q = 1 .. Len(q) /\ Len(q) \in Nat \ {0}
        /\ Tail(q) \in Seq(S) /\ DOMAIN Tail(q) = 1 .. Len(q) - 1
        /\ \A i \in DOMAIN Tail(q) : Tail(q)[i] = q[i + 1]
        /\ Head(q) = q[1] /\ Head(q) \in S
    BY <1>3
  <2>2. \A i \in DOMAIN q : i = 1 \/ (i - 1 \in DOMAIN Tail(q) /\ q[i] = Tail(q)[i - 1])
    BY <2>1
  <2>3. \A i \in DOMAIN Tail(q) : i + 1 \in DOMAIN q
    BY <2>1
  <2>4. 1 \in DOMAIN q
    BY <2>1
  <2>5. \A x : x \in ToSet(q) <=> x = Head(q) \/ x \in ToSet(Tail(q))
    <3>1. ASSUME NEW i \in DOMAIN q PROVE q[i] = Head(q) \/ q[i] \in ToSet(Tail(q))
      <4>1. CASE i = 1
        BY <2>1, <4>1
      <4>2. CASE i - 1 \in DOMAIN Tail(q) /\ q[i] = Tail(q)[i - 1]
        BY <4>2, Zenon DEF ToSet
      <4> QED BY <2>2, <4>1, <4>2
    <3>2. ASSUME NEW i \in DOMAIN Tail(q) PROVE Tail(q)[i] \in ToSet(q)
      BY <2>1, <2>3, Zenon DEF ToSet
    <3>3. Head(q) \in ToSet(q)
      BY <2>1, <2>4, Zenon DEF ToSet
    <3> QED BY <3>1, <3>2, <3>3, Zenon DEF ToSet
  <2> QED BY <2>1, <2>5
<1> QED BY <1>1, <1>2, <1>3

(* send_cmd changes the light of its target only.                           *)
LEMMA SwitchEffect ==
  ASSUME TypeOK, NEW on \in BOOLEAN, target \in Targets, Switch(on)
  PROVE  /\ clo_read' \in Seq(Scenes) /\ lit' \in [Targets -> BOOLEAN]
         /\ overtaken' \subseteq Scenes
         /\ \A t \in Targets :
              IF t = target
              THEN Lit(t)' <=> on \/ t \in overtaken'
              ELSE (Lit(t)' <=> Lit(t)) /\ (t \in overtaken' <=> t \in overtaken)
<1> USE DEF Lit
<1>0. /\ clo_read \in Seq(Scenes) /\ lit \in [Targets -> BOOLEAN] /\ overtaken \subseteq Scenes
      /\ ToSet(clo_read) \subseteq Scenes
  BY DEF TypeOK, ToSet
<1>1. CASE on /\ target \in Scenes
  <2>1. /\ clo_read' = Append(clo_read, target) /\ lit' = lit
        /\ overtaken' = overtaken \ {target}
    BY <1>1 DEF Switch
  <2>2. clo_read' \in Seq(Scenes) /\ ToSet(clo_read') = ToSet(clo_read) \cup {target}
    BY <1>0, <1>1, <2>1, TriggerQueue
  <2> QED BY <1>0, <1>1, <2>1, <2>2
<1>2. CASE ~ (on /\ target \in Scenes)
  <2>1. /\ clo_read' = clo_read /\ lit' = [lit EXCEPT ![target] = on]
        /\ overtaken' = (overtaken \ {target}) \cup ({target} \cap ToSet(clo_read))
    BY <1>2 DEF Switch
  <2> QED BY <1>0, <1>2, <2>1
<1> QED BY <1>1, <1>2

(* The next report is a report.                                             *)
LEMMA TakenReport ==
  ASSUME ShapeInv, TakeReport
  PROVE  report' \in Report /\ qy_read' \in Seq(Report)
<1>1. qy_read \in Seq(Report) /\ qy_read # <<>>
  BY DEF ShapeInv, TakeReport
<1>2. \A R : \A q \in Seq(R) : q # <<>> => Head(q) \in R /\ Tail(q) \in Seq(R)
  OBVIOUS
<1> QED BY <1>1, <1>2 DEF TakeReport

(* At the start.                                                             *)
LEMMA InitIInv == Init => IInv
<1> SUFFICES ASSUME Init PROVE IInv
  OBVIOUS
<1> USE DEF Init
<1>1. TypeOK
  BY PirAssumption DEF TypeOK, PirAssumption
<1>2. ShapeInv
  BY DEF ShapeInv, InHandler
<1>3. ValuesInv
  BY DEF ValuesInv, Handled, InHandler
<1>4. LightInv
  <2> SUFFICES ASSUME NEW s \in Sensors, KeepsTarget(s), Alone(s)
               PROVE  /\ remote[s].target = Assigned[s]
                      /\ \A p \in Sensors \ {s} : remote[p].target # Assigned[s]
                      /\ Lit(Assigned[s]) <=> remote[s].value = 1 \/ Assigned[s] \in overtaken
    BY DEF LightInv
  <2>1. Assigned[s] \in Targets
    BY PirAssumption DEF PirAssumption, KeepsTarget
  <2> QED BY <2>1 DEF KeepsTarget, Alone, Lit, ToSet
<1> QED BY <1>1, <1>2, <1>3, <1>4 DEF IInv

--------------------------------------------------------------------------------
(* Types.                                                                   *)

(* Every step keeps the types.                                               *)
LEMMA NextTypes ==
  ASSUME TypeOK, ShapeInv, [Next]_vars
  PROVE  TypeOK' /\ ShapeInv'
<1> USE DEF TypeOK, ShapeInv, InHandler, Report
<1>1. CASE pir_control \/ delay_config_inf
  <2>1. PICK c \in Commands, v \in {0, 1}, t \in Targets \cup {NoTarget} :
           \/ /\ c.what = IF v = 1 THEN "enable" ELSE "mask"
              /\ remote' = [s \in Sensors |->
                   IF s = c.sensor THEN [remote[s] EXCEPT !.state = v] ELSE remote[s]]
           \/ /\ \/ c.what = "assign" /\ t = c.target
                 \/ c.what = "delete" /\ t = NoTarget
              /\ remote' = [s \in Sensors |->
                   IF s = c.sensor THEN [remote[s] EXCEPT !.target = t] ELSE remote[s]]
    BY <1>1, CommandRows
  <2>2. UNCHANGED <<worker, toggled, handler, qy_read, lights, room>>
    BY <1>1, CommandSteps
  <2>3. \A s \in Sensors :
          /\ remote[s] \in Row
          /\ [remote[s] EXCEPT !.state = v] \in Row
          /\ [remote[s] EXCEPT !.target = t] \in Row
    BY RowTypes
  <2>4. remote' \in [Sensors -> Row]
    BY <2>1, <2>3
  <2> QED BY <2>2, <2>4 DEF handler, lights, room, Row
<1>2. CASE ToggleRead
  <2>1. PICK c \in Commands : Command(c) /\ c.what = "toggle"
                              /\ toggled' = <<c.sensor, remote[c.sensor].state>>
    BY <1>2 DEF ToggleRead
  <2>2. c.sensor \in Toggled
    BY <2>1, CommandTypes DEF Toggled
  <2> QED BY <1>2, <2>1, <2>2, CommandTypes DEF ToggleRead, Command, handler, lights, room, Toggled
<1>3. CASE ToggleWrite
  BY <1>3, ZenonT(60) DEF ToggleWrite, handler, lights, room, Toggled
<1>5. CASE data_to_clo_thread
  BY <1>5 DEF data_to_clo_thread, clowire, handler, lights
<1>6. CASE TakeReport
  BY <1>6, TakenReport DEF TakeReport, clowire, lights, room
<1>7. CASE remote_table_read
  BY <1>7 DEF remote_table_read, clowire, lights, room
<1>8. CASE remote_read_num
  <2> DEFINE others == {s \in Sensors \ {report.sensor} : remote[s].target = target}
  <2>1. IsFiniteSet(others)
    BY FS_Subset, PirAssumption DEF PirAssumption
  <2>2. SetToSeq(others) \in Seq(Sensors)
    BY <2>1, SetToSeqType
  <2> QED BY <1>8, <2>2 DEF remote_read_num, clowire, lights, room
<1>9. CASE send_cmd
  <2>1. CASE Acts /\ target # NoTarget
    <3>1. Switch(report.motion) /\ target \in Targets /\ report.motion \in BOOLEAN
      BY <1>9, <2>1 DEF send_cmd
    <3>2. /\ clo_read' \in Seq(Scenes) /\ lit' \in [Targets -> BOOLEAN]
          /\ overtaken' \subseteq Scenes
      BY <3>1, SwitchEffect
    <3> QED BY <1>9, <3>2 DEF send_cmd, clowire, room
  <2>2. CASE ~ (Acts /\ target # NoTarget)
    BY <1>9, <2>2 DEF send_cmd, clowire, room, lights
  <2> QED BY <2>1, <2>2
<1>10. CASE save_pir_value
  <2> DEFINE v == IF report.motion THEN 1 ELSE 0
  <2>1. report.sensor \in Sensors /\ v \in {0, 1}
    BY <1>10 DEF save_pir_value
  <2>2. remote' = [s \in Sensors |->
          IF s = report.sensor THEN [remote[s] EXCEPT !.value = v] ELSE remote[s]]
    BY <1>10, <2>1, RowUpdates DEF save_pir_value
  <2>3. remote' \in [Sensors -> Row]
    BY <2>1, <2>2, RowTypes
  <2> QED BY <1>10, <2>3 DEF save_pir_value, clowire, lights, room, Row
<1>11. CASE TakeTrigger
  <2>1. clo_read # <<>> /\ clo_read' = Tail(clo_read)
        /\ lit' = [lit EXCEPT ![Head(clo_read)] = TRUE]
    BY <1>11 DEF TakeTrigger
  <2>2. clo_read' \in Seq(Scenes)
    BY <2>1, TriggerQueue
  <2>3. lit' \in [Targets -> BOOLEAN]
    BY <2>1
  <2> QED BY <1>11, <2>2, <2>3 DEF TakeTrigger, clowire, handler, room
<1>12. CASE NoTrigger \/ NoReport
  BY <1>12 DEF NoTrigger, NoReport, clowire, room, lights
<1>13. CASE UNCHANGED vars
  BY <1>13 DEF vars, clowire, handler, lights, room
<1> QED
  BY <1>1, <1>2, <1>3, <1>5, <1>6, <1>7, <1>8, <1>9, <1>10, <1>11, <1>12, <1>13
  DEF Next, get_handle, pir_handler

--------------------------------------------------------------------------------
(* Values.                                                                  *)

(* A command never masks such a sensor and never touches its value.         *)
LEMMA CommandsKeepValues ==
  ASSUME TypeOK, ShapeInv, NEW s \in Sensors, NeverMasked(s),
         pir_control \/ ToggleRead \/ ToggleWrite \/ delay_config_inf
  PROVE  /\ remote[s].state = 1 => remote'[s].state = 1
         /\ remote'[s].value = remote[s].value
         /\ UNCHANGED <<qy_read, handler, seen>>
<1> USE DEF TypeOK, ShapeInv
<1>1. CASE pir_control \/ delay_config_inf
  <2>1. PICK c \in Commands, v \in {0, 1}, t \in Targets \cup {NoTarget} :
           \/ /\ c.what = IF v = 1 THEN "enable" ELSE "mask"
              /\ remote' = [p \in Sensors |->
                   IF p = c.sensor THEN [remote[p] EXCEPT !.state = v] ELSE remote[p]]
           \/ /\ \/ c.what = "assign" /\ t = c.target
                 \/ c.what = "delete" /\ t = NoTarget
              /\ remote' = [p \in Sensors |->
                   IF p = c.sensor THEN [remote[p] EXCEPT !.target = t] ELSE remote[p]]
    BY <1>1, CommandRows
  <2>2. UNCHANGED <<worker, toggled, handler, qy_read, lights, room>>
    BY <1>1, CommandSteps
  <2>3. c.what = "mask" => c.sensor # s
    BY DEF NeverMasked
  <2> QED BY <2>1, <2>2, <2>3 DEF room
<1>2. CASE ToggleRead
  BY <1>2 DEF ToggleRead, room
<1>3. CASE ToggleWrite
  <2>1. toggled[1] \in Sensors /\ toggled[1] # s
    BY <1>3 DEF ToggleWrite, Toggled, NeverMasked
  <2> QED BY <1>3, <2>1 DEF ToggleWrite, room
<1> QED BY <1>1, <1>2, <1>3

(* Every step keeps the values.                                              *)
LEMMA NextValues ==
  ASSUME TypeOK, ShapeInv, ValuesInv, [Next]_vars
  PROVE  ValuesInv'
<1> SUFFICES ASSUME NEW s \in Sensors, NeverMasked(s)
    PROVE  (/\ remote[s].state = 1
            /\ \A i \in DOMAIN qy_read :
                 /\ qy_read[i].sensor = s
                 /\ \A j \in DOMAIN qy_read : j > i => qy_read[j].sensor # s
                 => qy_read[i].motion = seen[s]
            /\ (\A i \in DOMAIN qy_read : qy_read[i].sensor # s) =>
                 IF Handled(s) THEN report.motion = seen[s]
                 ELSE remote[s].value = 1 <=> seen[s])'
  BY DEF ValuesInv, NeverMasked
<1>0. /\ remote[s].state = 1
      /\ \A i \in DOMAIN qy_read :
           /\ qy_read[i].sensor = s
           /\ \A j \in DOMAIN qy_read : j > i => qy_read[j].sensor # s
           => qy_read[i].motion = seen[s]
      /\ (\A i \in DOMAIN qy_read : qy_read[i].sensor # s) =>
           IF Handled(s) THEN report.motion = seen[s] ELSE remote[s].value = 1 <=> seen[s]
  BY DEF ValuesInv
<1>1. CASE pir_control \/ ToggleRead \/ ToggleWrite \/ delay_config_inf
  BY <1>0, <1>1, CommandsKeepValues DEF handler, Handled, InHandler
<1>2. CASE data_to_clo_thread
  <2>1. PICK p \in Sensors :
          /\ seen' = [seen EXCEPT ![p] = ~ @]
          /\ qy_read' = Append(qy_read, [sensor |-> p, motion |-> ~ seen[p]])
    BY <1>2 DEF data_to_clo_thread
  <2>2. UNCHANGED <<remote, handler>>
    BY <1>2 DEF data_to_clo_thread
  <2>3. /\ qy_read \in Seq(Report) /\ seen \in [Sensors -> BOOLEAN]
        /\ DOMAIN qy_read = 1 .. Len(qy_read) /\ Len(qy_read) \in Nat
        /\ DOMAIN qy_read' = 1 .. Len(qy_read) + 1
        /\ \A i \in DOMAIN qy_read : qy_read'[i] = qy_read[i]
        /\ qy_read'[Len(qy_read) + 1] = [sensor |-> p, motion |-> ~ seen[p]]
    BY <2>1 DEF ShapeInv, TypeOK
  <2>4. CASE p = s
    BY <1>0, <2>1, <2>2, <2>3, <2>4, SMTT(30)
  <2>5. CASE p # s
    BY <1>0, <2>1, <2>2, <2>3, <2>5 DEF handler, Handled, InHandler
  <2> QED BY <2>4, <2>5
<1>3. CASE TakeReport
  <2>1. /\ qy_read \in Seq(Report) /\ qy_read # <<>> /\ Len(qy_read) \in Nat \ {0}
        /\ DOMAIN qy_read = 1 .. Len(qy_read)
        /\ DOMAIN qy_read' = 1 .. Len(qy_read) - 1
        /\ \A i \in DOMAIN qy_read' : qy_read'[i] = qy_read[i + 1]
        /\ report' = qy_read[1]
    BY <1>3 DEF TakeReport, ShapeInv
  <2>2. /\ UNCHANGED <<remote, seen>>
        /\ main = "qiyuan"
        /\ main' = IF remote[report'.sensor].state = 0 THEN "qiyuan" ELSE "target"
    BY <1>3 DEF TakeReport, room
  <2>3. \A i \in DOMAIN qy_read' :
           /\ qy_read'[i].sensor = s
           /\ \A j \in DOMAIN qy_read' : j > i => qy_read'[j].sensor # s
           => qy_read'[i].motion = seen[s]
    <3> SUFFICES ASSUME NEW i \in DOMAIN qy_read', qy_read'[i].sensor = s,
                        \A j \in DOMAIN qy_read' : j > i => qy_read'[j].sensor # s
                 PROVE  qy_read'[i].motion = seen[s]
      OBVIOUS
    <3>1. i + 1 \in DOMAIN qy_read /\ qy_read[i + 1].sensor = s
      BY <2>1
    <3>2. ASSUME NEW j \in DOMAIN qy_read, j > i + 1 PROVE qy_read[j].sensor # s
      <4>1. j - 1 \in DOMAIN qy_read' /\ j - 1 > i /\ (j - 1) + 1 = j
        BY <2>1, <3>2
      <4> QED BY <2>1, <4>1
    <3> QED BY <1>0, <2>1, <3>1, <3>2
  <2>4. ASSUME \A i \in DOMAIN qy_read' : qy_read'[i].sensor # s
        PROVE  IF Handled(s)' THEN report'.motion = seen'[s]
               ELSE remote'[s].value = 1 <=> seen'[s]
    <3>1. \A j \in DOMAIN qy_read : j > 1 => qy_read[j].sensor # s
      <4> SUFFICES ASSUME NEW j \in DOMAIN qy_read, j > 1 PROVE qy_read[j].sensor # s
        OBVIOUS
      <4>1. j - 1 \in DOMAIN qy_read' /\ (j - 1) + 1 = j
        BY <2>1
      <4> QED BY <2>1, <2>4, <4>1
    <3>2. CASE qy_read[1].sensor = s
      BY <1>0, <2>1, <2>2, <3>1, <3>2 DEF Handled, InHandler
    <3>3. CASE qy_read[1].sensor # s
      <4>1. \A j \in DOMAIN qy_read : qy_read[j].sensor # s
        BY <2>1, <3>1, <3>3
      <4> QED BY <1>0, <2>1, <2>2, <3>3, <4>1 DEF Handled, InHandler
    <3> QED BY <3>2, <3>3
  <2> QED BY <1>0, <2>2, <2>3, <2>4
<1>4. CASE remote_table_read \/ remote_read_num \/ send_cmd
  BY <1>0, <1>4 DEF remote_table_read, remote_read_num, send_cmd, room, Handled, InHandler
<1>7. CASE TakeTrigger \/ NoTrigger \/ NoReport
  BY <1>0, <1>7 DEF TakeTrigger, NoTrigger, NoReport, room, handler, Handled, InHandler
<1>5. CASE save_pir_value
  <2>1. report \in Report /\ UNCHANGED <<qy_read, seen>> /\ main = "save" /\ main' = "qiyuan"
    BY <1>5 DEF save_pir_value, ShapeInv, InHandler, room
  <2>2. /\ remote'[s].state = remote[s].state
        /\ remote'[s].value = IF report.sensor # s THEN remote[s].value
                              ELSE IF report.motion THEN 1 ELSE 0
    BY <1>5, <2>1 DEF save_pir_value, TypeOK, Report
  <2> QED BY <1>0, <2>1, <2>2 DEF Handled, InHandler, Report
<1>6. CASE UNCHANGED vars
  BY <1>0, <1>6 DEF vars, handler, room, Handled, InHandler
<1> QED
  BY <1>1, <1>2, <1>3, <1>4, <1>5, <1>6, <1>7 DEF Next, get_handle, pir_handler

--------------------------------------------------------------------------------
(* Lights.                                                                  *)

(* A command gives no other sensor the target, and leaves it its sensor.    *)
LEMMA CommandsKeepTarget ==
  ASSUME TypeOK, ShapeInv, NEW s \in Sensors, KeepsTarget(s), Alone(s),
         remote[s].target = Assigned[s],
         \A p \in Sensors \ {s} : remote[p].target # Assigned[s],
         pir_control \/ ToggleRead \/ ToggleWrite \/ delay_config_inf
  PROVE  /\ remote'[s].target = Assigned[s]
         /\ \A p \in Sensors \ {s} : remote'[p].target # Assigned[s]
         /\ remote'[s].value = remote[s].value
         /\ UNCHANGED <<handler, lights>>
<1> USE DEF TypeOK, ShapeInv
<1>1. CASE pir_control \/ delay_config_inf
  <2>1. PICK c \in Commands, v \in {0, 1}, t \in Targets \cup {NoTarget} :
           \/ /\ c.what = IF v = 1 THEN "enable" ELSE "mask"
              /\ remote' = [p \in Sensors |->
                   IF p = c.sensor THEN [remote[p] EXCEPT !.state = v] ELSE remote[p]]
           \/ /\ \/ c.what = "assign" /\ t = c.target
                 \/ c.what = "delete" /\ t = NoTarget
              /\ remote' = [p \in Sensors |->
                   IF p = c.sensor THEN [remote[p] EXCEPT !.target = t] ELSE remote[p]]
    BY <1>1, CommandRows
  <2>2. UNCHANGED <<worker, toggled, handler, qy_read, lights, room>>
    BY <1>1, CommandSteps
  <2>3. CASE remote' = [p \in Sensors |->
                 IF p = c.sensor THEN [remote[p] EXCEPT !.state = v] ELSE remote[p]]
    BY <2>2, <2>3
  <2>4. CASE /\ \/ c.what = "assign" /\ t = c.target
                \/ c.what = "delete" /\ t = NoTarget
             /\ remote' = [p \in Sensors |->
                  IF p = c.sensor THEN [remote[p] EXCEPT !.target = t] ELSE remote[p]]
    <3>1. c.sensor # s /\ t # Assigned[s]
      BY <2>4 DEF KeepsTarget, Alone
    <3> QED BY <2>2, <2>4, <3>1
  <2> QED BY <2>1, <2>3, <2>4
<1>2. CASE ToggleRead
  BY <1>2 DEF ToggleRead
<1>3. CASE ToggleWrite
  <2>1. toggled[1] \in Sensors
    BY <1>3 DEF ToggleWrite, Toggled
  <2> QED BY <1>3, <2>1 DEF ToggleWrite
<1> QED BY <1>1, <1>2, <1>3

(* Every step keeps the lights.                                              *)
LEMMA NextLight ==
  ASSUME TypeOK, ShapeInv, LightInv, [Next]_vars
  PROVE  LightInv'
<1> SUFFICES ASSUME NEW s \in Sensors, KeepsTarget(s), Alone(s)
    PROVE  (/\ remote[s].target = Assigned[s]
            /\ \A p \in Sensors \ {s} : remote[p].target # Assigned[s]
            /\ main \in {"group", "decide"} => (target = Assigned[s] <=> report.sensor = s)
            /\ main = "decide" /\ report.sensor = s => nums = <<>>
            /\ IF main = "save" /\ report.sensor = s
               THEN Lit(Assigned[s]) <=> report.motion \/ Assigned[s] \in overtaken
               ELSE Lit(Assigned[s]) <=> remote[s].value = 1 \/ Assigned[s] \in overtaken)'
  BY DEF LightInv, KeepsTarget, Alone
<1>0. /\ remote[s].target = Assigned[s]
      /\ \A p \in Sensors \ {s} : remote[p].target # Assigned[s]
      /\ main \in {"group", "decide"} => (target = Assigned[s] <=> report.sensor = s)
      /\ main = "decide" /\ report.sensor = s => nums = <<>>
      /\ IF main = "save" /\ report.sensor = s
         THEN Lit(Assigned[s]) <=> report.motion \/ Assigned[s] \in overtaken
         ELSE Lit(Assigned[s]) <=> remote[s].value = 1 \/ Assigned[s] \in overtaken
  BY DEF LightInv
<1>a. Assigned[s] \in Targets /\ NoTarget \notin Targets
  BY PirAssumption DEF PirAssumption, KeepsTarget
<1>1. CASE pir_control \/ ToggleRead \/ ToggleWrite \/ delay_config_inf
  BY <1>0, <1>1, CommandsKeepTarget DEF handler, lights, Lit
<1>2. CASE data_to_clo_thread
  BY <1>0, <1>2 DEF data_to_clo_thread, handler, lights, Lit
<1>3. CASE TakeReport
  BY <1>0, <1>3 DEF TakeReport, lights, Lit
<1>4. CASE remote_table_read
  <2>1. report.sensor \in Sensors
    BY <1>4 DEF remote_table_read, ShapeInv, InHandler, Report
  <2> QED BY <1>0, <1>4, <2>1 DEF remote_table_read, lights, Lit
<1>5. CASE remote_read_num
  <2> DEFINE others == {p \in Sensors \ {report.sensor} : remote[p].target = target}
  <2>1. /\ nums' = SetToSeq(others) /\ main = "group" /\ main' = "decide"
        /\ UNCHANGED <<remote, report, target, lights>>
    BY <1>5 DEF remote_read_num
  <2>2. ASSUME report.sensor = s PROVE nums' = <<>>
    <3>1. others = {}
      BY <1>0, <2>1, <2>2
    <3> QED BY <2>1, <3>1, SetToSeqType, FS_EmptySet
  <2> QED BY <1>0, <2>1, <2>2 DEF lights, Lit
<1>6. CASE send_cmd
  <2>1. /\ main = "decide" /\ main' = "save" /\ UNCHANGED <<remote, report>>
        /\ report \in Report /\ target \in Targets \cup {NoTarget}
    BY <1>6 DEF send_cmd, ShapeInv, InHandler, TypeOK
  <2>2. report.sensor = s => Acts /\ target = Assigned[s]
    BY <1>0, <2>1 DEF Acts
  <2>3. CASE Acts /\ target # NoTarget
    <3>1. Switch(report.motion) /\ target \in Targets /\ report.motion \in BOOLEAN
      BY <1>6, <2>1, <2>3 DEF send_cmd, Report
    <3>2. \A t \in Targets :
            IF t = target
            THEN Lit(t)' <=> report.motion \/ t \in overtaken'
            ELSE (Lit(t)' <=> Lit(t)) /\ (t \in overtaken' <=> t \in overtaken)
      BY <3>1, SwitchEffect
    <3>3. CASE report.sensor = s
      <4>1. (Lit(Assigned[s]) <=> report.motion \/ Assigned[s] \in overtaken)'
        BY <1>a, <2>1, <2>2, <3>2, <3>3 DEF Lit
      <4> QED BY <1>0, <2>1, <3>3, <4>1
    <3>4. CASE report.sensor # s
      <4>1. target # Assigned[s]
        BY <1>0, <2>1, <3>4
      <4>2. (Lit(Assigned[s])' <=> Lit(Assigned[s]))
            /\ (Assigned[s] \in overtaken' <=> Assigned[s] \in overtaken)
        BY <1>a, <3>2, <4>1 DEF Lit
      <4> QED BY <1>0, <2>1, <3>4, <4>2
    <3> QED BY <3>3, <3>4
  <2>4. CASE ~ (Acts /\ target # NoTarget)
    <3>1. UNCHANGED lights /\ report.sensor # s
      BY <1>6, <1>a, <2>2, <2>4 DEF send_cmd
    <3> QED BY <1>0, <2>1, <3>1 DEF lights, Lit
  <2> QED BY <2>3, <2>4
<1>7. CASE save_pir_value
  <2>1. /\ report \in Report /\ UNCHANGED <<report, target, nums, lights>>
        /\ main = "save" /\ main' = "qiyuan"
    BY <1>7 DEF save_pir_value, ShapeInv, InHandler
  <2>2. \A p \in Sensors :
          /\ remote'[p].target = remote[p].target
          /\ remote'[p].value = IF report.sensor # p THEN remote[p].value
                                ELSE IF report.motion THEN 1 ELSE 0
    BY <1>7, <2>1 DEF save_pir_value, TypeOK, Report
  <2> QED BY <1>0, <2>1, <2>2 DEF Report, lights, Lit
<1>8. CASE TakeTrigger
  <2>1. /\ main = "clowire" /\ UNCHANGED <<remote, handler, overtaken>>
        /\ clo_read # <<>> /\ clo_read' = Tail(clo_read)
        /\ lit' = [lit EXCEPT ![Head(clo_read)] = TRUE]
    BY <1>8 DEF TakeTrigger
  <2>2. /\ Head(clo_read) \in Scenes /\ ToSet(clo_read) = {Head(clo_read)} \cup ToSet(clo_read')
    BY <2>1, TriggerQueue DEF TypeOK
  <2>3. lit \in [Targets -> BOOLEAN]
    BY DEF TypeOK
  <2>4. Lit(Assigned[s])' <=> Lit(Assigned[s])
    BY <1>a, <2>1, <2>2, <2>3 DEF Lit
  <2> QED BY <1>0, <2>1, <2>4 DEF handler
<1>9. CASE NoTrigger \/ NoReport
  BY <1>0, <1>9 DEF NoTrigger, NoReport, lights, Lit
<1>10. CASE UNCHANGED vars
  BY <1>0, <1>10 DEF vars, handler, lights, Lit
<1> QED
  BY <1>1, <1>2, <1>3, <1>4, <1>5, <1>6, <1>7, <1>8, <1>9, <1>10 DEF Next, get_handle, pir_handler

--------------------------------------------------------------------------------

(* The inductive invariant.                                                 *)
THEOREM Inductive == Spec => []IInv
<1>1. IInv /\ [Next]_vars => IInv'
  BY NextTypes, NextValues, NextLight DEF IInv
<1> QED BY InitIInv, <1>1, PTL DEF Spec

(* The type invariant of PirControl.                                        *)
THEOREM TypeCorrect == Spec => []TypeOK
<1>1. IInv => TypeOK
  BY DEF IInv
<1> QED BY Inductive, <1>1, PTL

(* A target with a sensor of its own, lamp or scene, stands at rest as the  *)
(* value saved for that sensor says, whatever was masked, toggled or        *)
(* assigned meanwhile, unless it is a scene that was switched off ahead of  *)
(* the recall its sensor had asked for, and then it is on.                  *)
THEOREM LightFollows == Spec => []LightFollowsSensor
<1>1. IInv => LightFollowsSensor
  BY DEF IInv, LightInv, LightFollowsSensor, AtRest, Lit, ToSet
<1> QED BY Inductive, <1>1, PTL

(* At rest the value saved for a sensor that is never masked says whether   *)
(* the sensor sees motion.                                                  *)
THEOREM ValuesStayCurrent == Spec => []ValuesCurrent
<1>1. IInv => ValuesCurrent
  BY DEF IInv, ValuesInv, ValuesCurrent, AtRest, Handled, InHandler
<1> QED BY Inductive, <1>1, PTL

================================================================================
