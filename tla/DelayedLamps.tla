------------------------------ MODULE DelayedLamps ------------------------------
(****************************************************************************)
(* What the gateway does for delayed and reverse-delayed actions (README.md,*)
(* "Features"): commands take effect in the order in which they come; a     *)
(* delayed one then starts a clock and joins the line again when it has run *)
(* out; a reverse-delayed one takes effect, and its clock switches the lamp *)
(* off.                                                                     *)
(****************************************************************************)
EXTENDS Integers, Sequences

CONSTANTS Lamps, Values, Delays, Clocks, Off

(* Delay 0: at once; 1..127: after so many seconds; above: at once, and off *)
(* after so many seconds less 128.                                          *)
Command == [lamp : Lamps, value : Values, delay : Delays]

VARIABLES
  level,   (* the value that each lamp was last sent                        *)
  line,    (* the commands that wait for their turn                         *)
  clocks   (* of each clock: what is to be sent, and in how many seconds    *)

vars == <<level, line, clocks>>

AtOnce(lamp, value)     == [lamp |-> lamp, value |-> value, delay |-> 0]
In(seconds, command)    == [next |-> command, left |-> seconds]
Stopped == [next |-> Off, left |-> 0]

Start(seconds, command) == \E c \in Clocks :
  /\ clocks[c] = Stopped
  /\ clocks' = [clocks EXCEPT ![c] = In(seconds, command)]

Init ==
  /\ level = [l \in Lamps |-> 0]
  /\ line = <<>>
  /\ clocks = [c \in Clocks |-> Stopped]

Ask == \E c \in Command : line' = Append(line, c) /\ UNCHANGED <<level, clocks>>

(* The first of the line takes effect, or its clock starts, or both.        *)
Now(c) ==
  /\ c.delay = 0
  /\ level' = [level EXCEPT ![c.lamp] = c.value]
  /\ UNCHANGED clocks

Later(c) ==
  /\ c.delay \in 1 .. 127
  /\ Start(c.delay, AtOnce(c.lamp, c.value))
  /\ UNCHANGED level

ForAWhile(c) ==
  /\ c.delay > 127
  /\ level' = [level EXCEPT ![c.lamp] = c.value]
  /\ Start(c.delay - 128, AtOnce(c.lamp, 0))

Serve ==
  /\ line # <<>>
  /\ line' = Tail(line)
  /\ Now(Head(line)) \/ Later(Head(line)) \/ ForAWhile(Head(line))

Second ==
  /\ clocks' = [c \in Clocks |->
                  [clocks[c] EXCEPT !.left = IF @ > 0 THEN @ - 1 ELSE 0]]
  /\ UNCHANGED <<level, line>>

RunOut == \E c \in Clocks :
  /\ clocks[c] # Stopped /\ clocks[c].left = 0
  /\ line' = Append(line, clocks[c].next)
  /\ clocks' = [clocks EXCEPT ![c] = Stopped]
  /\ UNCHANGED level

Next == Ask \/ Serve \/ Second \/ RunOut

Spec == Init /\ [][Next]_vars

================================================================================
