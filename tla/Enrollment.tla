------------------------------- MODULE Enrollment ------------------------------
(****************************************************************************)
(* Joining the Clowire network.  The thread monitor_button announces the    *)
(* first module of addr.txt when the button is pressed, and lights the LED; *)
(* the main loop announces the module after the one that the network has    *)
(* accepted, and switches the LED off after the last (send_innet_cmd).      *)
(* Nothing is repeated: who loses an announcement presses again.            *)
(*                                                                          *)
(* An announcement is its address.  The network is outside: it accepts,     *)
(* refuses, or loses, and answers modules of others on the same bus.  What  *)
(* is on the bus when the gateway is stopped has gone when it is back.      *)
(****************************************************************************)
EXTENDS Startup

CONSTANTS
  Foreign,       (* addresses of modules of others                          *)
  MaxPresses,    (* bounds                                                  *)
  MaxForeign

ASSUME EnrollmentAssumption ==
  Foreign \subseteq 0 .. 255 /\ MaxPresses \in Nat /\ MaxForeign \in Nat

VARIABLES
  button, pressed,   (* monitor_button: its place, the address it announces *)
  loop, next,        (* send_innet_cmd                                      *)
  led,
  queue_write,       (* announcements for the bus                           *)
  queue_read,        (* answers for the main loop                           *)
  accepted,          (* by the network, since the gateway was started       *)
  begun,             (* the first module was announced by its address ...   *)
  early,             (* ... or by another, while the dial was being read    *)
  trouble,           (* something was refused or lost                       *)
  presses, answers

threads == <<button, pressed, loop, next, led>>
network == <<accepted, queue_write, queue_read>>
seen    == <<begun, early, trouble>>
bounds  == <<presses, answers>>
enroll  == <<threads, network, seen, bounds>>
vars    == <<startup, enroll>>

Answer(dev, ok) == [dev |-> dev, ok |-> ok]

Init ==
  /\ StartupInit
  /\ button = "watch" /\ pressed = 0 /\ loop = "get_handle" /\ next = 0
  /\ led = FALSE
  /\ queue_write = <<>> /\ queue_read = <<>> /\ accepted = {}
  /\ begun = FALSE /\ early = FALSE /\ trouble = FALSE
  /\ presses = 0 /\ answers = 0

qy_dev_num == DIMMER_CNT + PIR_NUM
LineOf(seq) == UCHAR(addr + seq - 1)
OwnModules ==
  {LineOf(seq) : seq \in {k \in 1 .. qy_dev_num : addr \notin {Missing, Empty}}}

--------------------------------------------------------------------------------
(* The button.                                                              *)

(* read_addr_file: without a line the number is 0.                          *)
Announced(seq) == IF addr = Empty THEN 0 ELSE LineOf(seq)

Press ==
  /\ on /\ button = "watch" /\ addr # Missing
  /\ presses < MaxPresses
  /\ presses' = presses + 1
  /\ pressed' = Announced(1)
  /\ early' = (early \/ reader \notin {"photometric", "scene", "remote", "dimmer", "done"})
  /\ button' = "enqueue"
  /\ UNCHANGED <<startup, loop, next, led, network, begun, trouble, answers>>

cbus_enqueue ==
  /\ on /\ button = "enqueue"
  /\ queue_write' = Append(queue_write, pressed)
  /\ begun' = (begun \/ ~ early)
  /\ button' = "light"
  /\ UNCHANGED <<startup, pressed, loop, next, led, queue_read, accepted, early, trouble, bounds>>

Light ==
  /\ on /\ button = "light"
  /\ led' = TRUE
  /\ button' = "watch" /\ pressed' = 0
  /\ UNCHANGED <<startup, loop, next, network, seen, bounds>>

monitor_button == cbus_enqueue \/ Light

--------------------------------------------------------------------------------
(* The network.                                                             *)

Take == queue_write # <<>> /\ queue_write' = Tail(queue_write)

Accept ==
  /\ Take
  /\ accepted' = accepted \cup {Head(queue_write)}
  /\ queue_read' = Append(queue_read, Answer(Head(queue_write), TRUE))
  /\ UNCHANGED trouble

Decline ==
  /\ Take
  /\ trouble' = TRUE
  /\ queue_read' = Append(queue_read, Answer(Head(queue_write), FALSE))
  /\ UNCHANGED accepted

Lose ==
  /\ Take
  /\ trouble' = TRUE
  /\ \/ UNCHANGED <<queue_read, accepted>>
     \/ accepted' = accepted \cup {Head(queue_write)} /\ UNCHANGED queue_read

Network ==
  /\ on
  /\ Accept \/ Decline \/ Lose
  /\ UNCHANGED <<startup, threads, begun, early, bounds>>

AnswerOthers ==
  /\ on /\ answers < MaxForeign
  /\ answers' = answers + 1
  /\ \E dev \in Foreign : queue_read' = Append(queue_read, Answer(dev, TRUE))
  /\ UNCHANGED <<startup, threads, queue_write, accepted, seen, presses>>

--------------------------------------------------------------------------------
(* The main loop: event_handler with IN_NET_CALLBACK.                       *)

(* A line of addr.txt has the address after its name.                       *)
IsOwn(dev) ==
  /\ addr \notin {Missing, Empty}
  /\ match_addr(dev, addr, DIMMER_CNT) \/ match_addr(dev, addr + DIMMER_CNT, PIR_NUM)

BrokenSameLine(dev) ==
  CHOOSE seq \in 1 .. qy_dev_num :
    /\ BeginsWith(LineOf(seq), dev)
    /\ \A k \in 1 .. seq - 1 : ~ BeginsWith(LineOf(k), dev)

(* The line after the first that has the address.                           *)
match_innet_dev(dev) ==
  1 + CHOOSE seq \in 1 .. qy_dev_num :
        /\ BeginsWith(LineOf(seq), dev)
        /\ \A k \in 1 .. seq - 1 : ~ BeginsWith(LineOf(k), dev)

BrokenOffAtLast(seq) ==
  IF seq >= qy_dev_num
  THEN led' = FALSE /\ UNCHANGED <<loop, next>>
  ELSE loop' = "sleep" /\ next' = Announced(seq) /\ UNCHANGED led

(* led_off after the last module, config_data_innet for the next before it. *)
NextModule(seq) ==
  IF seq > qy_dev_num
  THEN led' = FALSE /\ UNCHANGED <<loop, next>>
  ELSE loop' = "sleep" /\ next' = Announced(seq) /\ UNCHANGED led

(* A refusal is only printed.                                               *)
TakeAnswer ==
  /\ on /\ loop = "get_handle" /\ queue_read # <<>>
  /\ queue_read' = Tail(queue_read)
  /\ LET answer == Head(queue_read)
     IN  IF IsOwn(answer.dev) /\ answer.ok
         THEN NextModule(match_innet_dev(answer.dev))
         ELSE UNCHANGED <<loop, next, led>>
  /\ UNCHANGED <<startup, button, pressed, queue_write, accepted, seen, bounds>>

(* A second later.                                                          *)
SendNext ==
  /\ on /\ loop = "sleep"
  /\ queue_write' = Append(queue_write, next)
  /\ loop' = "get_handle" /\ next' = 0
  /\ UNCHANGED <<startup, button, pressed, led, queue_read, accepted, seen, bounds>>

send_innet_cmd == TakeAnswer \/ SendNext

--------------------------------------------------------------------------------

(* The gateway is started, or it is stopped with all that was under way.    *)
Begin == main /\ UNCHANGED enroll

End ==
  /\ Stop
  /\ button' = "watch" /\ pressed' = 0 /\ loop' = "get_handle" /\ next' = 0
  /\ led' = FALSE
  /\ queue_write' = <<>> /\ queue_read' = <<>> /\ accepted' = {}
  /\ begun' = FALSE /\ early' = FALSE /\ trouble' = FALSE
  /\ UNCHANGED bounds

Background == Turn \/ Save \/ read_addr \/ remote_init_thread

Next ==
  \/ Begin \/ End
  \/ Background /\ UNCHANGED enroll
  \/ Press \/ monitor_button
  \/ Network \/ AnswerOthers
  \/ send_innet_cmd

(* The threads go on, and the network answers, or loses, what it gets.      *)
Fairness ==
  WF_vars(monitor_button) /\ WF_vars(send_innet_cmd) /\ WF_vars(Network)

Spec == Init /\ [][Next]_vars /\ Fairness

--------------------------------------------------------------------------------
(* Properties.                                                              *)

(* Type invariant.                                                          *)
TypeOK ==
  /\ StartupTypeOK
  /\ button \in {"watch", "enqueue", "light"} /\ loop \in {"get_handle", "sleep"}
  /\ pressed \in 0 .. 255 /\ next \in 0 .. 255
  /\ led \in BOOLEAN
  /\ queue_write \in Seq(0 .. 255)
  /\ queue_read \in Seq([dev : 0 .. 255, ok : BOOLEAN])
  /\ accepted \subseteq 0 .. 255
  /\ begun \in BOOLEAN /\ early \in BOOLEAN /\ trouble \in BOOLEAN
  /\ presses \in 0 .. MaxPresses /\ answers \in 0 .. MaxForeign

(* When the LED goes out all modules have been accepted: no announcement is *)
(* skipped, whatever is answered, refused, lost, or pressed again meanwhile.*)
(* This is of a button that is pressed when addr.txt is up to date.         *)
LedOffMeansEnrolled ==
  [][led /\ ~ led' /\ on' /\ ~ early => OwnModules \subseteq accepted]_vars

(* The same of any press.                                                   *)
LedNeverMisleads == [][led /\ ~ led' /\ on' => OwnModules \subseteq accepted]_vars

(* One press is enough: if nothing is refused or lost, all modules join.    *)
EnrollmentCompletes ==
  begun ~> ~ on \/ trouble \/ OwnModules \subseteq accepted

(* The LED does not stay on when all is done.                               *)
LedGoesOut ==
  led ~> ~ led \/ trouble \/ early

================================================================================
