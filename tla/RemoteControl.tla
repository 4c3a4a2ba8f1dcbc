--------------------------- MODULE RemoteControl ----------------------------
(***************************************************************************)
(* The requests of example/go2/typego_control_interface.cpp against one    *)
(* another: app.multithreaded() runs the /control route in several         *)
(* workers, and all of them call the one sport service of the robot.       *)
(*                                                                         *)
(* move and rotate are loops that call Move in every pass, for as long as  *)
(* they take (what they compute is in RotateCommand and MoveCommand); nav  *)
(* and stop make one call, and so do the other commands, which set no      *)
(* velocity.  A call is carried out by the service or is not, and the      *)
(* reply comes later: other workers' calls fall in between.                *)
(***************************************************************************)
EXTENDS Integers

CONSTANT Workers

VARIABLES
  pc,           \* where each worker is in its request
  command,      \* the command of its request
  rslt,         \* what its last call returned
  late,         \* now >= end_time, for the loops
  answer,       \* its last answer
  cancel_flag,
  moving,       \* the service was last told a velocity that is not zero
  undisturbed,  \* history: the stops during which no motion request was running
  quiet,        \* history: such a stop succeeded, and no motion request came since
  overtaken     \* history: the loops that were running when a stop succeeded

vars == <<pc, command, rslt, late, answer, cancel_flag, moving, undisturbed, quiet, overtaken>>
history == <<undisturbed, quiet, overtaken>>

Loops == {"move", "rotate"}
Motions == Loops \cup {"nav"}
\* stand_up, stand_down, shake_hand, euler, stretch and balanced_stand differ in
\* the call they make only.
Commands == Motions \cup {"stop", "simple"}

Init ==
  /\ pc = [w \in Workers |-> "idle"]
  /\ command = [w \in Workers |-> "none"]
  /\ rslt = [w \in Workers |-> 0]
  /\ late = [w \in Workers |-> FALSE]
  /\ answer = [w \in Workers |-> "none"]
  /\ cancel_flag = FALSE
  /\ moving = FALSE
  /\ undisturbed = {} /\ quiet = FALSE /\ overtaken = {}

-----------------------------------------------------------------------------

\* The body is no JSON or names no command: 400.  A field is missing: crow
\* answers 500 to the exception.
Refuse(w, status) ==
  /\ pc[w] = "idle"
  /\ answer' = [answer EXCEPT ![w] = status]
  /\ UNCHANGED <<pc, command, rslt, late, cancel_flag, moving, history>>

\* No motion request is running, apart from w.
NoMotion(w) == \A v \in Workers \ {w} : pc[v] # "idle" => command[v] \notin Motions

Accept(w, c) ==
  /\ pc[w] = "idle"
  /\ command' = [command EXCEPT ![w] = c]
  /\ pc' = [pc EXCEPT ![w] = IF c \in Loops THEN "loop" ELSE "call"]
  /\ cancel_flag' = IF c \in Loops THEN FALSE ELSE cancel_flag
  /\ late' = [late EXCEPT ![w] = FALSE]
  /\ answer' = [answer EXCEPT ![w] = "none"]
  /\ IF c \in Motions
     THEN undisturbed' = {} /\ quiet' = FALSE
     ELSE /\ undisturbed' = IF c = "stop" /\ NoMotion(w) THEN undisturbed \cup {w}
                                                         ELSE undisturbed
          /\ UNCHANGED quiet
  /\ UNCHANGED <<rslt, moving, overtaken>>

\* The request of w is answered.
Answer(w, status) ==
  /\ pc' = [pc EXCEPT ![w] = "idle"]
  /\ answer' = [answer EXCEPT ![w] = status]
  /\ IF command[w] = "stop" /\ status = "SUCCESS"
     THEN /\ quiet' = (quiet \/ w \in undisturbed)
          /\ overtaken' = overtaken \cup {v \in Workers : command[v] \in Loops /\ pc[v] # "idle"}
     ELSE quiet' = quiet /\ overtaken' = overtaken \ {w}
  /\ undisturbed' = undisturbed \ {w}

\* The head of a loop.  A loop that is cancelled calls Move(0, 0, 0) once, which
\* may get lost; but nothing sets cancel_flag: cancel() has no caller.
LoopHead(w) ==
  /\ pc[w] = "loop"
  /\ IF late[w] THEN Answer(w, "TIMEOUT") /\ UNCHANGED moving
     ELSE IF cancel_flag THEN Answer(w, "ERROR") /\ moving' \in {moving, FALSE}
     ELSE pc' = [pc EXCEPT ![w] = "call"] /\ UNCHANGED <<answer, moving, history>>
  /\ UNCHANGED <<command, rslt, late, cancel_flag>>

\* The target is reached.
LoopDone(w) ==
  /\ pc[w] = "call" /\ command[w] \in Loops
  /\ Answer(w, "SUCCESS")
  /\ UNCHANGED <<command, rslt, late, cancel_flag, moving>>

TimeUp(w) ==
  /\ command[w] \in Loops /\ pc[w] # "idle" /\ ~late[w]
  /\ late' = [late EXCEPT ![w] = TRUE]
  /\ UNCHANGED <<pc, command, rslt, answer, cancel_flag, moving, history>>

\* What the call of w makes of the velocity.
MovingAfter(w) ==
  IF command[w] \in Motions THEN TRUE ELSE IF command[w] = "stop" THEN FALSE ELSE moving

\* The sport service carries out the call of w.
Serve(w) ==
  /\ pc[w] = "call"
  /\ pc' = [pc EXCEPT ![w] = "reply"]
  /\ moving' = MovingAfter(w)
  /\ rslt' = [rslt EXCEPT ![w] = 0]
  /\ UNCHANGED <<command, late, answer, cancel_flag, history>>

\* The call is refused or lost, or it is carried out and the reply is lost: the
\* client returns an error.
Fail(w, served) ==
  /\ pc[w] = "call"
  /\ pc' = [pc EXCEPT ![w] = "reply"]
  /\ moving' = IF served THEN MovingAfter(w) ELSE moving
  /\ rslt' = [rslt EXCEPT ![w] = 1]
  /\ UNCHANGED <<command, late, answer, cancel_flag, history>>

\* Mutation of Status: the result of the call is not looked at.
StatusIgnored(w) == "SUCCESS"

\* stop, nav, and the simple commands.
Status(w) == IF rslt[w] # 0 THEN "ERROR" ELSE "SUCCESS"

\* Mutation of Returned: a loop whose call failed tries again at once.
ReturnedRetries(w) ==
  /\ pc[w] = "reply"
  /\ IF command[w] \in Loops
     THEN pc' = [pc EXCEPT ![w] = "call"] /\ UNCHANGED <<answer, history>>
     ELSE Answer(w, Status(w))
  /\ UNCHANGED <<command, rslt, late, cancel_flag, moving>>

\* The call returns.  A loop looks at no result: it sleeps and makes its next pass.
Returned(w) ==
  /\ pc[w] = "reply"
  /\ IF command[w] \in Loops
     THEN pc' = [pc EXCEPT ![w] = "loop"] /\ UNCHANGED <<answer, history>>
     ELSE Answer(w, Status(w))
  /\ UNCHANGED <<command, rslt, late, cancel_flag, moving>>

Call(w) == Serve(w) \/ \E served \in BOOLEAN : Fail(w, served)

Next ==
  \E w \in Workers :
    \/ \E status \in {"400", "500"} : Refuse(w, status)
    \/ \E c \in Commands : Accept(w, c)
    \/ LoopHead(w)
    \/ LoopDone(w)
    \/ TimeUp(w)
    \/ Call(w)
    \/ Returned(w)

Spec == Init /\ [][Next]_vars

-----------------------------------------------------------------------------
(* Properties.                                                             *)

\* A stop that is answered with success has stopped the robot, and it stays
\* stopped until the next motion request, provided no motion request was being
\* handled by another worker meanwhile.
StopHolds == quiet => ~moving

\* Every request is answered, whatever the other workers ask of the robot and
\* however many of the calls fail.
EveryRequestAnswered == \A w \in Workers : (pc[w] # "idle") ~> (pc[w] = "idle")

\* Running motions can be cancelled: a robot that was stopped is not set in
\* motion again by a loop that was running when the stop succeeded.
StopCancelsMotion ==
  [][(~moving /\ moving') =>
       \E w \in Workers \ overtaken : pc[w] = "call" /\ pc'[w] = "reply"]_vars

=============================================================================
