---------------------------- MODULE MoveCommand -----------------------------
(***************************************************************************)
(* The move command of example/go2/typego_control_interface.cpp: a worker  *)
(* drives the robot by (dx, dy), given in the world's frame or in the      *)
(* frame of the robot's own heading, and holds that heading.               *)
(*                                                                         *)
(* x, y and yaw are read from high_state one after the other, and the DDS  *)
(* thread replaces high_state meanwhile: a pose can be made of two         *)
(* messages.  Lengths are integers; yaws are quarter turns, so that sine   *)
(* and cosine are exact, and are reported between -2 and 2 as between -pi  *)
(* and pi.  The integral and derivative gains of the three PIDs are 0, so  *)
(* one request leaves nothing behind for the next: there is one of them,   *)
(* and the origin is where the robot is when it comes.                     *)
(***************************************************************************)
EXTENDS Integers

CONSTANTS
  Displacements,  \* the (dx, dy) asked for
  control_error,
  OLimit,         \* o_limit of pid_x and pid_y
  OLimitYaw,      \* o_limit of pid_yaw
  MaxStep,        \* how far the robot moves between two state messages
  Extent          \* bound: the robot stays within Extent of the origin

VARIABLES
  high_state,  \* the state message last received
  pc,          \* where the request is, or its answer
  request,     \* its arguments
  target, yaw_target,
  late,        \* ~(now < end_time), for the now of the last pass
  sent,        \* the velocity sent in this pass, in the robot's frame
  startPose    \* history: high_state after the reads before the loop

vars == <<high_state, pc, request, target, yaw_target, late, sent, startPose>>

Coordinate == -Extent .. Extent
Yaw == -2 .. 2
Nothing == [vx |-> 0, vy |-> 0, vyaw |-> 0]

Abs(x) == IF x < 0 THEN -x ELSE x

cos(q) == IF q = 0 THEN 1 ELSE IF Abs(q) = 1 THEN 0 ELSE -1

sin(q) == IF Abs(q) = 1 THEN q ELSE 0

\* A state message has been received: there is no test for it, high_state is all
\* zero until one is, and main only sleeps for a second before it serves.
Init ==
  /\ high_state \in [x : {0}, y : {0}, yaw : Yaw]
  /\ pc = "none"
  /\ request = [d |-> <<0, 0>>, body_frame |-> FALSE]
  /\ target = <<0, 0>> /\ yaw_target = 0
  /\ late = FALSE
  /\ sent = Nothing
  /\ startPose = high_state

-----------------------------------------------------------------------------
(* The robot, which slips, lags and is pushed.                             *)

\* The states that can follow a state: a step along one axis, or a turn.
Near(c) == {e \in Coordinate : Abs(e - c) <= MaxStep}
Neighbours(p) ==
  UNION {{[p EXCEPT !.x = e] : e \in Near(p.x)},
         {[p EXCEPT !.y = e] : e \in Near(p.y)},
         {[p EXCEPT !.yaw = e] : e \in {q \in Yaw : Abs(q - p.yaw) \in {1, 3, 4}}}}

\* The usleep touches nothing: a message received during it is modelled as one
\* received just after it.
_HighStateHandler(p) ==
  /\ pc = "loop"
  /\ p \in Neighbours(high_state)
  /\ high_state' = p
  /\ UNCHANGED <<pc, request, target, yaw_target, late, sent, startPose>>

-----------------------------------------------------------------------------
(* The request.                                                            *)

\* What the reads of x, y and yaw return when the message p is received after
\* the first k of them.  Reading takes far less time than there is between two
\* messages: at most one is received meanwhile.
Read(p, k) ==
  [x   |-> high_state.x,
   y   |-> IF k < 2 THEN p.y ELSE high_state.y,
   yaw |-> IF k < 3 THEN p.yaw ELSE high_state.yaw]

\* Mutation of BodyToWorld: it turns by the yaw the other way.
BodyToWorldInverse(d, yaw) ==
  <<d[1] * cos(yaw) + d[2] * sin(yaw), -d[1] * sin(yaw) + d[2] * cos(yaw)>>

BodyToWorld(d, yaw) ==
  <<d[1] * cos(yaw) - d[2] * sin(yaw), d[1] * sin(yaw) + d[2] * cos(yaw)>>

\* Up to the head of the loop, which is not entered if there is no time at all.
move(d, body_frame, noTime, p, k) ==
  /\ pc = "none"
  /\ request' = [d |-> d, body_frame |-> body_frame]
  /\ LET initial == Read(p, k)
         world == IF body_frame THEN BodyToWorld(d, initial.yaw) ELSE d
     IN /\ target' = <<initial.x + world[1], initial.y + world[2]>>
        /\ yaw_target' = initial.yaw
  /\ late' = noTime
  /\ pc' = "loop"
  /\ high_state' = p /\ startPose' = p
  /\ UNCHANGED sent

\* PID::update with ki = kd = 0: the proportional part within o_limit.
update(kp, o_limit, error) ==
  LET output == kp * error
  IN IF output > o_limit THEN o_limit ELSE IF output < -o_limit THEN -o_limit ELSE output

\* Mutation of WorldToBody: the velocity is not turned.
WorldToBodyForgotten(v, yaw) == v

WorldToBody(v, yaw) ==
  <<v[1] * cos(yaw) + v[2] * sin(yaw), -v[1] * sin(yaw) + v[2] * cos(yaw)>>

\* A pass of the loop up to its usleep; the time may be over when now is read.
Pass(over, p, k) ==
  /\ pc = "loop" /\ ~late
  /\ late' = over
  /\ LET current == Read(p, k)
         remaining == <<target[1] - current.x, target[2] - current.y>>
         v == WorldToBody(<<update(2, OLimit, remaining[1]), update(2, OLimit, remaining[2])>>,
                          current.yaw)
     IN IF \A i \in 1..2 : Abs(remaining[i]) < control_error
        THEN pc' = "SUCCESS" /\ UNCHANGED sent
        ELSE /\ pc' = "sleep"
             /\ sent' = [vx |-> v[1], vy |-> v[2],
                         vyaw |-> update(10, OLimitYaw, yaw_target - current.yaw)]
  /\ high_state' = p
  /\ UNCHANGED <<request, target, yaw_target, startPose>>

\* After the usleep: the head of the loop, which is left when now >= end_time.
Sleep ==
  /\ pc = "sleep" \/ (pc = "loop" /\ late)
  /\ pc' = IF late THEN "TIMEOUT" ELSE "loop"
  /\ sent' = Nothing
  /\ UNCHANGED <<high_state, request, target, yaw_target, late, startPose>>

Next ==
  \/ \E p \in Neighbours(high_state) : _HighStateHandler(p)
  \/ \E p \in Neighbours(high_state), k \in 1..3, b, noTime \in BOOLEAN :
       \E d \in Displacements : move(d, b, noTime, p, k)
  \/ \E p \in Neighbours(high_state), k \in 1..3, over \in BOOLEAN : Pass(over, p, k)
  \/ Sleep

Spec == Init /\ [][Next]_vars

-----------------------------------------------------------------------------
(* Properties.                                                             *)

\* v after q quarter turns to the left, one by one.
Quarter(v) == <<-v[2], v[1]>>
Turned(v, q) ==
  LET p == q % 4
  IN IF p = 0 THEN v ELSE IF p = 1 THEN Quarter(v)
     ELSE IF p = 2 THEN Quarter(Quarter(v)) ELSE Quarter(Quarter(Quarter(v)))

\* A request is answered with success only if the robot has moved by the
\* displacement asked for, in the frame of the heading it had at the start, up
\* to the control error and to what it moves between two state messages, once
\* while the start was read and once while the end was.
MovedAsAsked ==
  pc = "SUCCESS" =>
    \E yaw \in Yaw :
      LET d == IF request.body_frame THEN Turned(request.d, yaw) ELSE request.d
      IN /\ yaw \in {yaw_target, startPose.yaw}
         /\ Abs(high_state.x - startPose.x - d[1]) < control_error + 2 * MaxStep
         /\ Abs(high_state.y - startPose.y - d[2]) < control_error + 2 * MaxStep

\* v is within o_limit and leads to a target that lies further off than the
\* robot moves between two messages.
Approaches(v, remaining) ==
  /\ Abs(v) <= OLimit
  /\ remaining > MaxStep => v > 0
  /\ remaining < -MaxStep => v < 0

\* A step that sends a velocity sends one that leads to the target.
SentTowards ==
  (pc = "loop" /\ pc' = "sleep" /\ high_state'.yaw = high_state.yaw) =>
    LET v == Turned(<<sent'.vx, sent'.vy>>, high_state'.yaw)
    IN /\ Approaches(v[1], target[1] - high_state'.x)
       /\ Approaches(v[2], target[2] - high_state'.y)

\* The velocity sent, which the robot takes in the frame of its heading, leads
\* it towards the target along both axes of the world, unless it turned while
\* its position was being read.
VelocityApproaches == [][SentTowards]_vars

\* A yaw wraps around between -pi and pi: the heading is held by turning the
\* short way, by less than half a turn.
HeadingHeldShortWay ==
  [][(pc = "loop" /\ pc' = "sleep" /\ high_state'.yaw = high_state.yaw) =>
       LET e == (yaw_target - high_state.yaw) % 4
       IN (e = 1 => sent'.vyaw > 0) /\ (e = 3 => sent'.vyaw < 0)]_vars

=============================================================================
