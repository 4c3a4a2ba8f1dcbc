--------------------------- MODULE RotateCommand ----------------------------
(***************************************************************************)
(* The rotate command of example/go2/typego_control_interface.cpp: a       *)
(* worker thread of the HTTP server turns the robot by delta_rad.  The     *)
(* robot reports its yaw between -pi and pi only; rotate adds up what it   *)
(* sees from one look at high_state to the next and stops when the sum is  *)
(* close to delta_rad, or at the timeout.                                  *)
(*                                                                         *)
(* Angles are integers, Circle of them a full turn.  The robot turns as it *)
(* likes: it slips, overshoots, lags behind the command, and other         *)
(* requests move it at the same time.  cancel() has no caller in the       *)
(* program: cancel_flag stays false.                                       *)
(***************************************************************************)
EXTENDS Integers

CONSTANTS
  Circle,             \* 2 * pi
  control_error_yaw,
  Kp,                 \* kp of pid_yaw; its ki and kd are 0
  OLimit,             \* o_limit of pid_yaw
  MaxTurn,            \* how far the robot turns while nobody looks at its yaw
  Deltas,             \* the angles asked for
  Timeout,            \* the timeout asked for, in ticks of the clock
  MaxTurned           \* bound: how far the robot turns from where it began

ASSUME CircleAssumption == Circle \in Nat /\ Circle > 0 /\ Circle % 2 = 0
ASSUME ErrorAssumption == control_error_yaw \in Nat \ {0}
ASSUME PidAssumption == Kp \in Nat \ {0} /\ OLimit \in Nat \ {0}
ASSUME TurnAssumption == MaxTurn \in Nat /\ 2 * MaxTurn < Circle
ASSUME RequestAssumption == Deltas \subseteq Int /\ Timeout \in Nat
ASSUME BoundAssumption == MaxTurned \in Nat

Half == Circle \div 2

VARIABLES
  yaw,          \* rpy()[2] of the robot
  high_state,   \* its last value received
  request,      \* where the request is
  delta_rad,
  prev_yaw,
  accumulated_angle,
  late,         \* ~(now < end_time), for the now of the last pass
  left,         \* time until end_time
  vyaw,         \* the velocity last sent to the sport service
  turned,       \* history: the angle the robot really turned by
  received,     \* history: turned, when high_state was sent
  seen,         \* history: received, at the last look at high_state
  startedAt     \* history: received, at the start of the request

vars == <<yaw, high_state, request, delta_rad, prev_yaw, accumulated_angle, late, left,
          vyaw, turned, received, seen, startedAt>>

robotVars == <<yaw, turned>>
requestVars == <<request, delta_rad, prev_yaw, accumulated_angle, late, vyaw, seen, startedAt>>

Abs(x) == IF x < 0 THEN -x ELSE x

\* An angle less than a turn out of -Half .. Half is brought back into it.
Wrapped(a) == IF a > Half THEN a - Circle ELSE IF a < -Half THEN a + Circle ELSE a

Answered == {"SUCCESS", "TIMEOUT"}

\* A state message has been received: there is no test for it, high_state is all
\* zero until one is, and main only sleeps for a second before it serves.
Init ==
  /\ yaw \in -Half .. Half
  /\ high_state = yaw
  /\ request = "none"
  /\ delta_rad = 0
  /\ prev_yaw = 0
  /\ accumulated_angle = 0
  /\ late = FALSE
  /\ left = 0
  /\ vyaw = 0
  /\ turned = 0 /\ received = 0 /\ seen = 0 /\ startedAt = 0

-----------------------------------------------------------------------------
(* The robot.                                                              *)

\* The robot turns by d, not further than MaxTurn from where it was at the
\* last look of the loop and when it last sent its state.
Turn(d) ==
  /\ Abs(turned + d) <= MaxTurned
  /\ Abs(turned + d - seen) <= MaxTurn
  /\ Abs(turned + d - received) <= MaxTurn
  /\ turned' = turned + d
  /\ yaw' = Wrapped(yaw + d)
  /\ UNCHANGED <<high_state, received, left, requestVars>>

_HighStateHandler ==
  /\ high_state' = yaw
  /\ received' = turned
  /\ UNCHANGED <<robotVars, left, requestVars>>

Tick ==
  /\ left > 0
  /\ left' = left - 1
  /\ UNCHANGED <<robotVars, high_state, received, requestVars>>

-----------------------------------------------------------------------------
(* The request.                                                            *)

\* late: the loop is not entered if there is no time at all.
rotate(d) ==
  /\ request \in {"none"} \cup Answered
  /\ delta_rad' = d
  /\ prev_yaw' = high_state
  /\ accumulated_angle' = 0
  /\ late' = (Timeout = 0)
  /\ left' = Timeout
  /\ request' = "loop"
  /\ seen' = received /\ startedAt' = received
  /\ UNCHANGED <<robotVars, high_state, received, vyaw>>

\* Mutation of yaw_diff: the wrap-around is handled at one end only.
yaw_diffOneSided ==
  LET d == high_state - prev_yaw IN IF d > Half THEN d - Circle ELSE d

\* "Handle yaw wrap-around"
yaw_diff == Wrapped(high_state - prev_yaw)

remaining_angle == delta_rad - (accumulated_angle + yaw_diff)

\* Mutation of Close: the sign of what is left is forgotten.
CloseOneSided == remaining_angle < control_error_yaw

Close == Abs(remaining_angle) < control_error_yaw

\* PID::update with ki = kd = 0: the proportional part within o_limit.
update(error) ==
  LET output == Kp * error
  IN IF output > OLimit THEN OLimit ELSE IF output < -OLimit THEN -OLimit ELSE output

\* The head of a pass: now is read, and high_state is looked at.
Look ==
  /\ request = "loop"
  /\ ~late
  /\ late' = (left = 0)
  /\ prev_yaw' = high_state
  /\ accumulated_angle' = accumulated_angle + yaw_diff
  /\ seen' = received
  /\ IF Close THEN request' = "SUCCESS" /\ UNCHANGED vyaw
              ELSE request' = "sleep" /\ vyaw' = update(remaining_angle)
  /\ UNCHANGED <<robotVars, high_state, received, left, delta_rad, startedAt>>

\* usleep(dt), and back to the head of the loop.
Sleep ==
  /\ request = "sleep"
  /\ request' = "loop"
  /\ UNCHANGED <<robotVars, high_state, received, left, delta_rad, prev_yaw,
                 accumulated_angle, late, vyaw, seen, startedAt>>

\* now < end_time fails.
Expired == request = "loop" /\ late

GiveUp ==
  /\ Expired
  /\ request' = "TIMEOUT"
  /\ UNCHANGED <<robotVars, high_state, received, left, delta_rad, prev_yaw,
                 accumulated_angle, late, vyaw, seen, startedAt>>

Pass == Look \/ Sleep \/ GiveUp

Next ==
  \/ \E d \in -MaxTurn .. MaxTurn : Turn(d)
  \/ _HighStateHandler
  \/ Tick
  \/ \E d \in Deltas : rotate(d)
  \/ Pass

Spec == Init /\ [][Next]_vars

-----------------------------------------------------------------------------
(* Properties.                                                             *)

\* The variables keep their types; yaws lie between -pi and pi.
TypeOK ==
  /\ yaw \in -Half .. Half /\ high_state \in -Half .. Half /\ prev_yaw \in -Half .. Half
  /\ request \in {"none", "loop", "sleep"} \cup Answered
  /\ delta_rad \in Int /\ accumulated_angle \in Int
  /\ late \in BOOLEAN
  /\ left \in Nat
  /\ vyaw \in Int
  /\ turned \in Int /\ received \in Int /\ seen \in Int /\ startedAt \in Int

\* The sum of the differences is the angle by which the robot has really
\* turned between the first look of the request and the last, whatever way it
\* went, across -pi and pi and over any number of full turns.
AngleIsTrue ==
  request # "none" => accumulated_angle = seen - startedAt

\* A request is answered with success only if the robot had turned by
\* delta_rad, up to the control error, when it was last looked at.
SuccessIsTrue ==
  request = "SUCCESS" => Abs(delta_rad - (seen - startedAt)) < control_error_yaw

\* The velocity sent is within the limit and turns the robot towards the
\* angle that was really left when it was last looked at.
TurnsTowards ==
  request = "sleep" =>
    /\ vyaw \in -OLimit .. OLimit
    /\ vyaw > 0 <=> delta_rad - (seen - startedAt) > 0

=============================================================================
