------------------------------ MODULE StandUp -------------------------------
(***************************************************************************)
(* example/go2/go2_stand_example.cpp.  Init asks the motion switcher which *)
(* service controls the robot and releases it until there is none; then    *)
(* LowCmdWrite, every 2 ms, moves the joints from where they are to three  *)
(* postures in turn.  b2_stand_example.cpp has one more stage, and         *)
(* shutdown() of dds_wrapper/robots/go2/go2.h, which programs call before  *)
(* they publish to rt/lowcmd, is the same loop but for one difference: it  *)
(* keeps the name of the service from one round to the next.               *)
(*                                                                         *)
(* One joint stands for the twelve, which do not depend on one another.    *)
(* _percent_i is k[i] / Durations[i], a share of the way; positions are    *)
(* integers, chosen so that all shares are whole.                          *)
(***************************************************************************)
EXTENDS Integers

CONSTANTS
  Positions,      \* where the joint can be
  Drift,          \* how far the joint moves between two state messages
  _targetPos,     \* the three postures
  Durations,      \* of the four stages, in passes
  Delay,          \* 500: the passes before the first command
  MaxReleases     \* bound: rounds of the release loop

VARIABLES
  program,      \* "stand", or "wrapper" for a caller of shutdown()
  pc,           \* "check", "release", or "run"
  name,         \* the service's name as CheckMode last gave it; TRUE for not empty
  active,       \* the service controls the robot
  releases,
  checks,       \* history: calls of CheckMode (2 for any number above 1)
  blind,        \* history: the last one failed
  joint,        \* the joint's position
  low_state,    \* the last one received; 0 before there is any
  received,     \* history: there was one
  motiontime, firstRun, _startPos,
  k,            \* the passes made in each stage
  q             \* the target last written, once firstRun is over

vars == <<program, pc, name, active, releases, checks, blind, joint, low_state, received,
          motiontime, firstRun, _startPos, k, q>>

releaseVars == <<program, pc, name, active, releases, checks, blind>>
standVars == <<motiontime, firstRun, _startPos, k, q>>
sensorVars == <<joint, low_state, received>>

Abs(x) == IF x < 0 THEN -x ELSE x

Init ==
  /\ program \in {"stand", "wrapper"}
  /\ pc = "check"
  /\ name = FALSE
  /\ active \in BOOLEAN
  /\ releases = 0 /\ checks = 0 /\ blind = FALSE
  /\ joint \in Positions
  /\ low_state = 0 /\ received = FALSE
  /\ motiontime = 0 /\ firstRun = TRUE /\ _startPos = 0
  /\ k = [i \in 1..4 |-> 0]
  /\ q = 0

\* The robot is moved by its load, by hand, or by what controls it.
JointMoves(p) ==
  /\ received => Abs(p - low_state) <= Drift
  /\ joint' = p
  /\ UNCHANGED <<low_state, received, releaseVars, standVars>>

LowStateMessageHandler ==
  /\ low_state' = joint
  /\ received' = TRUE
  /\ UNCHANGED <<joint, releaseVars, standVars>>

-----------------------------------------------------------------------------
(* The release loop.                                                       *)

\* Mutation of NameAfter: shutdown() begins every round with an empty name, too.
NameAfterEmptied(ok) == ok /\ active

\* A CheckMode that fails leaves the name alone: queryMotionStatus then has
\* the empty string it began with, shutdown() the name of the round before.
NameAfter(ok) == IF ok THEN active ELSE program = "wrapper" /\ name

CheckMode(ok) ==
  /\ pc = "check"
  /\ name' = NameAfter(ok)
  /\ pc' = IF NameAfter(ok) THEN "release" ELSE "run"
  /\ checks' = IF checks = 0 THEN 1 ELSE 2
  /\ blind' = ~ok
  /\ UNCHANGED <<program, active, releases, sensorVars, standVars>>

\* The service may be released although the client reports an error; in either
\* case the loop goes round again.
ReleaseMode(released) ==
  /\ pc = "release"
  /\ releases < MaxReleases
  /\ releases' = releases + 1
  /\ active' = (active /\ ~released)
  /\ pc' = "check"
  /\ UNCHANGED <<program, name, checks, blind, sensorVars, standVars>>

-----------------------------------------------------------------------------
(* LowCmdWrite.                                                            *)

Full(i, p) == p[i] = Durations[i]

\* The stage that is due.
Stage(p) ==
  IF ~Full(1, p) THEN 1 ELSE IF ~Full(2, p) THEN 2 ELSE IF ~Full(3, p) THEN 3 ELSE 4

Advance(p, i) == IF Full(i, p) THEN p ELSE [p EXCEPT ![i] = @ + 1]

\* A stage that ends lets the next one make its first step in the same pass.
AfterStage(p, i) == IF Stage(p) = i THEN Advance(p, i) ELSE p

Counters == AfterStage(AfterStage(AfterStage(Advance(k, 1), 2), 3), 4)

Way(a, b, i, p) == ((Durations[i] - p[i]) * a + p[i] * b) \div Durations[i]

\* Mutation of Target: stage 2 sets out from the start posture.
TargetFromStart(start, p) ==
  CASE p[2] = 0                -> Way(start, _targetPos[1], 1, p)
    [] p[2] > 0 /\ p[3] = 0    -> Way(start, _targetPos[2], 2, p)
    [] p[3] > 0 /\ p[4] = 0    -> _targetPos[2]
    [] p[4] > 0                -> Way(_targetPos[2], _targetPos[3], 4, p)

\* What the last of the stages that made a step in the pass writes.
Target(start, p) ==
  CASE p[2] = 0                -> Way(start, _targetPos[1], 1, p)
    [] p[2] > 0 /\ p[3] = 0    -> Way(_targetPos[1], _targetPos[2], 2, p)
    [] p[3] > 0 /\ p[4] = 0    -> _targetPos[2]
    [] p[4] > 0                -> Way(_targetPos[2], _targetPos[3], 4, p)

LowCmdWrite ==
  /\ pc = "run" /\ program = "stand"
  /\ motiontime' = IF motiontime < Delay THEN motiontime + 1 ELSE motiontime
  /\ IF motiontime' >= Delay
     THEN /\ _startPos' = IF firstRun THEN low_state ELSE _startPos
          /\ firstRun' = FALSE
          /\ k' = Counters
          /\ q' = Target(_startPos', k')
     ELSE UNCHANGED <<_startPos, firstRun, k, q>>
  /\ UNCHANGED <<releaseVars, sensorVars>>

Next ==
  \/ \E p \in Positions : JointMoves(p)
  \/ LowStateMessageHandler
  \/ \E b \in BOOLEAN : CheckMode(b) \/ ReleaseMode(b)
  \/ LowCmdWrite

Spec == Init /\ [][Next]_vars

-----------------------------------------------------------------------------
(* Properties.                                                             *)

\* How far the joint is led by one step of stage i.
Pace(i) ==
  CASE i = 1 -> Abs(_targetPos[1] - _startPos') \div Durations[1]
    [] i = 2 -> Abs(_targetPos[2] - _targetPos[1]) \div Durations[2]
    [] i = 3 -> 0
    [] i = 4 -> Abs(_targetPos[3] - _targetPos[2]) \div Durations[4]

\* How far the pass leads it in stage i.
Led(i) == (k'[i] - k[i]) * Pace(i)

\* A pass that advances leads the target no further than its stages do; the
\* first one sets out from the joint, as the last message showed it.
NoJump ==
  (k' # k /\ (firstRun => received)) =>
    Abs(q' - (IF firstRun THEN joint ELSE q))
      <= Led(1) + Led(2) + Led(3) + Led(4) + (IF firstRun THEN Drift ELSE 0)

\* No jerk: every target written is as far from the one before it as the
\* stages that advanced in the pass lead the joint, across the changes of
\* stage, and the first one sets out from where the joint is, up to what it
\* moves between two state messages, provided that one had been received by
\* then.
TargetsDoNotJump == [][NoJump]_vars

\* The loop is left with a service still active only if it could not see the
\* service: CheckMode had just failed, and for shutdown(), which remembers the
\* name, it must have been the very first one.
LeftActiveOnlyBlind ==
  (pc = "run" /\ active) => (blind /\ (program = "wrapper" => checks = 1))

=============================================================================
