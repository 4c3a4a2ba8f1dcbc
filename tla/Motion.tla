------------------------------- MODULE Motion -------------------------------
(***************************************************************************)
(* The programs that compute motions: rotate and move of the control       *)
(* interface, the ankle swing of the G1 and the stand-up of the Go2.  They *)
(* share nothing, so one of them runs at a time; motion says which.        *)
(***************************************************************************)
EXTENDS RotateCommand

CONSTANTS
  Motions,  \* those that may run
  Displacements, control_error, OLimitXY, MaxStep, Extent,          \* MoveCommand
  Duration, HalfPR, HalfAB, MaxOvertake, MaxTime, MaxStates,        \* AnkleSwing
  Positions, Drift, _targetPos, Durations, Delay, MaxReleases       \* StandUp

ASSUME MoveAssumption ==
  /\ Displacements \subseteq Int \X Int
  /\ control_error \in Nat /\ MaxStep \in Nat /\ Extent \in Nat
  /\ OLimitXY \in Nat /\ OLimitXY > 0

\* A stage lasts for whole half periods: 3 s of 0.5 s.  Control and
\* LowCommandWriter have the same period, so one step falls between two reads;
\* nor does more than one fall between two stores of the state handler.
ASSUME AnkleAssumption ==
  /\ Duration \in Nat /\ HalfPR \in Nat /\ HalfAB \in Nat /\ MaxOvertake \in Nat
  /\ Duration > 0 /\ HalfPR > 0 /\ HalfAB > 0 /\ MaxOvertake > 0
  /\ Duration % HalfPR = 0
  /\ MaxTime \in Nat /\ MaxStates \in Nat

\* Whole shares: positions are counted in a unit in which every step of a
\* stage is an integer, also from the 0 of before the first state message.
ASSUME StandAssumption ==
  /\ Positions \subseteq Int /\ Positions # {} /\ Drift \in Nat
  /\ \A i \in 1..3 : _targetPos[i] \in Int
  /\ \A i \in 1..4 : Durations[i] \in Nat /\ Durations[i] > 0
  /\ \A p \in Positions \cup {0} : (_targetPos[1] - p) % Durations[1] = 0
  /\ (_targetPos[2] - _targetPos[1]) % Durations[2] = 0
  /\ (_targetPos[3] - _targetPos[2]) % Durations[4] = 0
  /\ Delay \in Nat /\ MaxReleases \in Nat

VARIABLES
  motion,
  move_high_state, pc, move_request, target, yaw_target, move_late, sent, startPose,
  hasState, mode_pr_, mode_machine_, time_, motor_command_buffer_, handler, control,
  writer, draft, overtakes, wire, handled,
  program, stand_pc, name, active, releases, checks, blind, joint, low_state,
  stand_received, motiontime, firstRun, _startPos, k, q

Move == INSTANCE MoveCommand WITH
  OLimit <- OLimitXY, OLimitYaw <- OLimit,
  high_state <- move_high_state, request <- move_request, late <- move_late

Ankle == INSTANCE AnkleSwing

Stand == INSTANCE StandUp WITH pc <- stand_pc, received <- stand_received

moveVars == <<move_high_state, pc, move_request, target, yaw_target, move_late, sent,
              startPose>>
ankleVars == <<hasState, mode_pr_, mode_machine_, time_, motor_command_buffer_, handler,
               control, writer, draft, overtakes, wire, handled>>
standVars == <<program, stand_pc, name, active, releases, checks, blind, joint, low_state,
               stand_received, motiontime, firstRun, _startPos, k, q>>
allVars == <<motion, vars, moveVars, ankleVars, standVars>>

\* A program that is not run has one initial state.
MotionInit ==
  /\ motion \in Motions
  /\ Init /\ Move!Init /\ Ankle!Init /\ Stand!Init
  /\ motion # "rotate" => yaw = 0
  /\ motion # "move" => move_high_state.yaw = 0
  /\ motion # "stand" => program = "stand" /\ ~active /\ joint = CHOOSE p \in Positions : TRUE

MotionNext ==
  /\ UNCHANGED motion
  /\ \/ motion = "rotate" /\ Next /\ UNCHANGED <<moveVars, ankleVars, standVars>>
     \/ motion = "move" /\ Move!Next /\ UNCHANGED <<vars, ankleVars, standVars>>
     \/ motion = "ankle" /\ Ankle!Next /\ UNCHANGED <<vars, moveVars, standVars>>
     \/ motion = "stand" /\ Stand!Next /\ UNCHANGED <<vars, moveVars, ankleVars>>

MotionSpec == MotionInit /\ [][MotionNext]_allVars

\* MoveCommand: SUCCESS is answered only where the robot had moved as asked.
MovedAsAsked == Move!MovedAsAsked

\* MoveCommand: the velocity sent leads towards the target.
VelocityApproaches == Move!VelocityApproaches

\* MoveCommand: the heading is held by turning the short way.
HeadingHeldShortWay == Move!HeadingHeldShortWay

\* AnkleSwing: the mode and the targets of a command differ only where both
\* swings pass through zero.
MismatchNearZero == Ankle!MismatchNearZero

\* AnkleSwing: only the first commands go out without the machine's type.
TypeKnownSoon == Ankle!TypeKnownSoon

\* StandUp: a service is left active only by a check that failed.
LeftActiveOnlyBlind == Stand!LeftActiveOnlyBlind

\* StandUp: no pass moves a target further than its stages lead it.
TargetsDoNotJump == Stand!TargetsDoNotJump

=============================================================================
