----------------------------- MODULE AnkleSwing -----------------------------
(***************************************************************************)
(* example/g1/low_level/g1_ankle_swing_example.cpp: LowStateHandler in the *)
(* DDS thread, and the threads "control" and "command_writer", each run    *)
(* every 2 ms.  The motor state and the motor command are handed over in   *)
(* locked DataBuffers; mode_pr_ and mode_machine_ are plain members that   *)
(* travel beside them.                                                     *)
(*                                                                         *)
(* A motor command is the time it was computed for: the stage, the mode    *)
(* its ankle targets are meant for and the phase of the swing follow from  *)
(* it.  The handler's reports and the gamepad, which nothing reads, are    *)
(* left out.                                                               *)
(***************************************************************************)
EXTENDS Integers

CONSTANTS
  Duration,        \* duration_ in control steps
  HalfPR, HalfAB,  \* half a period of the swing in PR and in AB mode, in control steps
  MaxOvertake,     \* control steps that fall between the reads of one write, or between
                   \* the two stores of the handler
  MaxTime,         \* bound: control steps
  MaxStates        \* bound: valid state messages

VARIABLES
  hasState,              \* motor_state_buffer_ has data
  mode_pr_, mode_machine_,
  time_,
  motor_command_buffer_, \* the time its command was computed for, 0 for none
  handler,               \* where LowStateHandler is
  control,               \* where Control is
  writer,                \* where LowCommandWriter is
  draft,                 \* its dds_low_command
  overtakes,             \* control steps since its first read
  wire,                  \* the command last written
  handled                \* history: valid state messages handled

vars == <<hasState, mode_pr_, mode_machine_, time_, motor_command_buffer_, handler, control,
          writer, draft, overtakes, wire, handled>>

Type == 5 \* the machine type in the robot's state messages; 0 is "not known"
Nothing == [mode_pr |-> "PR", mode_machine |-> Type, time |-> 0]

Init ==
  /\ hasState = FALSE
  /\ mode_pr_ = "PR" /\ mode_machine_ = 0
  /\ time_ = 0 /\ motor_command_buffer_ = 0
  /\ handler = "idle" /\ control = "idle" /\ writer = "idle"
  /\ draft = Nothing /\ wire = Nothing
  /\ overtakes = 0 /\ handled = 0

-----------------------------------------------------------------------------
(* LowStateHandler.  A message with a wrong CRC changes nothing.           *)

StoreMotorState ==
  /\ handler = "idle" /\ handled < MaxStates
  /\ handler' = "stored"
  /\ hasState' = TRUE
  /\ UNCHANGED <<mode_pr_, mode_machine_, time_, motor_command_buffer_, control, writer, draft,
                 overtakes, wire, handled>>

\* Mutation of MachineAfter: only a type that is known is updated.
MachineAfterInverted == IF mode_machine_ # 0 THEN Type ELSE mode_machine_

MachineAfter == IF mode_machine_ # Type THEN Type ELSE mode_machine_

UpdateModeMachine ==
  /\ handler = "stored"
  /\ handler' = "idle"
  /\ mode_machine_' = MachineAfter
  /\ handled' = handled + 1
  /\ UNCHANGED <<hasState, mode_pr_, time_, motor_command_buffer_, control, writer, draft,
                 overtakes, wire>>

-----------------------------------------------------------------------------
(* Control.                                                                *)

Stage(t) == IF t < Duration THEN 1 ELSE IF t < 2 * Duration THEN 2 ELSE 3

\* Mutation of ModeAfter: stage 3 does not switch to AB.
ModeAfterForgotten(t) == IF Stage(t) = 2 THEN "PR" ELSE mode_pr_

\* mode_pr_ after the assignment of the stage.
ModeAfter(t) == CASE Stage(t) = 1 -> mode_pr_ [] Stage(t) = 2 -> "PR" [] Stage(t) = 3 -> "AB"

\* The time advances and the stage sets its mode.  Until the first state message
\* has been handled only the steps run that fall between its two stores.
ControlStage ==
  /\ control = "idle" /\ hasState
  /\ time_ < MaxTime
  /\ writer = "reading" => overtakes < MaxOvertake
  /\ handled = 0 => time_ < MaxOvertake
  /\ overtakes' = IF writer = "reading" THEN overtakes + 1 ELSE 0
  /\ time_' = time_ + 1
  /\ mode_pr_' = ModeAfter(time_ + 1)
  /\ control' = "computed"
  /\ UNCHANGED <<hasState, mode_machine_, motor_command_buffer_, handler, writer, draft, wire,
                 handled>>

\* motor_command_buffer_.SetData
ControlSetData ==
  /\ control = "computed"
  /\ control' = "idle"
  /\ motor_command_buffer_' = time_
  /\ UNCHANGED <<hasState, mode_pr_, mode_machine_, time_, handler, writer, draft, overtakes, wire,
                 handled>>

-----------------------------------------------------------------------------
(* LowCommandWriter.                                                       *)

WriterReadModes ==
  /\ writer = "idle"
  /\ writer' = "reading"
  /\ draft' = [mode_pr |-> mode_pr_, mode_machine |-> mode_machine_, time |-> 0]
  /\ overtakes' = 0
  /\ UNCHANGED <<hasState, mode_pr_, mode_machine_, time_, motor_command_buffer_, handler, control,
                 wire, handled>>

\* GetData, and the Write if there is a command.
WriterWrite ==
  /\ writer = "reading"
  /\ writer' = "idle"
  /\ wire' = IF motor_command_buffer_ > 0 THEN [draft EXCEPT !.time = motor_command_buffer_]
             ELSE wire
  /\ draft' = Nothing /\ overtakes' = 0
  /\ UNCHANGED <<hasState, mode_pr_, mode_machine_, time_, motor_command_buffer_, handler, control,
                 handled>>

Next ==
  \/ StoreMotorState \/ UpdateModeMachine
  \/ ControlStage \/ ControlSetData
  \/ WriterReadModes \/ WriterWrite

Spec == Init /\ [][Next]_vars

-----------------------------------------------------------------------------
(* Properties.                                                             *)

\* The mode the ankle targets computed for time t are meant for.
Meant(t) == IF Stage(t) = 3 THEN "AB" ELSE "PR"

\* How far the swing is from its nearest zero, in control steps.
OffZero(t) ==
  LET half == IF Stage(t) = 3 THEN HalfAB ELSE HalfPR
      phase == (t - (IF Stage(t) = 3 THEN 2 ELSE 1) * Duration) % half
  IN IF phase < half - phase THEN phase ELSE half - phase

\* mode_pr_ and the command are not read together, so at the change from stage
\* 2 to stage 3 a command can go out with the mode of the other stage.  That
\* happens only where both swings pass through zero, within as many steps as
\* Control can overtake a write: the two modes mean the same posture there.
MismatchNearZero ==
  (wire.time > 0 /\ wire.mode_pr # Meant(wire.time)) => OffZero(wire.time) <= MaxOvertake

\* The machine type is set after the motor state has been handed to Control, and
\* it is read before the command, so commands do go out with type 0; but only
\* the first ones: those Control computes while the first state message is being
\* handled, and those that overtake a write that has read the type by then.
TypeKnownSoon ==
  (wire.time > 0 /\ wire.mode_machine # Type) => wire.time <= 2 * MaxOvertake

=============================================================================
