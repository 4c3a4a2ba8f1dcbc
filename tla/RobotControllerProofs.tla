------------------------ MODULE RobotControllerProofs ------------------------
(***************************************************************************)
(* Proofs about RobotController, for every ramp (PdInit, PdCtrl, PdMax)    *)
(* and every set of buttons the user may hold.                             *)
(*                                                                         *)
(* What is on the wire was prepared some steps before by another thread.   *)
(* The invariant follows a command on its way: which commands the          *)
(* interface can hold at each place of ControlStep, given the mode, that   *)
(* cmd is whole unless its mutex is held, and how the ratio and the mode   *)
(* are related to the gains last commanded.                                *)
(***************************************************************************)
EXTENDS RobotController, TLAPS

\* The mutexes protect the sensors and the command.
Locks ==
  /\ state_mutex = "dds" <=> dds = "getState"
  /\ dds # "getState" => sensors.jpos = sensors.jvel
  /\ dds = "getState" => sensors.jpos = state.stamp
  /\ cmd_mutex = "control" <=> control = "setGains"
  /\ main \in {"waiting", "start"} <=> control = "notStarted"

\* The mode and the ratio.
Machine ==
  /\ pd_ratio <= risen
  /\ sm = "DAMPING" => pd_ratio = 0
  /\ sm = "CTRL" => pd_ratio > PdCtrl
  /\ control \in {"stand", "standInput"} => sm = "STAND"
  /\ control \in {"ctrl", "check"} => sm = "CTRL"
  /\ control = "damp" => sm = "DAMPING"
  /\ control = "notStarted" => sm = "STAND"

UserCommand == [q |-> "whole", gains |-> Gain("ctrl", 0)]
Setting == {"setCommand", "setGains"}

\* The command being prepared fits the mode.
Prepared ==
  /\ control \in {"stand", "standInput"} => interface.q = "init_pos"
  /\ control = "ctrl" => interface.gains = Gain("ctrl", 0)
  /\ control = "check" => interface = UserCommand
  /\ control \in Setting =>
       \/ interface = Damping /\ sm = "DAMPING"
       \/ interface.q = "init_pos" /\ interface.gains = Gain("standing", pd_ratio) /\ sm = "STAND"
       \/ interface = UserCommand /\ sm \in {"CTRL", "DAMPING"}
  /\ control = "update" =>
       /\ sm = "STAND" => interface.q = "init_pos"
       /\ sm = "CTRL" => interface.gains = Gain("ctrl", 0)

\* The command shared with the write thread is whole, or being replaced.
Shared ==
  /\ control # "setGains" => Coherent(cmd)
  /\ control = "setGains" => cmd.q = interface.q
  /\ Coherent(wire)

\* No mode other than damping goes on while the stop buttons are held.
StopSeen ==
  /\ control \in {"stand", "standInput", "ctrl", "check"} => ~({"L2", "B"} \subseteq pressed)
  /\ StopButtonsDamp

\* After a damping command the ratio starts from zero.
Restiffen ==
  cmd.gains.by = "damping" =>
    /\ cmd.gains = Gain("damping", 0)
    /\ control # "notStarted"
    /\ control = "update" => sm = "DAMPING"
    /\ control = "stand" => pd_ratio = 0
    /\ control = "standInput" => pd_ratio <= 1
    /\ control \notin {"ctrl", "check"}
    /\ control \in Setting =>
         \/ interface = Damping
         \/ interface.gains = Gain("standing", pd_ratio) /\ pd_ratio <= 1

IInv ==
  TypeOK /\ Locks /\ Machine /\ Prepared /\ Shared /\ StopSeen /\ Restiffen /\ CtrlAfterRamp

USE PdAssumption, RemotesAssumption

\* The smaller of two numbers, for the clamp of the ratio.
LEMMA MinOfTwo ==
  ASSUME NEW a \in Int, NEW b \in Int
  PROVE  Min({a, b}) = IF a <= b THEN a ELSE b
  BY DEF Min

\* The larger of two numbers, for the clamp of the ratio.
LEMMA MaxOfTwo ==
  ASSUME NEW a \in Int, NEW b \in Int
  PROVE  Max({a, b}) = IF a >= b THEN a ELSE b
  BY DEF Max

\* The framework before the first message.
LEMMA InitInvariant ==
  ASSUME Init
  PROVE  IInv
  BY DEF Init, IInv, TypeOK, Locks, Machine, Prepared, Shared, StopSeen, StopButtonsDamp,
     Restiffen, CtrlAfterRamp, LowState, Commands, Targets, NoCommand, Gain, Coherent, Setting

\* The DDS thread touches neither the machine nor a command.
LEMMA DdsInvariant ==
  ASSUME IInv, (\E held \in Remotes, fallen \in BOOLEAN : LowStateMessage(held, fallen)) \/ GetState
  PROVE  IInv'
  <1>1. state' \in LowState /\ sensors' \in [fallen : BOOLEAN, jpos : {0, 1}, jvel : {0, 1}]
    <2>1. ASSUME NEW held \in Remotes, NEW fallen \in BOOLEAN, LowStateMessage(held, fallen)
          PROVE  state' \in LowState /\ UNCHANGED sensors
      BY <2>1 DEF IInv, TypeOK, LowState, LowStateMessage
    <2>2. ASSUME GetState
          PROVE  UNCHANGED state /\ sensors' \in [fallen : BOOLEAN, jpos : {0, 1}, jvel : {0, 1}]
      BY <2>2 DEF IInv, TypeOK, LowState, GetState, GetStateFirst, GetStateRest
    <2> QED
      BY <2>1, <2>2 DEF IInv, TypeOK
  <1>2. Locks'
    <2>1. ASSUME NEW held \in Remotes, NEW fallen \in BOOLEAN, LowStateMessage(held, fallen)
          PROVE  Locks'
      BY <2>1 DEF IInv, Locks, LowStateMessage, cmdVars
    <2>2. CASE GetStateFirst
      BY <2>2 DEF IInv, TypeOK, Locks, GetStateFirst, cmdVars
    <2>3. CASE GetStateRest
      <3>1. sensors'.jpos = sensors'.jvel
        BY <2>3 DEF IInv, TypeOK, Locks, GetStateRest
      <3> QED
        BY <2>3, <3>1 DEF IInv, Locks, GetStateRest, cmdVars
    <2> QED
      BY <2>1, <2>2, <2>3 DEF GetState
  <1>3. TypeOK'
    BY <1>1 DEF IInv, TypeOK, LowStateMessage, GetState, GetStateFirst, GetStateRest,
       machineVars, cmdVars
  <1>4. UNCHANGED <<main, control, pressed, sm, pd_ratio, risen, target, interface, cmd,
                    cmd_mutex, wire>>
    BY DEF LowStateMessage, GetState, GetStateFirst, GetStateRest, machineVars, cmdVars
  <1> QED
    BY <1>2, <1>3, <1>4 DEF IInv, Machine, Prepared, Shared, StopSeen, StopButtonsDamp,
       Restiffen, CtrlAfterRamp, Coherent

\* main starts the threads.
LEMMA StartInvariant ==
  ASSUME IInv, StartControl
  PROVE  IInv'
  BY DEF IInv, TypeOK, Locks, Machine, Prepared, Shared, StopSeen, StopButtonsDamp,
     Restiffen, CtrlAfterRamp, Coherent, Setting, StartControl, WaitForR2, StartControlThread,
     StartSendCmd, ddsVars, machineVars, cmdVars, Damping, Gain, Commands, LowState

\* The write thread copies the shared command to the wire.
LEMMA WriteInvariant ==
  ASSUME IInv, LowCmdwriteHandler
  PROVE  IInv'
  BY DEF IInv, TypeOK, Locks, Machine, Prepared, Shared, StopSeen, StopButtonsDamp,
     Restiffen, CtrlAfterRamp, Coherent, Setting, LowCmdwriteHandler, ddsVars, machineVars

\* The control thread reads the buttons and changes the mode.
LEMMA UpdateInvariant ==
  ASSUME IInv, Update
  PROVE  IInv'
  <1>1. sm' \in {"DAMPING", "STAND", "CTRL"}
    BY DEF IInv, TypeOK, Update, AfterStand
  <1>2. TypeOK'
    BY <1>1 DEF IInv, TypeOK, Update, StopRatio, LowState, Commands, Targets, Used, Gain,
       ddsVars, cmdVars
  <1>3. Locks'
    BY DEF IInv, Locks, Update, ddsVars, cmdVars
  <1>4. Machine' /\ CtrlAfterRamp'
    BY DEF IInv, TypeOK, Machine, CtrlAfterRamp, Update, StopRatio, AfterStand, CanCtrl, Stopped
  <1>5. Prepared'
    BY DEF IInv, TypeOK, Machine, Prepared, Update, AfterStand, CanCtrl, Stood, Setting, Gain
  <1>6. Shared'
    BY DEF IInv, Shared, Update, cmdVars, Coherent
  <1>7. StopSeen'
    BY DEF IInv, StopSeen, StopButtonsDamp, Update, Stopped
  <1>8. Restiffen'
    BY DEF IInv, TypeOK, Machine, Restiffen, Update, AfterStand, CanCtrl, StopRatio, Setting, cmdVars
  <1> QED
    BY <1>2, <1>3, <1>4, <1>5, <1>6, <1>7, <1>8 DEF IInv

\* The damping branch prepares the damping command.
LEMMA DampInvariant ==
  ASSUME IInv, Damp
  PROVE  IInv'
  BY DEF IInv, TypeOK, Locks, Machine, Prepared, Shared, StopSeen, StopButtonsDamp,
     Restiffen, CtrlAfterRamp, Coherent, Setting, Damp, ddsVars, machineVars, cmdVars,
     Damping, Gain, Commands

\* The standing branch raises the ratio and prepares the gains.
LEMMA StandRatioInvariant ==
  ASSUME IInv, StandRatio
  PROVE  IInv'
  <1>1. /\ pd_ratio' \in 0 .. PdMax /\ pd_ratio' <= pd_ratio + 1
        /\ "R2" \notin pressed => pd_ratio' <= pd_ratio
    BY MinOfTwo, MaxOfTwo DEF IInv, TypeOK, StandRatio, Standing, StandingUp, StandingDown
  <1>2. /\ risen' \in 0 .. PdMax
        /\ risen' = IF "R2" \in pressed /\ risen < PdMax THEN risen + 1 ELSE risen
    BY MinOfTwo DEF IInv, TypeOK, StandRatio
  <1>3. TypeOK' /\ Locks'
    BY <1>1, <1>2 DEF IInv, TypeOK, Locks, StandRatio, ddsVars, cmdVars
  <1>4. Machine' /\ CtrlAfterRamp'
    BY <1>1, <1>2 DEF IInv, TypeOK, Machine, CtrlAfterRamp, StandRatio
  <1>5. Prepared' /\ Shared' /\ StopSeen'
    BY DEF IInv, Prepared, Shared, StopSeen, StopButtonsDamp, StandRatio, Setting, Coherent, cmdVars
  <1>6. Restiffen'
    BY <1>1 DEF IInv, TypeOK, Restiffen, StandRatio, Setting, cmdVars
  <1> QED
    BY <1>3, <1>4, <1>5, <1>6 DEF IInv

\* The sensors are read under state_mutex.
LEMMA InputInvariant ==
  ASSUME IInv, StandInput \/ CtrlInput
  PROVE  IInv'
  <1>1. Used(sensors) = "whole"
    BY DEF IInv, TypeOK, Locks, StandInput, CtrlInput, Used
  <1>2. TypeOK'
    BY <1>1 DEF IInv, TypeOK, StandInput, CtrlInput, Commands, Targets, Gain, ddsVars,
       machineVars, cmdVars
  <1>3. Locks' /\ Machine' /\ CtrlAfterRamp'
    BY DEF IInv, Locks, Machine, CtrlAfterRamp, StandInput, CtrlInput, ddsVars, machineVars, cmdVars
  <1>4. Prepared'
    BY <1>1 DEF IInv, TypeOK, Commands, Machine, Prepared, StandInput, CtrlInput, Setting, Gain,
       UserCommand, machineVars
  <1>5. Shared' /\ StopSeen'
    BY DEF IInv, Shared, StopSeen, StopButtonsDamp, StandInput, CtrlInput, Coherent, cmdVars
  <1>6. Restiffen'
    BY DEF IInv, TypeOK, Commands, Restiffen, StandInput, CtrlInput, Setting, Gain, machineVars, cmdVars
  <1> QED
    BY <1>2, <1>3, <1>4, <1>5, <1>6 DEF IInv

\* The fall is looked at after the command was prepared.
LEMMA CheckInvariant ==
  ASSUME IInv, CheckTermination
  PROVE  IInv'
  BY DEF IInv, TypeOK, Locks, Machine, Prepared, Shared, StopSeen, StopButtonsDamp,
     Restiffen, CtrlAfterRamp, Coherent, Setting, CheckTermination, StopRatio, ddsVars, cmdVars,
     UserCommand

\* The prepared command replaces the shared one in two parts under cmd_mutex.
LEMMA SetCommandInvariant ==
  ASSUME IInv, SetCommandFirst \/ SetCommandRest
  PROVE  IInv'
  <1>1. TypeOK' /\ Locks'
    BY DEF IInv, TypeOK, Commands, Locks, SetCommandFirst, SetCommandRest, ddsVars, machineVars
  <1>2. Machine' /\ CtrlAfterRamp' /\ StopSeen'
    BY DEF IInv, Machine, CtrlAfterRamp, StopSeen, StopButtonsDamp, SetCommandFirst,
       SetCommandRest, machineVars
  <1>3. Prepared'
    BY DEF IInv, Machine, Prepared, Setting, SetCommandFirst, SetCommandRest, machineVars,
       UserCommand, Damping, Gain
  <1>4. Shared'
    <2>1. CASE SetCommandFirst
      BY <2>1 DEF IInv, TypeOK, Commands, Shared, SetCommandFirst, Coherent
    <2>2. CASE SetCommandRest
      <3>1. cmd' = interface
        BY <2>2 DEF IInv, TypeOK, Commands, Shared, SetCommandRest
      <3> QED
        BY <2>2, <3>1 DEF IInv, Prepared, Shared, Setting, SetCommandRest, Coherent, UserCommand,
           Damping, Gain
    <2> QED
      BY <2>1, <2>2
  <1>5. Restiffen'
    BY DEF IInv, TypeOK, Commands, Machine, Prepared, Restiffen, Setting, SetCommandFirst,
       SetCommandRest, machineVars, UserCommand, Damping, Gain
  <1> QED
    BY <1>1, <1>2, <1>3, <1>4, <1>5 DEF IInv

\* Nothing happens.
LEMMA StutterInvariant ==
  ASSUME IInv, UNCHANGED vars
  PROVE  IInv'
  BY DEF IInv, TypeOK, Locks, Machine, Prepared, Shared, StopSeen, StopButtonsDamp,
     Restiffen, CtrlAfterRamp, Coherent, vars

\* The inductive invariant holds in every state of the four threads.
THEOREM Invariance == Spec => []IInv
  <1>1. IInv /\ [Next]_vars => IInv'
    BY DdsInvariant, StartInvariant, WriteInvariant, UpdateInvariant, DampInvariant,
       StandRatioInvariant, InputInvariant, CheckInvariant, SetCommandInvariant,
       StutterInvariant DEF Next, ControlStep
  <1> QED
    BY InitInvariant, <1>1, PTL DEF Spec

\* Every command on the wire belongs to one mode as a whole.
THEOREM WireIsCoherent == Spec => []PublishedCoherent
  BY Invariance, PTL DEF IInv, Shared, PublishedCoherent

\* The user's controller is reached by a complete ramp only.
THEOREM CtrlNeedsRamp == Spec => []CtrlAfterRamp
  BY Invariance, PTL DEF IInv

\* The stop buttons win over every other button of the same step.
THEOREM StopWins == Spec => []StopButtonsDamp
  BY Invariance, PTL DEF IInv, StopSeen

\* After damping the gains come back from zero.
THEOREM GainsRestart == Spec => RestiffenFromZero
  <1>1. ASSUME IInv, [Next]_vars
        PROVE  [(cmd.gains.by = "damping" /\ cmd'.gains # cmd.gains) =>
                  cmd'.gains.by = "standing" /\ cmd'.gains.level <= 1]_vars
    <2> SUFFICES ASSUME cmd.gains.by = "damping", cmd'.gains # cmd.gains
                 PROVE  cmd'.gains.by = "standing" /\ cmd'.gains.level <= 1
      OBVIOUS
    <2>1. SetCommandRest
      BY <1>1 DEF IInv, TypeOK, Commands, Next, LowStateMessage, GetState, GetStateFirst,
         GetStateRest, StartControl, WaitForR2, StartControlThread, StartSendCmd, ControlStep,
         Update, Damp, StandRatio, StandInput, CtrlInput, CheckTermination, SetCommandFirst, LowCmdwriteHandler, cmdVars, vars
    <2> QED
      BY <1>1, <2>1 DEF IInv, TypeOK, Commands, Prepared, Restiffen, Setting, SetCommandRest,
         Damping, Gain
  <1> QED
    BY <1>1, Invariance, PTL DEF Spec, RestiffenFromZero

=============================================================================
