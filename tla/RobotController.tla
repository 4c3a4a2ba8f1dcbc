-------------------------- MODULE RobotController --------------------------
(***************************************************************************)
(* The low-level control framework of example/state_machine: the           *)
(* SimpleStateMachine, the Gamepad, the RobotInterface and the four        *)
(* threads of RobotController that share them: the DDS thread delivering   *)
(* LowState messages, main, the control thread and the write thread.       *)
(*                                                                         *)
(* pd_ratio is counted in steps of delta_pd.  A LowState message is the    *)
(* set of the buttons held, whether the robot lies on its back, and a      *)
(* stamp that tells it from its neighbours.  A command is the position     *)
(* target and the gains; the target of the user's controller is "torn" if  *)
(* it was calculated from parts of two messages.                           *)
(***************************************************************************)
EXTENDS Integers, FiniteSetsExt

CONSTANTS
  PdMax,    \* pd_ratio = 1.0
  PdCtrl,   \* the 0.95 of Ctrl()
  PdInit,   \* pd_ratio_init
  Remotes   \* the sets of buttons that are held at a time

Buttons == {"R1", "R2", "L2", "A", "B"}

ASSUME PdAssumption ==
  /\ PdMax \in Nat /\ PdCtrl \in Nat /\ PdInit \in Nat
  /\ 0 < PdInit /\ PdInit <= PdCtrl /\ PdCtrl < PdMax
ASSUME RemotesAssumption == Remotes \subseteq SUBSET Buttons

VARIABLES
  state,          \* the last LowState message
  sensors,        \* robot_interface: what GetState stored
  state_mutex,    \* "free" or "dds"
  dds,            \* where LowStateMessageHandler is
  main,           \* where StartControl is
  control,        \* where ControlStep is
  pressed,        \* gamepad: the buttons held at its last update
  sm,             \* state_machine.state
  pd_ratio,       \* state_machine.pd_ratio
  target,         \* ctrl.jpos_des
  interface,      \* robot_interface: the command being prepared
  cmd,            \* the command shared with the write thread
  cmd_mutex,      \* "free" or "control"
  wire,           \* the last command published
  risen           \* history: steps of standing up since the last Stop

vars == <<state, sensors, state_mutex, dds, main, control, pressed, sm, pd_ratio, target,
          interface, cmd, cmd_mutex, wire, risen>>

ddsVars == <<state, sensors, state_mutex, dds>>
machineVars == <<sm, pd_ratio, risen>>
cmdVars == <<cmd, cmd_mutex, wire>>

Gain(by, level) == [by |-> by, level |-> level]
NoCommand == [q |-> "none", gains |-> Gain("none", 0)]

Damping == [q |-> "init_pos", gains |-> Gain("damping", 0)]

Targets == {"none", "whole", "torn"}
Commands == [q : {"none", "init_pos", "whole", "torn"},
             gains : [by : {"none", "damping", "standing", "ctrl"}, level : 0..PdMax]]
LowState == [held : SUBSET Buttons, fallen : BOOLEAN, stamp : {0, 1}]

Init ==
  /\ state = [held |-> {}, fallen |-> FALSE, stamp |-> 0]
  /\ sensors = [fallen |-> FALSE, jpos |-> 0, jvel |-> 0]
  /\ state_mutex = "free"
  /\ dds = "idle"
  /\ main = "waiting"
  /\ control = "notStarted"
  /\ pressed = {}
  /\ sm = "STAND"
  /\ pd_ratio = PdInit
  /\ target = "none"
  /\ interface = NoCommand
  /\ cmd = NoCommand
  /\ cmd_mutex = "free"
  /\ wire = NoCommand
  /\ risen = PdInit

-----------------------------------------------------------------------------
(* The DDS thread: LowStateMessageHandler.                                 *)

\* state is assigned without a lock.
LowStateMessage(held, fallen) ==
  /\ dds = "idle"
  /\ state' = [held |-> held, fallen |-> fallen, stamp |-> 1 - state.stamp]
  /\ dds' = "lock"
  /\ UNCHANGED <<sensors, state_mutex, main, control, pressed, machineVars, target,
                 interface, cmdVars>>

\* GetState under state_mutex, in two parts.
GetStateFirst ==
  /\ dds = "lock"
  /\ state_mutex = "free"
  /\ state_mutex' = "dds"
  /\ sensors' = [sensors EXCEPT !.fallen = state.fallen, !.jpos = state.stamp]
  /\ dds' = "getState"
  /\ UNCHANGED <<state, main, control, pressed, machineVars, target, interface, cmdVars>>

GetStateRest ==
  /\ dds = "getState"
  /\ sensors' = [sensors EXCEPT !.jvel = state.stamp]
  /\ state_mutex' = "free"
  /\ dds' = "idle"
  /\ UNCHANGED <<state, main, control, pressed, machineVars, target, interface, cmdVars>>

-----------------------------------------------------------------------------
(* main: StartControl.                                                     *)

\* Button::update for a button that is held now.
on_press(b) == b \in state.held \ pressed

\* InteprateGamePad every 100 ms until R2 is pressed.
WaitForR2 ==
  /\ main = "waiting"
  /\ pressed' = state.held
  /\ main' = IF on_press("R2") THEN "start" ELSE "waiting"
  /\ UNCHANGED <<ddsVars, control, machineVars, target, interface, cmdVars>>

\* Damping() prepares the interface and the control thread is started.
StartControlThread ==
  /\ main = "start"
  /\ interface' = Damping
  /\ control' = "update"
  /\ main' = "sleep"
  /\ UNCHANGED <<ddsVars, pressed, machineVars, target, cmdVars>>

\* 100 ms later the write thread is.
StartSendCmd ==
  /\ main = "sleep"
  /\ main' = "writing"
  /\ UNCHANGED <<ddsVars, control, pressed, machineVars, target, interface, cmdVars>>

-----------------------------------------------------------------------------
(* SimpleStateMachine.                                                     *)

\* Stand() after R2, Ctrl() after A, and Stop() while L2 and B are held.
AfterStand(s) == IF on_press("R2") THEN "STAND" ELSE s
Stood == on_press("R2") /\ sm # "STAND"

\* Mutation of CanCtrl: the ratio is not looked at.
CanCtrlAnyRatio(s) == on_press("A") /\ s = "STAND"

CanCtrl(s) == on_press("A") /\ s = "STAND" /\ pd_ratio > PdCtrl

Stopped == {"L2", "B"} \subseteq state.held

\* Mutation of StopRatio: Stop() leaves pd_ratio as it is.
StopRatioKept(stop) == pd_ratio

\* The ratio after a Stop(), if there is one.
StopRatio(stop) == IF stop THEN 0 ELSE pd_ratio

\* The ratio after Standing(up), clamped to 0..PdMax.
StandingUp(r) == Min({r + 1, PdMax})

StandingDown(r) == Max({r - 1, 0})

\* Standing, for the buttons held: up with R2, then down with R1.
Standing ==
  LET up == IF "R2" \in pressed THEN StandingUp(pd_ratio) ELSE pd_ratio
  IN IF "R1" \in pressed THEN StandingDown(up) ELSE up

-----------------------------------------------------------------------------
(* The control thread: ControlStep.                                        *)

Used(s) == IF s.jpos = s.jvel THEN "whole" ELSE "torn"

\* InteprateGamePad and UpdateStateMachine, with StandCallback and
\* CtrlCallback.  Reset in CtrlCallback reads the sensors without the mutex.
Update ==
  /\ control = "update"
  /\ pressed' = state.held
  /\ LET stand == AfterStand(sm)
         ctrl == CanCtrl(stand)
     IN /\ sm' = IF Stopped THEN "DAMPING" ELSE IF ctrl THEN "CTRL" ELSE stand
        /\ target' = IF ctrl THEN Used(sensors) ELSE target
        /\ interface' = IF ctrl THEN [q |-> "init_pos", gains |-> Gain("ctrl", 0)]
                        ELSE IF Stood
                        THEN [q |-> "init_pos", gains |-> Gain("standing", pd_ratio)]
                        ELSE interface
  /\ pd_ratio' = StopRatio(Stopped)
  /\ risen' = IF Stopped THEN 0 ELSE risen
  /\ control' = IF sm' = "DAMPING" THEN "damp" ELSE IF sm' = "STAND" THEN "stand" ELSE "ctrl"
  /\ UNCHANGED <<ddsVars, main, cmdVars>>

\* Mutation of Damp: the stiffness of the mode before is kept.
DampKeepsGains ==
  /\ control = "damp"
  /\ interface' = [interface EXCEPT !.q = "init_pos"]
  /\ control' = "setCommand"
  /\ UNCHANGED <<ddsVars, main, pressed, machineVars, target, cmdVars>>

Damp ==
  /\ control = "damp"
  /\ interface' = Damping
  /\ control' = "setCommand"
  /\ UNCHANGED <<ddsVars, main, pressed, machineVars, target, cmdVars>>

\* The ratio moves before the user's controller is run.
StandRatio ==
  /\ control = "stand"
  /\ pd_ratio' = Standing
  /\ risen' = IF "R2" \in pressed THEN Min({risen + 1, PdMax}) ELSE risen
  /\ control' = "standInput"
  /\ UNCHANGED <<ddsVars, main, pressed, sm, target, interface, cmdVars>>

\* UserControlStep(false) and the gains of the ratio reached.
StandInput ==
  /\ control = "standInput"
  /\ state_mutex = "free"
  /\ target' = Used(sensors)
  /\ interface' = [interface EXCEPT !.gains = Gain("standing", pd_ratio)]
  /\ control' = "setCommand"
  /\ UNCHANGED <<ddsVars, main, pressed, machineVars, cmdVars>>

\* Mutation of CtrlInput: the sensors are read without state_mutex.
CtrlInputUnlocked ==
  /\ control = "ctrl"
  /\ target' = Used(sensors)
  /\ interface' = [interface EXCEPT !.q = target']
  /\ control' = "check"
  /\ UNCHANGED <<ddsVars, main, pressed, machineVars, cmdVars>>

\* UserControlStep(true).
CtrlInput ==
  /\ control = "ctrl"
  /\ state_mutex = "free"
  /\ target' = Used(sensors)
  /\ interface' = [interface EXCEPT !.q = target']
  /\ control' = "check"
  /\ UNCHANGED <<ddsVars, main, pressed, machineVars, cmdVars>>

\* Mutation of CheckTermination: the state machine is not stopped.
CheckTerminationIgnored ==
  /\ control = "check"
  /\ control' = "setCommand"
  /\ UNCHANGED <<ddsVars, main, pressed, machineVars, target, interface, cmdVars>>

\* projected_gravity is read without the mutex; the command of this step is
\* still that of the user's controller.
CheckTermination ==
  /\ control = "check"
  /\ sm' = IF sensors.fallen THEN "DAMPING" ELSE sm
  /\ pd_ratio' = StopRatio(sensors.fallen)
  /\ risen' = IF sensors.fallen THEN 0 ELSE risen
  /\ control' = "setCommand"
  /\ UNCHANGED <<ddsVars, main, pressed, target, interface, cmdVars>>

\* Mutation of SetCommandFirst: cmd_mutex is released at once.
SetCommandFirstUnlocked ==
  /\ control = "setCommand"
  /\ cmd_mutex = "free"
  /\ cmd' = [cmd EXCEPT !.q = interface.q]
  /\ control' = "setGains"
  /\ UNCHANGED <<ddsVars, main, pressed, machineVars, target, interface, cmd_mutex, wire>>

\* SetCommand under cmd_mutex: the targets, then the gains.
SetCommandFirst ==
  /\ control = "setCommand"
  /\ cmd_mutex = "free"
  /\ cmd_mutex' = "control"
  /\ cmd' = [cmd EXCEPT !.q = interface.q]
  /\ control' = "setGains"
  /\ UNCHANGED <<ddsVars, main, pressed, machineVars, target, interface, wire>>

SetCommandRest ==
  /\ control = "setGains"
  /\ cmd' = [cmd EXCEPT !.gains = interface.gains]
  /\ cmd_mutex' = "free"
  /\ control' = "update"
  /\ UNCHANGED <<ddsVars, main, pressed, machineVars, target, interface, wire>>

-----------------------------------------------------------------------------

\* The write thread, every 2 ms.
LowCmdwriteHandler ==
  /\ main = "writing"
  /\ cmd_mutex = "free"
  /\ wire' = cmd
  /\ UNCHANGED <<ddsVars, main, control, pressed, machineVars, target, interface, cmd,
                 cmd_mutex>>

GetState == GetStateFirst \/ GetStateRest

StartControl == WaitForR2 \/ StartControlThread \/ StartSendCmd

ControlStep ==
  \/ Update \/ Damp \/ StandRatio \/ StandInput \/ CtrlInput \/ CheckTermination
  \/ SetCommandFirst \/ SetCommandRest

Next ==
  \/ \E held \in Remotes, fallen \in BOOLEAN : LowStateMessage(held, fallen)
  \/ GetState
  \/ StartControl
  \/ ControlStep
  \/ LowCmdwriteHandler

Spec == Init /\ [][Next]_vars

\* The recurrent threads run, and each holds a mutex for a copy only, so that
\* the others get it.
FairSpec ==
  /\ Spec
  /\ WF_vars(GetState) /\ WF_vars(StartControl) /\ WF_vars(ControlStep)
  /\ SF_vars(StandInput) /\ SF_vars(CtrlInput)
  /\ SF_vars(LowCmdwriteHandler)

-----------------------------------------------------------------------------
(* Properties.                                                             *)

\* The variables keep their types; pd_ratio stays between 0 and 1, although it
\* is raised by a step per pass for as long as the robot stands.
TypeOK ==
  /\ state \in LowState
  /\ sensors \in [fallen : BOOLEAN, jpos : {0, 1}, jvel : {0, 1}]
  /\ state_mutex \in {"free", "dds"}
  /\ dds \in {"idle", "lock", "getState"}
  /\ main \in {"waiting", "start", "sleep", "writing"}
  /\ control \in {"notStarted", "update", "damp", "stand", "standInput", "ctrl", "check",
                  "setCommand", "setGains"}
  /\ pressed \in SUBSET Buttons
  /\ sm \in {"DAMPING", "STAND", "CTRL"}
  /\ pd_ratio \in 0..PdMax /\ risen \in 0..PdMax
  /\ target \in Targets
  /\ interface \in Commands /\ cmd \in Commands /\ wire \in Commands
  /\ cmd_mutex \in {"free", "control"}

\* A command belongs to one mode as a whole: damping and standing hold the
\* initial posture, and only the full gains of CTRL go with a target of the
\* user's controller, calculated from one message.
Coherent(c) ==
  \/ c = NoCommand
  \/ c = Damping
  \/ c.q = "init_pos" /\ c.gains.by = "standing"
  \/ c.q = "whole" /\ c.gains = Gain("ctrl", 0)

\* What is on the wire is coherent: no mode leaves a target or gains behind
\* for the next, nor does the write thread see half of a command.
PublishedCoherent == Coherent(wire)

\* The user's controller moves the robot only after it was stiffened step by
\* step since it was last stopped, whether by the buttons or by a fall.
CtrlAfterRamp ==
  sm = "CTRL" => risen > PdCtrl /\ pd_ratio > PdCtrl

\* L2 with B stops the robot in the very step that sees them, whatever other
\* button was pressed at the same time.
StopButtonsDamp ==
  (control \in {"setCommand", "setGains"} /\ {"L2", "B"} \subseteq pressed) =>
    interface = Damping

\* From damping the stiffness comes back from zero, at most one step at a time.
RestiffenFromZero ==
  [][(cmd.gains.by = "damping" /\ cmd'.gains # cmd.gains) =>
       cmd'.gains.by = "standing" /\ cmd'.gains.level <= 1]_vars

\* A robot that lies on its back is not left to the user's controller.
FallEndsCtrl ==
  (sm = "CTRL" /\ sensors.fallen) ~> (sm # "CTRL" \/ ~sensors.fallen)

\* A stop, by the buttons or by a fall, reaches the motors unless the user
\* lets the robot stand again before.
StopReachesWire ==
  (sm = "DAMPING") ~> (wire = Damping \/ sm = "STAND")

=============================================================================
