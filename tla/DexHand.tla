------------------------------ MODULE DexHand -------------------------------
(***************************************************************************)
(* example/g1/dex3/g1_dex3_example.cpp: an input thread turns keys into    *)
(* currentState, and the main loop sends the hand one command per pass,    *)
(* chosen by currentState.  The main loop also writes currentState, once,  *)
(* when it has read INIT.                                                  *)
(*                                                                         *)
(* A rotate command is the value of _count it was computed from: the angle *)
(* is mid + amplitude * sin(_count / 20000 * pi), which lies within the    *)
(* URDF limits for every _count, and sweeps them exactly once on the way   *)
(* from -10000 to 10000.                                                   *)
(***************************************************************************)
EXTENDS Integers

CONSTANT Swing \* 10000: where _count turns back

VARIABLES
  currentState,
  inputThread,  \* "running", or "ended"
  main,         \* where the main loop is: "load" or "act"
  state,        \* what it read from currentState
  _count, dir,
  wire,         \* the command last written to the hand
  lastKey,      \* history: the key typed last
  swept         \* history: _count of the rotate command written last

vars == <<currentState, inputThread, main, state, _count, dir, wire, lastKey, swept>>

Init ==
  /\ currentState = "INIT" /\ state = "INIT"
  /\ inputThread = "running"
  /\ main = "load"
  /\ _count = 1 /\ dir = 1
  /\ wire = [command |-> "none", timeout |-> 0]
  /\ lastKey = "none" /\ swept = 0

-----------------------------------------------------------------------------
(* The input thread.                                                       *)

Meaning == [r |-> "ROTATE", g |-> "GRIP", p |-> "PRINT", s |-> "STOP", q |-> "STOP"]

userInputThread(ch) ==
  /\ inputThread = "running"
  /\ currentState' = Meaning[ch]
  /\ inputThread' = IF ch = "q" THEN "ended" ELSE "running"
  /\ lastKey' = ch
  /\ UNCHANGED <<main, state, _count, dir, wire, swept>>

-----------------------------------------------------------------------------
(* The main loop.                                                          *)

Load ==
  /\ main = "load"
  /\ main' = "act"
  /\ state' = currentState
  /\ UNCHANGED <<currentState, inputThread, _count, dir, wire, lastKey, swept>>

Initialize ==
  /\ main = "act" /\ state = "INIT"
  /\ main' = "load"
  /\ currentState' = "ROTATE"
  /\ UNCHANGED <<inputThread, state, _count, dir, wire, lastKey, swept>>

\* Mutation of Turned: the ends are taken as passed, not as reached.
TurnedLate(c) == IF c > Swing THEN -1 ELSE IF c < -Swing THEN 1 ELSE dir

\* dir for the next pass, after _count has become c.
Turned(c) == IF c >= Swing THEN -1 ELSE IF c <= -Swing THEN 1 ELSE dir

\* ris_mode.timeout is not initialised here: it is any bit.
rotateMotors(bit) ==
  /\ main = "act" /\ state = "ROTATE"
  /\ main' = "load"
  /\ wire' = [command |-> "rotate", timeout |-> bit]
  /\ swept' = _count
  /\ _count' = _count + dir
  /\ dir' = Turned(_count + dir)
  /\ UNCHANGED <<currentState, inputThread, state, lastKey>>

\* Nor here.
gripHand(bit) ==
  /\ main = "act" /\ state = "GRIP"
  /\ main' = "load"
  /\ wire' = [command |-> "grip", timeout |-> bit]
  /\ UNCHANGED <<currentState, inputThread, state, _count, dir, lastKey, swept>>

\* Mutation of stopMotors: the message is filled, but not written.
stopMotorsUnwritten ==
  /\ main = "act" /\ state = "STOP"
  /\ main' = "load"
  /\ UNCHANGED <<currentState, inputThread, state, _count, dir, wire, lastKey, swept>>

stopMotors ==
  /\ main = "act" /\ state = "STOP"
  /\ main' = "load"
  /\ wire' = [command |-> "stop", timeout |-> 1]
  /\ UNCHANGED <<currentState, inputThread, state, _count, dir, lastKey, swept>>

printState ==
  /\ main = "act" /\ state = "PRINT"
  /\ main' = "load"
  /\ UNCHANGED <<currentState, inputThread, state, _count, dir, wire, lastKey, swept>>

Main ==
  \/ Load
  \/ Initialize
  \/ \E bit \in {0, 1} : rotateMotors(bit) \/ gripHand(bit)
  \/ stopMotors
  \/ printState

Next ==
  \/ \E ch \in DOMAIN Meaning : userInputThread(ch)
  \/ Main

Spec == Init /\ [][Next]_vars

-----------------------------------------------------------------------------
(* Properties.                                                             *)

\* The rotation sweeps the range between the URDF limits: however it is
\* interrupted by other commands, it resumes within one step of where it was,
\* and it turns back at the ends and not behind them.
SweepsTheRange ==
  [][/\ swept' \in -Swing .. Swing
     /\ swept' - swept \in {-1, 0, 1}]_vars

\* A stop reaches the hand, unless another key is typed first or the main loop
\* overwrites it because it has read INIT: that happens at the start only, and
\* a stop that survived it is carried out.
StopReachesHand ==
  (currentState = "STOP" /\ state # "INIT") ~> (wire.command = "stop" \/ lastKey \in {"r", "g", "p"})

\* The menu: "s - Stop".  A stop reaches the hand whenever it is typed.
StopAlwaysReachesHand ==
  (lastKey = "s") ~> (wire.command = "stop" \/ lastKey # "s")

=============================================================================
