---------------------------- MODULE Subscription ----------------------------
(***************************************************************************)
(* dds_wrapper/common/Subscription.h: SubscriptionBase keeps the newest    *)
(* message of a topic and the time it came; wait_for_connection polls that *)
(* time.  publisher::LowCmd::check_mode_machine of the G1 relies on it: it *)
(* waits and then reads msg_, without the mutex, to compare the robot's    *)
(* mode_machine with the one it is about to command.                       *)
(*                                                                         *)
(* A message is the robot's mode_machine, which does not change.  Time     *)
(* points are kept as ages in ticks, up to MaxAge.  A sleep lasts at least *)
(* as long as asked and at most Slack longer; a handler that stamped a     *)
(* message has copied it within HandlerBound ticks.                        *)
(***************************************************************************)
EXTENDS Integers

CONSTANTS
  Modes,           \* values of mode_machine; 0 is the simulation
  DefaultTimeout,  \* timeout_ms_ of a new subscription
  Timeouts,        \* the arguments of set_timeout_ms
  Poll,            \* the sleep between two looks
  Stable,          \* the sleep after the connection
  Slack, HandlerBound, MaxAge

\* A time-out that is shorter than the polling would miss messages, and a
\* handler slower than the last sleep would leave msg_ unset.
ASSUME SubscriptionAssumption ==
  /\ Modes \subseteq Nat /\ 0 \in Modes /\ Timeouts \subseteq Nat
  /\ DefaultTimeout \in Nat /\ Poll \in Nat /\ Stable \in Nat
  /\ Slack \in Nat /\ HandlerBound \in Nat /\ MaxAge \in Nat
  /\ \A t \in Timeouts \cup {DefaultTimeout} : Poll + Slack <= t /\ t < MaxAge
  /\ HandlerBound < Stable

VARIABLES
  robot, mode_pub, \* the robot's mode_machine and the one in the command
  msg,             \* mode_machine of msg_
  age,             \* now - last_update_time_
  timeout,         \* timeout_ms_
  handling,        \* ticks since the handler stamped; -1: not in the handler
  wait,            \* wait_for_connection: "none", "look", "sleep", "stable" or "connected"
  left,            \* what is left of its sleep
  verdict,         \* what check_mode_machine returned
  heard,           \* history: a message came since the last look
  raised           \* history: set_timeout_ms exceeded the first time-out

vars == <<robot, mode_pub, msg, age, timeout, handling, wait, left, verdict, heard, raised>>

\* Constructed without a handler of the user's, as every class is: with one, the
\* time would never be stamped.
Init ==
  /\ robot \in Modes /\ mode_pub \in Modes
  /\ msg = 0
  /\ timeout = DefaultTimeout
  /\ age = DefaultTimeout + 1
  /\ handling = -1
  /\ wait = "none" /\ left = 0
  /\ verdict = "none"
  /\ heard = FALSE /\ raised = FALSE

TypeOK ==
  /\ robot \in Modes /\ mode_pub \in Modes /\ msg \in Modes
  /\ age \in 0..MaxAge
  /\ timeout \in Timeouts \cup {DefaultTimeout}
  /\ handling \in -1..HandlerBound
  /\ wait \in {"none", "look", "sleep", "stable", "connected"}
  /\ left \in -Slack..(Poll + Stable)
  /\ verdict \in {"none", "ok", "differs"}
  /\ heard \in BOOLEAN /\ raised \in BOOLEAN

-----------------------------------------------------------------------------
(* The handler of the reader: the time first, the message under the lock.  *)

Stamp ==
  /\ handling = -1
  /\ handling' = 0
  /\ age' = 0
  /\ heard' = TRUE
  /\ UNCHANGED <<robot, mode_pub, msg, timeout, wait, left, verdict, raised>>

Copy ==
  /\ handling # -1
  /\ handling' = -1
  /\ msg' = robot
  /\ UNCHANGED <<robot, mode_pub, age, timeout, wait, left, verdict, heard, raised>>

-----------------------------------------------------------------------------
(* The user's side.                                                        *)

SetTimeout(t) ==
  /\ timeout' = t
  /\ raised' = (raised \/ t > DefaultTimeout)
  /\ UNCHANGED <<robot, mode_pub, msg, age, handling, wait, left, verdict, heard>>

\* Mutation of IsTimeout: a message as old as the time-out counts as late.
IsTimeoutEarly == age >= timeout

IsTimeout == age > timeout

WaitForConnection ==
  /\ wait \in {"none", "connected"}
  /\ wait' = "look"
  /\ left' = 0
  /\ verdict' = "none"
  /\ heard' = FALSE
  /\ UNCHANGED <<robot, mode_pub, msg, age, timeout, handling, raised>>

\* Mutation of Settle: no sleep after the connection.
SettleNot == 0

\* The sleep "for stable communication".
Settle == Stable

Look ==
  /\ wait = "look"
  /\ IF IsTimeout THEN wait' = "sleep" /\ left' = Poll
                  ELSE wait' = "stable" /\ left' = Settle
  /\ heard' = FALSE
  /\ UNCHANGED <<robot, mode_pub, msg, age, timeout, handling, verdict, raised>>

WakeUp ==
  /\ wait \in {"sleep", "stable"} /\ left <= 0
  /\ wait' = IF wait = "sleep" THEN "look" ELSE "connected"
  /\ UNCHANGED <<robot, mode_pub, msg, age, timeout, handling, left, verdict, heard, raised>>

\* check_mode_machine, once the wait is over
CheckModeMachine ==
  /\ wait = "connected" /\ verdict = "none"
  /\ verdict' = IF msg # 0 /\ msg # mode_pub THEN "differs" ELSE "ok"
  /\ UNCHANGED <<robot, mode_pub, msg, age, timeout, handling, wait, left, heard, raised>>

-----------------------------------------------------------------------------
\* A look is not put off: it takes no time between two sleeps.
Tick ==
  /\ handling < HandlerBound
  /\ wait # "look"
  /\ wait \in {"sleep", "stable"} => left > -Slack
  /\ handling' = IF handling = -1 THEN -1 ELSE handling + 1
  /\ age' = IF age < MaxAge THEN age + 1 ELSE age
  /\ left' = IF wait \in {"sleep", "stable"} THEN left - 1 ELSE left
  /\ UNCHANGED <<robot, mode_pub, msg, timeout, wait, verdict, heard, raised>>

Next ==
  \/ Stamp
  \/ Copy
  \/ \E t \in Timeouts : SetTimeout(t)
  \/ WaitForConnection
  \/ Look
  \/ WakeUp
  \/ CheckModeMachine
  \/ Tick

Spec == Init /\ [][Next]_vars

-----------------------------------------------------------------------------
(* Properties.                                                             *)

\* As long as the time-out is not raised, a mode that was checked is the one
\* the robot runs, unless that is a simulation: wait_for_connection does not
\* return before a message was copied, although the handler stamps it first
\* and msg_ is read without the mutex.
CheckedModeIsTrue == (verdict = "ok" /\ ~raised) => robot \in {0, mode_pub}

\* A single message ends the wait: no look finds a time-out when a message
\* came since the look before, however the clock and the sleeps fall.
NoMessageMissed == [][(wait = "look" /\ wait' = "sleep") => ~heard]_vars

=============================================================================
