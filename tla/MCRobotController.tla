------------------------- MODULE MCRobotController --------------------------
(* The control framework for TLC.                                          *)
EXTENDS RobotController

\* What the user holds: nothing, each button that starts something, two at
\* once, and the stop buttons together with those, so that several tests
\* succeed in one step.
MCRemotes == {{}, {"R1"}, {"R2"}, {"R2", "A"}, {"L2", "B", "A", "R2"}}
=============================================================================
