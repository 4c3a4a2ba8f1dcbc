------------------------------ MODULE MCMotion ------------------------------
(***************************************************************************)
(* Motion for TLC.                                                         *)
(***************************************************************************)
EXTENDS Motion

\* No turn, a part of a turn either way, and more than a full turn.
MCDeltas == {0, -3, 7}

\* An oblique displacement, which no two headings confuse.
MCDisplacements == {<<2, 1>>}

\* All targets and starts are multiples of twelve, so that the shares of stages
\* of 4, 3 and 2 passes are whole.
MCPositions == {-24, -12, 0, 36}
MCTargetPos == <<12, 36, -12>>
MCDurations == <<4, 3, 2, 2>>

=============================================================================
