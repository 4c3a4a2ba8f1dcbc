----------------------------- MODULE MCPrograms -----------------------------
(***************************************************************************)
(* Programs for TLC.                                                       *)
(***************************************************************************)
EXTENDS Programs

\* Time-outs from the shortest that the polling allows.
MCTimeouts == {3, 4, 6}

\* More than a buffer of frames that fit into it, the last one cut off.
MCUploads == {[frame |-> 2, size |-> 7]}

=============================================================================
