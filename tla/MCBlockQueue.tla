--------------------------- MODULE MCBlockQueue ----------------------------
(* Model checking of BlockQueue: three consumers on a queue of three items, *)
(* so that items, sleepers and woken threads can each outnumber the others. *)
EXTENDS BlockQueue

MCItems == {"x", "y"}
=============================================================================
