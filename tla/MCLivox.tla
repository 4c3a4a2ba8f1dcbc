------------------------------ MODULE MCLivox -------------------------------
(***************************************************************************)
(* Livox for TLC, with threads that are interchangeable.                   *)
(***************************************************************************)
EXTENDS Livox, TLC

CONSTANTS t1, t2, t3

MCThreads == {t1, t2, t3}
ThreadSymmetry == Permutations(MCThreads)

=============================================================================
