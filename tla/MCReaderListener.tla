-------------------------- MODULE MCReaderListener --------------------------
(* Model checking of ReaderListener with a queue of two messages: a batch of *)
(* two can fill it while the queue thread runs its handler, and the fourth   *)
(* message finds it full.                                                    *)
EXTENDS ReaderListener
=============================================================================
