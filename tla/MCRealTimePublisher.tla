------------------------ MODULE MCRealTimePublisher -------------------------
(* Model checking of RealTimePublisher with two users, so that a realtime    *)
(* and a non-realtime thread compete with the loop, and with each other.     *)
EXTENDS RealTimePublisher
=============================================================================
