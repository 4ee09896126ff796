--------------------------- MODULE MCEventManager ---------------------------
(* The event loop with a listener and two connections at a time. *)
EXTENDS EventManager

MCFds == 1..3

=============================================================================
