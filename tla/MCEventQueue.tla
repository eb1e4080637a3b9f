---------------------------- MODULE MCEventQueue ----------------------------
(* TLC instances of EventQueue: the .cfg files give the bounds.            *)
EXTENDS EventQueue

=============================================================================
