--------------------------- MODULE MCNetworkClient ---------------------------
(* TLC instances of NetworkClient: the .cfg files give the bounds.         *)
EXTENDS NetworkClient

=============================================================================
