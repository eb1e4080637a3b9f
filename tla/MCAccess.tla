------------------------------- MODULE MCAccess -------------------------------
(* TLC instances of Access.                                                *)
EXTENDS Access

=============================================================================
