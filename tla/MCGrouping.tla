------------------------------ MODULE MCGrouping ------------------------------
(* TLC instances of Grouping: every page up to the bound.                  *)
EXTENDS Grouping

=============================================================================
