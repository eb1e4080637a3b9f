------------------------------ MODULE MCIngest ------------------------------
(* TLC instances of Ingest: two requests race, dashboards come and go.     *)
EXTENDS Ingest

=============================================================================
