------------------------------ MODULE MCSession ------------------------------
(* TLC instances of Session: threads track while the app comes and goes.   *)
EXTENDS Session, TLC

Symmetry == Permutations(Thread)

=============================================================================
