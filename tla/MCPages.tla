------------------------------- MODULE MCPages -------------------------------
(* TLC instances of Pages.                                                 *)
EXTENDS Pages

(* Two timestamps, two apps.                                               *)
TwoApps == {[timestamp |-> 1, app |-> "murmur"],
            [timestamp |-> 2, app |-> "murmur"],
            [timestamp |-> 1, app |-> "studio"]}

=============================================================================
