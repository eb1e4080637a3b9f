------------------------------- MODULE Outbox -------------------------------
(***************************************************************************)
(* What the SDK promises of the events an app tracks, without queue, files *)
(* or requests: an event is held on the device until the server has it, or *)
(* until a documented rule waives it; and what the server once has it      *)
(* keeps.  EventQueue implements this specification as long as its queue   *)
(* is not overrun while a batch is being sent.                             *)
(***************************************************************************)
EXTENDS FiniteSets

CONSTANT Event

VARIABLES held,    \* events on the device, in memory or on disk
          stored,  \* events the server has
          waived   \* events discarded: disk cap, 4xx, drop-oldest, crash

vars == <<held, stored, waived>>

Init == held = {} /\ stored = {} /\ waived = {}

(* A new event is held; a full outbox waives some held event to make room. *)
Track(e) ==
    /\ e \notin held \cup stored \cup waived
    /\ \/ held' = held \cup {e} /\ UNCHANGED waived
       \/ \E old \in held \cup {e} : /\ held' = (held \cup {e}) \ {old}
                                     /\ waived' = waived \cup {old}
    /\ UNCHANGED stored

(* The server commits a batch that the device sent at some time.           *)
Store(S) ==
    /\ stored' = stored \cup S
    /\ UNCHANGED <<held, waived>>

(* The device forgets events, all of which the server has or are waived.   *)
Forget(S, W) ==
    /\ S \subseteq stored \cup W
    /\ held' = held \ S
    /\ waived' = waived \cup W
    /\ UNCHANGED stored

Next == \/ \E e \in Event : Track(e)
        \/ \E S \in SUBSET (held \cup waived) : Store(S)
        \/ \E S, W \in SUBSET held : Forget(S, W)

Spec == Init /\ [][Next]_vars

=============================================================================
