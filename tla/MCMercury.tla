----------------------------- MODULE MCMercury ------------------------------
(* TLC instances of Mercury: the process of an agent without a role, which *)
(* autoSubscribe gives the channel "status" alone, and a peer; the agent or*)
(* its launcher may subscribe to the channel "studio".  Agents meet only in*)
(* the messages, so one process with a peer that posts at any moment is the*)
(* general case.                                                           *)
EXTENDS Mercury, TLC

NoRoles == [a \in Agent |-> {Status}]

=============================================================================
