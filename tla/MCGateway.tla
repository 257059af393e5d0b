----------------------------- MODULE MCGateway -------------------------------
(* One scheme input with its signal name. *)
EXTENDS Gateway

CONSTANTS node1, signal1
MCSignalOf == [n \in LogicNode |-> signal1]
=============================================================================
