------------------------------ MODULE MCBroker ------------------------------
(* Connections, calls and devices are interchangeable.                     *)
EXTENDS Broker, TLC

CONSTANTS d1, d2, p1, p2, c1, c2

MCDevice == {d1, d2}
MCPeer   == {p1, p2}
MCCall   == {c1, c2}
Symmetry == Permutations(MCDevice) \cup Permutations(MCPeer) \cup Permutations(MCCall)
=============================================================================
