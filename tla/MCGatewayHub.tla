---------------------------- MODULE MCGatewayHub ----------------------------
(* Small instances of GatewayHub for TLC.                                  *)
EXTENDS GatewayHub, TLC

\* Connections and agents are interchangeable.
Symmetry == Permutations(Conn) \cup Permutations(Agent)
=============================================================================
