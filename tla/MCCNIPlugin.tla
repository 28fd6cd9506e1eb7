----------------------------- MODULE MCCNIPlugin -----------------------------
(***************************************************************************)
(* Instances of CNIPlugin: three pods on a node, two of which have the     *)
(* same address one after the other.                                       *)
(***************************************************************************)
EXTENDS CNIPlugin

CONSTANTS p1, p2, p3

MCPods == {p1, p2, p3}
MCAddr == {1, 2}
MCAddrOf == [p \in MCPods |-> IF p = p3 THEN 2 ELSE 1]
=============================================================================
