---------------------------- MODULE MCEndpoints -----------------------------
(***************************************************************************)
(* Instances of Endpoints: two pods, and annotations that name the flat    *)
(* network, one that does not exist, or nothing that can be parsed.        *)
(***************************************************************************)
EXTENDS Endpoints

MCKinds == {"plain", "flat", "flat6"}
MCPods == {[p \in Pod |-> IF p \in S THEN [kind |-> "flat", up |-> TRUE, deleting |-> FALSE]
                          ELSE NoPod] : S \in {{1}, Pod}}
MCAnnotations == {<<>>, <<<<NetAttatchDefName>>>>,
                  <<<<"rancher-flat-network-cni">>>>, <<<<"a", "b", "c">>>>}
=============================================================================
