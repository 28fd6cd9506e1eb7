------------------------ MODULE MCFlatNetworkService ------------------------
(***************************************************************************)
(* Instances of FlatNetworkService: a service that is headless or not, the *)
(* largest port, and an ingress with both services behind it.              *)
(***************************************************************************)
EXTENDS FlatNetworkService

Spec80(headless, port, sel) == [kind |-> "default", sel |-> sel, headless |-> headless,
                                port |-> port, target |-> 0]
MCSpecs == {Spec80(FALSE, 1, TRUE), Spec80(TRUE, 1, TRUE), Spec80(TRUE, 2, TRUE),
            Spec80(FALSE, 1, FALSE), [Spec80(FALSE, 1, TRUE) EXCEPT !.kind = "ingress"]}
OnePod == {[p \in Pod |-> IF p = 1 THEN kind ELSE "none"] : kind \in {"none", "flat"}}
MCBackends == <<1, 0>>
=============================================================================
