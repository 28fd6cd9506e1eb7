------------------------- MODULE MCSubnetController -------------------------
(***************************************************************************)
(* Instances of SubnetController.                                         *)
(***************************************************************************)
EXTENDS SubnetController, TLC

CONSTANTS p1, p2

OneName == {p1}
TwoNames == {p1, p2}
Auto == {{}}

Symmetry == Permutations(TwoNames)
=============================================================================
