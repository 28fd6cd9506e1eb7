------------------------------- MODULE MCIPAM -------------------------------
(***************************************************************************)
(* Instances of IPAM.                                                     *)
(***************************************************************************)
EXTENDS IPAM

CONSTANT p1

OneName == {p1}
Auto == {{}}
Mixed == {{}, {2}}
=============================================================================
