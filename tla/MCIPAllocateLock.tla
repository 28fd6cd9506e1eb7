-------------------------- MODULE MCIPAllocateLock --------------------------
(***************************************************************************)
(* Instances of IPAllocateLock: three goroutines and two subnets, so that  *)
(* a goroutine can wait behind the one that waits for a lock.              *)
(***************************************************************************)
EXTENDS IPAllocateLock

CONSTANTS p1, p2, p3, s1, s2

MCProcs == {p1, p2, p3}
MCSubnets == {s1, s2}
=============================================================================
