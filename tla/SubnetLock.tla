----------------------------- MODULE SubnetLock -----------------------------
(***************************************************************************)
(* What IPAllocateLock promises its callers: a lock for each subnet, that  *)
(* is asked for, granted to one goroutine when nobody has it, and given    *)
(* back.  The variable lock of IPAM and SubnetController is holders of one *)
(* subnet.                                                                 *)
(***************************************************************************)
CONSTANTS Procs, Subnets

VARIABLES wants,     \* the subnets a goroutine has asked for: at most one
          holders    \* the goroutines that have the lock of a subnet

Init == /\ wants = [p \in Procs |-> {}]
        /\ holders = [s \in Subnets |-> {}]

Ask(p, s) == /\ wants[p] = {}
             /\ \A t \in Subnets : p \notin holders[t]
             /\ wants' = [wants EXCEPT ![p] = {s}]
             /\ UNCHANGED holders

Grant(p, s) == /\ s \in wants[p]
               /\ holders[s] = {}
               /\ wants' = [wants EXCEPT ![p] = {}]
               /\ holders' = [holders EXCEPT ![s] = {p}]

GiveBack(p, s) == /\ holders[s] = {p}
                  /\ holders' = [holders EXCEPT ![s] = {}]
                  /\ UNCHANGED wants

Next == \E p \in Procs, s \in Subnets : Ask(p, s) \/ Grant(p, s) \/ GiveBack(p, s)

Spec == Init /\ [][Next]_<<wants, holders>>
=============================================================================
