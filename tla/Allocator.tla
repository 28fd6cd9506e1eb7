------------------------------ MODULE Allocator ------------------------------
(***************************************************************************)
(* What the controllers promise of the addresses of a subnet, without      *)
(* objects, caches, locks and retries: an address is given to a name only  *)
(* when it is reserved and nobody else has it, and what somebody has stays *)
(* reserved.                                                               *)
(***************************************************************************)
CONSTANTS Name, Addr

VARIABLES owners,   \* the names that have an address
          used      \* the addresses that are reserved: Status.UsedIP

Init == owners = [a \in Addr |-> {}] /\ used \in SUBSET Addr

(* addresses are reserved and given back *)
Reserve(s) == /\ \A a \in Addr : owners[a] # {} => a \in s
              /\ used' = s
              /\ UNCHANGED owners

(* a name gets an address, in place of the one it had *)
Give(p, a) == /\ a \in used
              /\ owners[a] \subseteq {p}
              /\ owners' = [b \in Addr |-> IF b = a THEN {p} ELSE owners[b] \ {p}]
              /\ UNCHANGED used

(* names lose what they had *)
Drop == /\ owners' \in [Addr -> SUBSET Name]
        /\ \A a \in Addr : owners'[a] \subseteq owners[a]
        /\ UNCHANGED used

Next == \/ \E s \in SUBSET Addr : Reserve(s)
        \/ \E p \in Name, a \in Addr : Give(p, a)
        \/ Drop

Spec == Init /\ [][Next]_<<owners, used>>
=============================================================================
