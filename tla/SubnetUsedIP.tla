---------------------------- MODULE SubnetUsedIP ----------------------------
(***************************************************************************)
(* How Status.UsedIP and Status.UsedIPCount of one FlatNetworkSubnet       *)
(* change: the gateway is added when the subnet becomes Active             *)
(* (onSubnetCreate), an address is added when it is allocated (onIPCreate  *)
(* with allocateIP) and removed when its FlatNetworkIP is deleted          *)
(* (handleIPRemove), and everything is computed anew when the gateway      *)
(* changes (onSubnetUpdate).  The steps run one at a time, under the       *)
(* subnet's lock and with the latest version of the subnet: what happens   *)
(* without that is the subject of module IPAM.                             *)
(*                                                                         *)
(* owned is what the ranges stand for: the addresses of the FlatNetworkIPs *)
(* of the subnet.                                                          *)
(***************************************************************************)
EXTENDS SubnetSpec

CONSTANTS CIDRs,        \* spec.cidr of the subnet
          RangesOf(_),  \* the spec.ranges a user may write for a CIDR
          GatewaysOf(_), \* the spec.gateway a user may write for a CIDR
          MaxOwned      \* bound: pods of the subnet at a time

(* addresses are well formed, and no network reaches the top of the address space:
   an IPv4 address in its 16-byte form is below 2^48, and the top of IPv6 is
   multicast *)
ASSUME SubnetAssumption ==
    \A c \in CIDRs : /\ c \in [ip : Addr, bits : 0 .. W]
                     /\ Broadcast(c) < 2^W - 1
                     /\ RangesOf(c) \subseteq Seq(IPRange)
                     /\ GatewaysOf(c) \subseteq Addr \cup {NoIP}

VARIABLES cidr, ranges, gateway,   \* the subnet's spec
          usedIP, usedIPCount,     \* the subnet's status
          owned,                   \* addresses of its FlatNetworkIPs
          clash                    \* the gateway was once moved to an owned one

specVars == <<cidr, ranges>>
vars == <<cidr, ranges, gateway, usedIP, usedIPCount, owned, clash>>

(* onSubnetCreate: phase Active; the gateway is used but not counted *)
Init == /\ cidr \in CIDRs
        /\ ranges \in {rs \in RangesOf(cidr) : isValidRanges(rs, cidr)}
        /\ gateway \in {g \in GatewaysOf(cidr) : isValidGateway(g, cidr)}
        /\ usedIP = AddIPToRange(gateway, <<>>)
        /\ usedIPCount = 0
        /\ owned = {}
        /\ clash = FALSE

(* The closure that onIPCreate retries on conflict. *)
Claim(a) ==
    /\ usedIP' = AddIPToRange(a, usedIP)
    /\ usedIPCount' = usedIPCount + (IF IPInRanges(a, usedIP) THEN 0 ELSE 1)
    /\ owned' = owned \cup {a}
    /\ UNCHANGED <<specVars, gateway, clash>>

(* allocateIP without requested addresses *)
AllocateAuto ==
    LET a == GetAvailableIP(cidr, ranges, usedIP)
    IN Cardinality(owned) < MaxOwned /\ a \in Addr /\ Claim(a)

(* allocateIP with requested addresses, a being the first usable one; the
   address is compared with spec.ranges but not with spec.cidr *)
AllocateSpecific(a) ==
    /\ Cardinality(owned) < MaxOwned
    /\ ranges = <<>> \/ IPInRanges(a, ranges)
    /\ ~IPInRanges(a, usedIP)
    /\ Claim(a)

(* Bug variant: the count is decremented before the membership test. *)
ReleaseMiscounting(a) ==
    /\ a \in owned
    /\ usedIP' = RemoveIPFromRange(a, usedIP)
    /\ usedIPCount' = usedIPCount - (IF IPInRanges(a, usedIP) THEN 2 ELSE 1)
    /\ owned' = owned \ {a}
    /\ UNCHANGED <<specVars, gateway, clash>>

(* handleIPRemove *)
Release(a) ==
    /\ a \in owned
    /\ usedIP' = RemoveIPFromRange(a, usedIP)
    /\ usedIPCount' = usedIPCount - (IF IPInRanges(a, usedIP) THEN 1 ELSE 0)
    /\ owned' = owned \ {a}
    /\ UNCHANGED <<specVars, gateway, clash>>

(* Bug variant: the new gateway is left out of the new usedIP. *)
RecountWithoutGateway(ips, g) ==
    LET used[n \in 0 .. Len(ips)] ==
            IF n = 0 THEN <<>> ELSE AddIPToRange(ips[n], used[n - 1])
    IN used[Len(ips)]

(* the usedIP of onSubnetUpdate, from the addresses in the order the informer
   lists the FlatNetworkIPs *)
Recount(ips, g) ==
    LET used[n \in 0 .. Len(ips)] ==
            IF n = 0 THEN <<>> ELSE AddIPToRange(ips[n], used[n - 1])
    IN AddIPToRange(g, used[Len(ips)])

(* A user edits spec.gateway and onSubnetUpdate recomputes the status; with
   spec.gateway unchanged onSubnetUpdate leaves the status alone. *)
UpdateGateway(g) ==
    /\ g # gateway
    /\ isValidGateway(g, cidr)
    /\ gateway' = g
    /\ \E ips \in Orders(owned) : usedIP' = Recount(ips, g)
    /\ usedIPCount' = Cardinality(owned) + (IF g = NoIP THEN 0 ELSE 1)
    /\ clash' = (clash \/ g \in owned)
    /\ UNCHANGED <<specVars, owned>>

Next == \/ AllocateAuto
        \/ \E a \in 1 .. (2^W - 2) : AllocateSpecific(a)
        \/ \E a \in owned : Release(a)
        \/ \E g \in GatewaysOf(cidr) : UpdateGateway(g)

Spec == Init /\ [][Next]_vars

-----------------------------------------------------------------------------
Used == {a \in Addr : IPInRanges(a, usedIP)}

TypeOK == /\ cidr \in CIDRs
          /\ ranges \in Seq(IPRange)
          /\ gateway \in Addr \cup {NoIP}
          /\ usedIP \in Seq(IPRange)
          /\ usedIPCount \in Nat
          /\ owned \subseteq Addr
          /\ clash \in BOOLEAN

(***************************************************************************)
(* usedIP is in normal form after any history of AddIPToRange,             *)
(* RemoveIPFromRange and recounts in any order: sorted, disjoint, and no   *)
(* two ranges touch.  onSubnetUpdate compares the stored and the computed  *)
(* lists with reflect.DeepEqual, which is only meaningful for a normal     *)
(* form.                                                                   *)
(***************************************************************************)
NormalForm ==
    /\ \A i \in DOMAIN usedIP : usedIP[i].from <= usedIP[i].to
    /\ \A i \in 1 .. (Len(usedIP) - 1) : usedIP[i].to + 1 < usedIP[i + 1].from

(***************************************************************************)
(* usedIP stands for exactly the addresses in use: every owned address is  *)
(* in it, nothing else is but the gateway, and the gateway is (until a     *)
(* user moves it onto an address that a pod owns).                         *)
(***************************************************************************)
UsedIPIsOwned ==
    /\ owned \subseteq Used
    /\ Used \subseteq owned \cup {gateway}
    /\ gateway # NoIP /\ ~clash => gateway \in Used

(***************************************************************************)
(* What GetAvailableIP promises, said without loops: the lowest free host  *)
(* address of the network, or of the first range of spec.ranges that has   *)
(* one.                                                                    *)
(***************************************************************************)
Free(S) == {a \in S : IsAvailableIP(a, cidr) /\ a \notin Used}
Lowest(S) == IF S = {} THEN NoIP ELSE Min(S)
FirstFree ==
    IF ranges = <<>> THEN Lowest(Free(Addr))
    ELSE LET frees == [i \in DOMAIN ranges |-> Free(ranges[i].from .. ranges[i].to)]
             i == FirstIndex(frees, LAMBDA S : S # {})
         IN IF i = 0 THEN NoIP ELSE Min(frees[i])

(***************************************************************************)
(* GetAvailableIP finds an address whenever one is free, and reports       *)
(* ErrNoAvailableIP only when none is: jumping over a used range loses no  *)
(* address, and neither the network, nor the broadcast address, nor an     *)
(* address outside spec.ranges is handed out.                              *)
(***************************************************************************)
FindsFirstFree == GetAvailableIP(cidr, ranges, usedIP) = FirstFree

(***************************************************************************)
(* usedIPCount does not drift: it is the number of owned addresses, or one *)
(* more.  The one is the gateway, which onSubnetUpdate counts and          *)
(* onSubnetCreate does not.                                                *)
(***************************************************************************)
CountDoesNotDrift == usedIPCount - Cardinality(owned) \in {0, 1}
=============================================================================
