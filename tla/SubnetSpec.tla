----------------------------- MODULE SubnetSpec -----------------------------
(***************************************************************************)
(* The checks of pkg/common/common.go on the spec of a FlatNetworkSubnet,  *)
(* alone (ValidateSubnet) and against other subnets (CheckSubnetFlatMode   *)
(* and CheckSubnetConflict).                                               *)
(*                                                                         *)
(* Of a custom route only the gateway is kept: the rest of isValidRoutes   *)
(* (a device, a destination that parses, a priority of 31 bits) is about   *)
(* one field at a time and is not related to anything else.                *)
(***************************************************************************)
EXTENDS IPCalc

macvlanModes == {"", "bridge", "private", "vepa", "passthru"}
ipvlanModes == {"", "l2", "l3", "l3s"}
ipvlanFlags == {"", "bridge", "private", "vepa"}

isValidGateway(g, cidr) == g = NoIP \/ IPInNetwork(g, cidr)

(* both ends in the network and in order *)
isValidRanges(ranges, cidr) ==
    \A i \in DOMAIN ranges : /\ IPInNetwork(ranges[i].from, cidr)
                             /\ IPInNetwork(ranges[i].to, cidr)
                             /\ ranges[i].from <= ranges[i].to

isValidRoutes(cidr, vias) == \A via \in vias : via = NoIP \/ IPInNetwork(via, cidr)

ValidateSubnet(spec) ==
    /\ spec.flatMode \in {"macvlan", "ipvlan"}
    /\ isValidGateway(spec.gateway, spec.cidr)
    /\ isValidRanges(spec.ranges, spec.cidr)
    /\ isValidRoutes(spec.cidr, spec.vias)

-----------------------------------------------------------------------------
(* The checks of a subnet, by its name and spec, against a list of subnets;
   TRUE where the code returns an error. *)

(* Bug variant: two flat modes on one interface are accepted. *)
CheckSubnetFlatModeLenient(name, spec, subnets) ==
    ~(\/ spec.flatMode = "macvlan" /\ spec.mode \in macvlanModes /\ spec.flag = ""
      \/ spec.flatMode = "ipvlan" /\ spec.mode \in ipvlanModes /\ spec.flag \in ipvlanFlags)

CheckSubnetFlatMode(name, spec, subnets) ==
    \/ ~(\/ spec.flatMode = "macvlan" /\ spec.mode \in macvlanModes /\ spec.flag = ""
         \/ spec.flatMode = "ipvlan" /\ spec.mode \in ipvlanModes /\ spec.flag \in ipvlanFlags)
    \/ \E i \in DOMAIN subnets : /\ subnets[i].name # name
                                 /\ subnets[i].spec.vlan = spec.vlan
                                 /\ subnets[i].spec.flatMode # spec.flatMode

(* the orders in which an informer's cache may list a set of objects *)
Orders(S) == {order \in [1 .. Cardinality(S) -> S] : IsInjective(order)}

(* the first subnet of the list whose network overlaps decides *)
CheckSubnetConflict(name, spec, subnets) ==
    LET i == FirstIndex(subnets, LAMBDA s : /\ s.name # name
                                            /\ s.spec.flatMode = spec.flatMode
                                            /\ s.spec.vlan = spec.vlan
                                            /\ CheckNetworkConflict(s.spec.cidr, spec.cidr))
        ranges == subnets[i].spec.ranges
    IN i # 0 /\ (ranges # <<>> /\ spec.ranges # <<>>
                    => CheckIPRangesConflict(spec.ranges, ranges))
=============================================================================
