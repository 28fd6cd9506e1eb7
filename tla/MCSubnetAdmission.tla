------------------------- MODULE MCSubnetAdmission -------------------------
(***************************************************************************)
(* Instances of SubnetAdmission, with eight addresses: two subnets of one  *)
(* network, with and without ranges, in two flat modes.                    *)
(***************************************************************************)
EXTENDS SubnetAdmission

Interval(a, b) == <<[from |-> a, to |-> b]>>

Plain == [flatMode |-> "macvlan", mode |-> "bridge", flag |-> "", master |-> "eth0",
          vlan |-> 10, cidr |-> [ip |-> 0, bits |-> 2], gateway |-> NoIP,
          ranges |-> <<>>, vias |-> {}]
IPvlan == [Plain EXCEPT !.flatMode = "ipvlan", !.mode = "l2"]
Low == [Plain EXCEPT !.ranges = Interval(1, 1)]
Wide == [Plain EXCEPT !.ranges = Interval(1, 3)]
Backwards == [Plain EXCEPT !.ranges = Interval(3, 1)]

(* two names that conflict by ranges or by flat mode, and a spec that is not
   valid *)
Pairs(n) == IF n = 1 THEN {Low, Backwards} ELSE {Wide, IPvlan}
=============================================================================
