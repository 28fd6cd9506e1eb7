----------------------------- MODULE MCWorkload -----------------------------
(***************************************************************************)
(* Instances of Workload: two workloads that can ask for the same address, *)
(* and two subnets with the same addresses.                                *)
(***************************************************************************)
EXTENDS Workload

List(s, ips, macs) == [ip |-> "list", ips |-> ips, macs |-> macs, subnet |-> s]
Auto(s) == [ip |-> "auto", ips |-> <<>>, macs |-> <<>>, subnet |-> s]
Bad == [ip |-> "bad", ips |-> <<>>, macs |-> <<>>, subnet |-> "s1"]

AddrsOf(s) == {1, 2}
MCKind(k) == IF k = "web" THEN "Deployment" ELSE "Job"
MCOwner(k) == k

(* web asks for two addresses, or moves to another subnet; the Job asks for one
   of them with a MAC, or for any, or for something that does not parse *)
MCTemplates(k) ==
    IF k = "web" THEN {List("s1", <<2, 1>>, <<>>), List("s2", <<1>>, <<>>)}
    ELSE {List("s1", <<1>>, <<"m">>), Auto("s1"), Bad}
=============================================================================
