------------------------------ MODULE CNIPlugin ------------------------------
(***************************************************************************)
(* The CNI plugin on one node (pkg/cni): the commands ADD and DEL of       *)
(* several pods at the same time, as the container runtime calls them, and *)
(* the verdict of CHECK.  Every call of ADD or DEL is a process of its     *)
(* own; what they share is the host's network namespace: the VLAN          *)
(* interface of the subnet, its promiscuous mode, and the host's routes.   *)
(*                                                                         *)
(* ADD works with "err", a variable that two deferred functions test.  They*)
(* clean up only when err is set, and run in reverse order: the one that   *)
(* removes the host's route, which ASSIGNS err, before the one that        *)
(* deletes the link.  A return that does not assign err cleans up nothing. *)
(*                                                                         *)
(* After an ADD that failed, and when a pod stops, the runtime calls DEL   *)
(* until it succeeds and then removes the pod's network namespace, and the *)
(* links in it with it.                                                    *)
(***************************************************************************)
EXTENDS Naturals

CONSTANTS
    Pods,            \* pods of the node
    Addr, AddrOf,    \* the addresses that IPAM has given them
    FlatMode,        \* of the subnet: "macvlan" or "ipvlan"
    Mode, Flag,      \* of the subnet: the empty string, or spec.mode and
                     \* spec.ipvlanFlag
    VLAN,            \* does the subnet have a VLAN ID?
    AddPodIPToHost,  \* of the subnet's route settings
    MaxFailures      \* bound: system calls and requests that fail

(* the steps after whose failure a route may stay behind on the host, or another
   pod may lose its link *)
Leaving == {"vlanUp", "status", "undoRoute", "delRoute"}

ASSUME PodAssumption == AddrOf \in [Pods -> Addr]
ASSUME SubnetAssumption == /\ FlatMode \in {"macvlan", "ipvlan"}
                           /\ VLAN \in BOOLEAN /\ AddPodIPToHost \in BOOLEAN
ASSUME FailureAssumption == MaxFailures \in Nat

VARIABLES
    pc,         \* where the command of each pod is; "out": no sandbox
    link,       \* the flat-network link in the pod's network namespace
    vlan,       \* the VLAN interface on the host
    promisc,    \* is the master interface in promiscuous mode?
    hostRoutes, \* addresses with a route on the host
    failures,   \* failures so far
    broken      \* history: those of them at a step of Leaving

vars == <<pc, link, vlan, promisc, hostRoutes, failures, broken>>

PC == {"out", "wait", "list", "vlanAdd", "vlanUp", "create", "ipam", "configure",
       "kubeCIDR", "nodeCIDR", "hostRoute", "gateway", "custom", "status", "print",
       "up", "undo", "failed", "del", "delRoute"}
Link == {"none", "tmp", "bare", "addr"}

Init == /\ pc = [p \in Pods |-> "out"]
        /\ link = [p \in Pods |-> "none"]
        /\ vlan = "none"
        /\ promisc = FALSE
        /\ hostRoutes = {}
        /\ failures = 0
        /\ broken = {}

At(p, l) == pc[p] = l
Goto(p, l) == pc' = [pc EXCEPT ![p] = l]
SetLink(p, l) == link' = [link EXCEPT ![p] = l]

(* a call fails at step s, and there p goes on at l *)
Fail(p, s, l) == /\ failures < MaxFailures
                 /\ failures' = failures + 1
                 /\ broken' = broken \cup ({s} \cap Leaving)
                 /\ Goto(p, l)

Proceeds == UNCHANGED <<failures, broken>>

-----------------------------------------------------------------------------
(* The runtime has a new sandbox for the pod.  IPAM gives an address to one
   pod at a time. *)
AddStart(p) ==
    /\ At(p, "out")
    /\ \A q \in Pods \ {p} : AddrOf[q] = AddrOf[p] => At(q, "out")
    /\ Goto(p, "wait")
    /\ Proceeds
    /\ UNCHANGED <<link, vlan, promisc, hostRoutes>>

(* wait for the FlatNetworkIP to have an address, get the subnet, and put the
   master in promiscuous mode for macvlan *)
AddWait(p) ==
    /\ At(p, "wait")
    /\ \/ /\ Goto(p, "list") /\ Proceeds
          /\ promisc' = (promisc \/ FlatMode = "macvlan")
       \/ /\ Fail(p, "wait", "failed")
          /\ UNCHANGED promisc
    /\ UNCHANGED <<link, vlan, hostRoutes>>

(* list the host's links and look for the VLAN interface *)
GetVlanIfaceOnHost(p) ==
    /\ At(p, "list")
    /\ Goto(p, IF VLAN /\ vlan = "none" THEN "vlanAdd" ELSE "create")
    /\ Proceeds
    /\ UNCHANGED <<link, vlan, promisc, hostRoutes>>

(* Bug variant: an interface that could not be added is deleted. *)
createVLANOnHostCleaningUp(p) ==
    /\ At(p, "vlanAdd")
    /\ \/ /\ vlan = "none"
          /\ vlan' = "down"
          /\ Goto(p, "vlanUp")
          /\ UNCHANGED link
       \/ /\ vlan # "none"
          /\ vlan' = "none"
          /\ link' = [q \in Pods |-> "none"]
          /\ Goto(p, "failed")
    /\ Proceeds
    /\ UNCHANGED <<promisc, hostRoutes>>

(* LinkAdd, which fails when the interface exists by now *)
createVLANOnHost(p) ==
    /\ At(p, "vlanAdd")
    /\ \/ /\ vlan = "none"
          /\ vlan' = "down"
          /\ Goto(p, "vlanUp") /\ Proceeds
       \/ /\ vlan # "none"
          /\ Goto(p, "failed") /\ Proceeds
          /\ UNCHANGED vlan
       \/ /\ Fail(p, "vlanAdd", "failed")
          /\ UNCHANGED vlan
    /\ UNCHANGED <<link, promisc, hostRoutes>>

(* LinkSetUp and the fetch of the new interface; when one fails the interface
   is deleted, and the kernel deletes every link on top of it *)
SetUpVLAN(p) ==
    /\ At(p, "vlanUp")
    /\ \/ /\ vlan' = "up"
          /\ Goto(p, "create") /\ Proceeds
          /\ UNCHANGED link
       \/ /\ Fail(p, "vlanUp", "failed")
          /\ vlan' = "none"
          /\ link' = [q \in Pods |-> "none"]
    /\ UNCHANGED <<promisc, hostRoutes>>

(* What a Create that fails leaves in the pod's namespace.  A link with a
   temporary name is added to it and renamed.  macvlan.Create deletes the link
   that it cannot rename, ipvlan.Create does not. *)
MacvlanLeaves == {"none"}
IPvlanLeaves == {"none", "tmp"}

Create(p) ==
    /\ At(p, "create")
    /\ \/ /\ VLAN => vlan # "none"
          /\ Goto(p, "ipam") /\ Proceeds
          /\ SetLink(p, "bare")
       \/ /\ VLAN /\ vlan = "none"
          /\ Goto(p, "failed") /\ Proceeds
          /\ UNCHANGED link
       \/ /\ Fail(p, "create", "failed")
          /\ \E l \in IF FlatMode = "macvlan" THEN MacvlanLeaves ELSE IPvlanLeaves :
                SetLink(p, l)
    /\ UNCHANGED <<vlan, promisc, hostRoutes>>

(* mergeIPAMConfig and ipam.ExecAdd, after which only the link is cleaned up;
   the conversion of the result; and a result without addresses, which returns
   without assigning err *)
ExecIPAM(p) ==
    /\ At(p, "ipam")
    /\ \/ Goto(p, "configure") /\ Proceeds /\ UNCHANGED link
       \/ Fail(p, "ipam", "failed") /\ SetLink(p, "none")
       \/ Fail(p, "ipam", "undo") /\ UNCHANGED link
       \/ Fail(p, "noIPs", "failed") /\ UNCHANGED link
    /\ UNCHANGED <<vlan, promisc, hostRoutes>>

(* ipam.ConfigureIface, which gives the link its address *)
ConfigureIface(p) ==
    /\ At(p, "configure")
    /\ \/ /\ link[p] = "bare"
          /\ SetLink(p, "addr")
          /\ Goto(p, "kubeCIDR") /\ Proceeds
       \/ /\ link[p] # "bare"
          /\ Goto(p, "undo") /\ Proceeds
          /\ UNCHANGED link
       \/ /\ Fail(p, "configure", "undo")
          /\ UNCHANGED link \/ (link[p] = "bare" /\ SetLink(p, "addr"))
    /\ UNCHANGED <<vlan, promisc, hostRoutes>>

(* the routes to the pods, the services and the nodes of the cluster, in the
   pod's own namespace; none when there is no default route to copy *)
AddPodKubeCIDRRoutes(p) ==
    /\ At(p, "kubeCIDR")
    /\ \/ Goto(p, "nodeCIDR") /\ Proceeds
       \/ Fail(p, "kubeCIDR", "undo")
    /\ UNCHANGED <<link, vlan, promisc, hostRoutes>>

AddPodNodeCIDRRoutes(p) ==
    /\ At(p, "nodeCIDR")
    /\ \/ Goto(p, IF AddPodIPToHost THEN "hostRoute" ELSE "gateway") /\ Proceeds
       \/ Fail(p, "nodeCIDR", "undo")
    /\ UNCHANGED <<link, vlan, promisc, hostRoutes>>

(* Nothing is added when the pod has no address of the cluster's own network.
   After a failed RouteAdd, also for a route that exists, the existing route
   is deleted. *)
AddFlatNetworkRouteToHost(p) ==
    /\ At(p, "hostRoute")
    /\ \/ /\ Goto(p, "gateway") /\ Proceeds
          /\ UNCHANGED hostRoutes
       \/ /\ AddrOf[p] \notin hostRoutes
          /\ hostRoutes' = hostRoutes \cup {AddrOf[p]}
          /\ Goto(p, "gateway") /\ Proceeds
       \/ /\ AddrOf[p] \in hostRoutes
          /\ hostRoutes' = hostRoutes \ {AddrOf[p]}
          /\ Goto(p, "undo") /\ Proceeds
       \/ /\ Fail(p, "hostRoute", "undo")
          /\ hostRoutes' = hostRoutes \ {AddrOf[p]}
    /\ UNCHANGED <<link, vlan, promisc>>

UpdatePodDefaultGateway(p) ==
    /\ At(p, "gateway")
    /\ \/ Goto(p, "custom") /\ Proceeds
       \/ Fail(p, "gateway", "undo")
    /\ UNCHANGED <<link, vlan, promisc, hostRoutes>>

(* the custom routes: err is a new variable here, and so nothing is cleaned
   up *)
AddPodFlatNetworkCustomRoutes(p) ==
    /\ At(p, "custom")
    /\ \/ Goto(p, "status") /\ Proceeds
       \/ Fail(p, "custom", "failed")
    /\ UNCHANGED <<link, vlan, promisc, hostRoutes>>

(* phase Active.  A request that fails leaves an empty FlatNetworkIP behind:
   the link is deleted, and the deferred function is given no address and
   leaves the host's route. *)
UpdateIPStatus(p) ==
    /\ At(p, "status")
    /\ \/ Goto(p, "print") /\ Proceeds /\ UNCHANGED link
       \/ Fail(p, "status", "failed") /\ SetLink(p, "none")
    /\ UNCHANGED <<vlan, promisc, hostRoutes>>

PrintResult(p) ==
    /\ At(p, "print")
    /\ \/ Goto(p, "up") /\ Proceeds
       \/ Fail(p, "print", "undo")
    /\ UNCHANGED <<link, vlan, promisc, hostRoutes>>

(* The deferred functions with err set.  Removing the host's route assigns
   err, and the link is deleted only when that has failed. *)
Undo(p) ==
    /\ At(p, "undo")
    /\ \/ /\ hostRoutes' = IF AddPodIPToHost THEN hostRoutes \ {AddrOf[p]} ELSE hostRoutes
          /\ link' = [link EXCEPT ![p] = IF AddPodIPToHost THEN @ ELSE "none"]
          /\ Goto(p, "failed") /\ Proceeds
       \/ /\ AddPodIPToHost
          /\ Fail(p, "undoRoute", "failed")
          /\ SetLink(p, "none")
          /\ UNCHANGED hostRoutes
    /\ UNCHANGED <<vlan, promisc>>

-----------------------------------------------------------------------------
(* the pod stops, or its ADD has failed *)
DelStart(p) ==
    /\ pc[p] \in {"up", "failed"}
    /\ Goto(p, "del") /\ Proceeds
    /\ UNCHANGED <<link, vlan, promisc, hostRoutes>>

(* Bug variant: the addresses are listed when the link is gone. *)
DelLinkForgettingAddrs(p) ==
    /\ At(p, "del")
    /\ Goto(p, "out") /\ Proceeds
    /\ SetLink(p, "none")
    /\ UNCHANGED <<vlan, promisc, hostRoutes>>

(* Bug variant: a link that is already removed is an error. *)
DelLinkInsisting(p) ==
    /\ At(p, "del")
    /\ Goto(p, CASE link[p] = "addr" -> "delRoute"
                 [] link[p] = "none" -> "del"
                 [] OTHER            -> "out")
    /\ Proceeds
    /\ SetLink(p, "none")
    /\ UNCHANGED <<vlan, promisc, hostRoutes>>

(* DEL: ipam.ExecDel, the addresses of the link, LinkDel.  Without a link, or
   without addresses on it, there is nothing left to do. *)
DelLink(p) ==
    /\ At(p, "del")
    /\ \/ /\ Goto(p, IF link[p] = "addr" THEN "delRoute" ELSE "out") /\ Proceeds
          /\ SetLink(p, "none")
       \/ /\ Fail(p, "del", "del")
          /\ UNCHANGED link
    /\ UNCHANGED <<vlan, promisc, hostRoutes>>

DelFlatNetworkRouteFromHost(p) ==
    /\ At(p, "delRoute")
    /\ \/ /\ hostRoutes' = hostRoutes \ {AddrOf[p]}
          /\ Goto(p, "out") /\ Proceeds
       \/ /\ Fail(p, "delRoute", "del")
          /\ UNCHANGED hostRoutes
    /\ UNCHANGED <<link, vlan, promisc>>

-----------------------------------------------------------------------------
Add(p) == \/ AddWait(p)
          \/ GetVlanIfaceOnHost(p) \/ createVLANOnHost(p) \/ SetUpVLAN(p)
          \/ Create(p) \/ ExecIPAM(p) \/ ConfigureIface(p)
          \/ AddPodKubeCIDRRoutes(p) \/ AddPodNodeCIDRRoutes(p)
          \/ AddFlatNetworkRouteToHost(p) \/ UpdatePodDefaultGateway(p)
          \/ AddPodFlatNetworkCustomRoutes(p)
          \/ UpdateIPStatus(p) \/ PrintResult(p) \/ Undo(p)

Del(p) == DelLink(p) \/ DelFlatNetworkRouteFromHost(p)

Next == \E p \in Pods : AddStart(p) \/ Add(p) \/ DelStart(p) \/ Del(p)

Spec == Init /\ [][Next]_vars

(* A command runs to its end, an ADD that failed is cleaned up, and the
   kubelet keeps trying to start the pod that has an address. *)
FairSpec ==
    /\ Spec
    /\ \A p \in Pods : /\ WF_vars(Add(p)) /\ WF_vars(Del(p))
                       /\ WF_vars(At(p, "failed") /\ DelStart(p))
    /\ \A a \in Addr :
          WF_vars(\E p \in Pods : AddrOf[p] = a /\ AddStart(p))

-----------------------------------------------------------------------------
(* Bug variant: Create ignores the mode of the subnet. *)
ActualModeDefault == IF FlatMode = "macvlan" THEN "bridge" ELSE "l2"

(* what the link is made with: ModeFromString, FlagFromString and back; a
   macvlan link has no flag *)
ActualMode == IF Mode # "" THEN Mode
              ELSE IF FlatMode = "macvlan" THEN "bridge" ELSE "l2"
ActualFlag == IF FlatMode = "macvlan" THEN ""
              ELSE IF Flag # "" THEN Flag ELSE "bridge"

(* the type, mode and flag of the link against those of the subnet *)
validateCniContainerInterface(p) ==
    /\ link[p] \in {"bare", "addr"}
    /\ ActualMode = IF Mode = "" THEN "bridge" ELSE Mode
    /\ ActualFlag = IF Flag = "" THEN "bridge" ELSE Flag

(* CHECK: does it accept p's link? *)
Check(p) == link[p] = "addr" /\ validateCniContainerInterface(p)

-----------------------------------------------------------------------------
TypeOK == /\ pc \in [Pods -> PC]
          /\ link \in [Pods -> Link]
          /\ vlan \in {"none", "down", "up"}
          /\ promisc \in BOOLEAN
          /\ hostRoutes \subseteq Addr
          /\ failures \in 0 .. MaxFailures
          /\ broken \subseteq Leaving

(* Whatever step of ADD fails, and whether or not its deferred functions clean
   up, ADD and the DEL that follows it leave no route on the host to a pod that
   is not there, but for failures at a step of Leaving. *)
RoutesHavePods ==
    broken = {} =>
       \A a \in hostRoutes : \E p \in Pods : AddrOf[p] = a /\ pc[p] # "out"

(* A pod that is up keeps its link until its own DEL: nothing that the ADDs and
   DELs of other pods do on the host, on success or on failure, takes it
   away, but for failures at a step of Leaving. *)
LinkStays ==
    [][\A p \in Pods :
          (pc[p] = "up" /\ link[p] = "addr" /\ pc'[p] = "up" /\ broken' = {})
             => link'[p] = "addr"]_vars

(* CHECK accepts the link of a pod that is up, but for failures at a step of
   Leaving: what check.go expects of it is what add.go has made. *)
CheckAccepts == broken = {} => \A p \in Pods : pc[p] = "up" => Check(p)

(* Failures that end do not keep a pod from its network: what they have left
   behind on the host, a route to the same address or a half-made VLAN
   interface, does not make every later ADD fail. *)
NetworkComesUp ==
    \A a \in Addr : []<>(\E p \in Pods : AddrOf[p] = a /\ pc[p] = "up")

(* "Delete link if err to avoid link leak in this ns" (add.go:174).  It does not
   hold: the deferred function that runs before has overwritten err. *)
LinkDeletedOnError == \A p \in Pods : pc[p] = "failed" => link[p] = "none"

(* "GetVlanIfaceOnHost gets the VLAN interface [...] on host and create if not
   exists" (cni/common/common.go:84): when no call fails, no ADD does.
   It does not hold: one of two simultaneous ADDs finds that the interface exists. *)
NoSpuriousFailure == failures = 0 => \A p \in Pods : pc[p] # "failed"
=============================================================================
