--------------------------- MODULE CNIPluginProofs ---------------------------
(***************************************************************************)
(* Proofs about CNIPlugin, for any number of pods, addresses and failures: *)
(* type correctness, and, as long as no call has failed at a step of       *)
(* Leaving, that the host keeps no route to a pod that is gone, that a pod *)
(* keeps its link, and that CHECK accepts it.                              *)
(*                                                                         *)
(* RoutesHavePods is not inductive: DEL finds out which route to remove    *)
(* from the addresses on the link.  RouteInv says that whenever there is a *)
(* route, there is a pod that is going to remove it: one whose link still  *)
(* has the address, or whose DEL has got as far as the route.              *)
(***************************************************************************)
EXTENDS CNIPlugin, TLAPS

(* the states of a pod in which its ADD may have added the route *)
Routed == {"gateway", "custom", "status", "print", "up", "undo", "failed", "del"}

(* the states in which the link must have the address *)
Configured == {"kubeCIDR", "nodeCIDR", "hostRoute", "gateway", "custom", "status",
               "print", "up"}

Remover(p, a) == /\ AddrOf[p] = a
                 /\ \/ pc[p] \in Routed /\ link[p] = "addr"
                    \/ pc[p] = "delRoute"

LinkInv == \A p \in Pods : pc[p] \in Configured => link[p] = "addr"
HostInv == /\ \A p \in Pods : pc[p] = "hostRoute" => AddPodIPToHost
           /\ ~AddPodIPToHost => hostRoutes = {}
RouteInv == \A a \in hostRoutes : \E p \in Pods : Remover(p, a)

Inv == TypeOK /\ (broken = {} => LinkInv /\ HostInv /\ RouteInv)

-----------------------------------------------------------------------------
(* Type correctness of the plugin's state, whatever fails: every command is at
   a step of add.go or del.go. *)
THEOREM TypeCorrect == Spec => []TypeOK
<1>1. Init => TypeOK
  <2> SUFFICES ASSUME Init PROVE TypeOK
    OBVIOUS
  <2>1. promisc \in BOOLEAN
    BY Zenon DEF Init
  <2>2. failures \in 0 .. MaxFailures
    BY FailureAssumption DEF Init
  <2> QED
    BY <2>1, <2>2 DEF Init, TypeOK, PC, Link
<1>2. TypeOK /\ [Next]_vars => TypeOK'
  <2> SUFFICES ASSUME TypeOK, [Next]_vars PROVE TypeOK'
    OBVIOUS
  <2> USE PodAssumption, FailureAssumption
      DEF TypeOK, PC, Link, At, Goto, SetLink, Proceeds
  <2>1. ASSUME NEW p \in Pods, AddStart(p) PROVE TypeOK'
    BY <2>1 DEF AddStart
  <2>2. ASSUME NEW p \in Pods, AddWait(p) PROVE TypeOK'
    <3>1. promisc' \in BOOLEAN
      <4>1. CASE promisc' = (promisc \/ FlatMode = "macvlan")
        BY <4>1, Zenon
      <4>2. CASE UNCHANGED promisc
        BY <4>2, Zenon
      <4> QED
        BY <2>2, <4>1, <4>2 DEF AddWait
    <3>2. /\ pc' \in [Pods -> PC] /\ failures' \in 0 .. MaxFailures
          /\ broken' \subseteq Leaving
          /\ UNCHANGED <<link, vlan, hostRoutes>>
      BY <2>2 DEF AddWait, Fail
    <3> QED
      BY <3>1, <3>2
  <2>3. ASSUME NEW p \in Pods, GetVlanIfaceOnHost(p) PROVE TypeOK'
    BY <2>3 DEF GetVlanIfaceOnHost
  <2>4. ASSUME NEW p \in Pods, createVLANOnHost(p) PROVE TypeOK'
    BY <2>4 DEF createVLANOnHost, Fail
  <2>5. ASSUME NEW p \in Pods, SetUpVLAN(p) PROVE TypeOK'
    BY <2>5 DEF SetUpVLAN, Fail
  <2>6. ASSUME NEW p \in Pods, Create(p) PROVE TypeOK'
    BY <2>6 DEF Create, MacvlanLeaves, IPvlanLeaves, Fail
  <2>7. ASSUME NEW p \in Pods, ExecIPAM(p) PROVE TypeOK'
    BY <2>7 DEF ExecIPAM, Fail
  <2>8. ASSUME NEW p \in Pods, ConfigureIface(p) PROVE TypeOK'
    BY <2>8 DEF ConfigureIface, Fail
  <2>9. ASSUME NEW p \in Pods, AddFlatNetworkRouteToHost(p) PROVE TypeOK'
    BY <2>9 DEF AddFlatNetworkRouteToHost, Fail
  <2>10. ASSUME NEW p \in Pods, UpdatePodDefaultGateway(p) PROVE TypeOK'
    BY <2>10 DEF UpdatePodDefaultGateway, Fail
  <2>11. ASSUME NEW p \in Pods, AddPodFlatNetworkCustomRoutes(p) PROVE TypeOK'
    BY <2>11 DEF AddPodFlatNetworkCustomRoutes, Fail
  <2>12. ASSUME NEW p \in Pods, UpdateIPStatus(p) PROVE TypeOK'
    BY <2>12 DEF UpdateIPStatus, Fail
  <2>13. ASSUME NEW p \in Pods, PrintResult(p) PROVE TypeOK'
    BY <2>13 DEF PrintResult, Fail
  <2>14. ASSUME NEW p \in Pods, Undo(p) PROVE TypeOK'
    BY <2>14 DEF Undo, Fail
  <2>15. ASSUME NEW p \in Pods, DelStart(p) PROVE TypeOK'
    BY <2>15 DEF DelStart
  <2>16. ASSUME NEW p \in Pods, DelLink(p) PROVE TypeOK'
    BY <2>16 DEF DelLink, Fail
  <2>17. ASSUME NEW p \in Pods, DelFlatNetworkRouteFromHost(p) PROVE TypeOK'
    BY <2>17 DEF DelFlatNetworkRouteFromHost, Fail
  <2>18. ASSUME NEW p \in Pods, AddPodKubeCIDRRoutes(p) PROVE TypeOK'
    BY <2>18 DEF AddPodKubeCIDRRoutes, Fail
  <2>19. ASSUME NEW p \in Pods, AddPodNodeCIDRRoutes(p) PROVE TypeOK'
    BY <2>19 DEF AddPodNodeCIDRRoutes, Fail
  <2>20. CASE UNCHANGED vars
    BY <2>20 DEF vars
  <2>21. CASE Next
    <3>1. PICK p \in Pods : AddStart(p) \/ Add(p) \/ DelStart(p) \/ Del(p)
      BY <2>21 DEF Next
    <3> QED
      BY <3>1, <2>1, <2>2, <2>3, <2>4, <2>5, <2>6, <2>7, <2>8, <2>9, <2>10,
         <2>11, <2>12, <2>13, <2>14, <2>15, <2>16, <2>17, <2>18, <2>19
         DEF Add, Del
  <2> QED
    BY <2>20, <2>21
<1> QED
  BY <1>1, <1>2, PTL DEF Spec

-----------------------------------------------------------------------------
(* What a step of p does to the state that the invariant is about: nothing to
   the other pods, and a route of p's that is there has p as its remover. *)
Harmless(p) ==
    /\ \A q \in Pods \ {p} : pc'[q] = pc[q] /\ link'[q] = link[q]
    /\ pc'[p] \in Configured => link'[p] = "addr"
    /\ pc'[p] = "hostRoute" => AddPodIPToHost
    /\ hostRoutes' \subseteq hostRoutes \cup {AddrOf[p]}
    /\ ~AddPodIPToHost => hostRoutes' = {}
    /\ AddrOf[p] \in hostRoutes' =>
          (AddrOf[p] \notin hostRoutes \/ Remover(p, AddrOf[p])
              => Remover(p, AddrOf[p])')

(* A harmless step preserves the invariant: the other routes keep the remover
   that they have. *)
LEMMA HarmlessPreserves ==
    ASSUME NEW p \in Pods, Inv, broken = {}, TypeOK', Harmless(p)
    PROVE  Inv'
<1>1. LinkInv'
  BY DEF Inv, LinkInv, Harmless
<1>2. HostInv'
  BY DEF Inv, HostInv, Harmless
<1>3. RouteInv'
  <2> SUFFICES ASSUME NEW a \in hostRoutes' PROVE \E q \in Pods : Remover(q, a)'
    BY DEF RouteInv
  <2>1. CASE a \notin hostRoutes
    <3>1. a = AddrOf[p]
      BY <2>1 DEF Harmless
    <3> QED
      BY <2>1, <3>1 DEF Harmless
  <2>2. CASE a \in hostRoutes
    <3>1. PICK q \in Pods : Remover(q, a)
      BY <2>2 DEF Inv, RouteInv
    <3>2. CASE q = p
      <4>1. a = AddrOf[p]
        BY <3>1, <3>2 DEF Remover
      <4> QED
        BY <3>1, <3>2, <4>1 DEF Harmless
    <3>3. CASE q # p
      <4>1. pc'[q] = pc[q] /\ link'[q] = link[q]
        BY <3>3 DEF Harmless
      <4> QED
        BY <3>1, <4>1 DEF Remover
    <3> QED
      BY <3>2, <3>3
  <2> QED
    BY <2>1, <2>2
<1> QED
  BY <1>1, <1>2, <1>3 DEF Inv

(* A failure at a step of Leaving is never forgotten. *)
LEMMA BrokenGrows ==
    ASSUME NEW p \in Pods, AddStart(p) \/ Add(p) \/ DelStart(p) \/ Del(p),
           broken' = {}
    PROVE  broken = {}
<1> USE DEF Proceeds, Fail
<1>1. CASE AddStart(p) \/ DelStart(p) \/ Del(p)
  BY <1>1 DEF AddStart, DelStart, Del, DelLink, DelFlatNetworkRouteFromHost
<1>2. CASE Add(p)
  BY <1>2 DEF Add, AddWait, GetVlanIfaceOnHost, createVLANOnHost, SetUpVLAN, Create,
              ExecIPAM, ConfigureIface, AddPodKubeCIDRRoutes, AddPodNodeCIDRRoutes,
              AddFlatNetworkRouteToHost, UpdatePodDefaultGateway,
              AddPodFlatNetworkCustomRoutes, UpdateIPStatus, PrintResult, Undo
<1> QED
  BY <1>1, <1>2

(* Every step of ADD and DEL is harmless that is not a failure at a step of
   Leaving. *)
LEMMA StepsAreHarmless ==
    ASSUME Inv, broken = {}, broken' = {}, NEW p \in Pods,
           AddStart(p) \/ Add(p) \/ DelStart(p) \/ Del(p)
    PROVE  Harmless(p)
<1>type. /\ pc \in [Pods -> PC] /\ link \in [Pods -> Link]
         /\ pc[p] \in Configured => link[p] = "addr"
         /\ pc[p] = "hostRoute" => AddPodIPToHost
         /\ ~AddPodIPToHost => hostRoutes = {}
  BY DEF Inv, TypeOK, LinkInv, HostInv
<1>fail. ASSUME NEW s \in Leaving, NEW l PROVE ~Fail(p, s, l)
  BY <1>fail DEF Fail
<1> USE <1>type DEF Harmless, Remover, Configured, Routed, At, Goto, SetLink, Link, PC
<1>1. CASE AddStart(p)
  BY <1>1 DEF AddStart
<1>2. CASE DelStart(p)
  BY <1>2 DEF DelStart
<1>3. CASE DelLink(p)
  BY <1>3 DEF DelLink, Fail
<1>4. CASE DelFlatNetworkRouteFromHost(p)
  BY <1>4, <1>fail DEF DelFlatNetworkRouteFromHost, Leaving
<1>5. CASE AddWait(p)
  BY <1>5 DEF AddWait, Fail
<1>6. CASE GetVlanIfaceOnHost(p)
  BY <1>6 DEF GetVlanIfaceOnHost, Fail
<1>7. CASE createVLANOnHost(p)
  BY <1>7 DEF createVLANOnHost, Fail
<1>8. CASE SetUpVLAN(p)
  BY <1>8, <1>fail DEF SetUpVLAN, Leaving
<1>9. CASE Create(p)
  BY <1>9 DEF Create, MacvlanLeaves, IPvlanLeaves, Fail
<1>10. CASE ExecIPAM(p)
  BY <1>10 DEF ExecIPAM, Fail
<1>11. CASE ConfigureIface(p)
  BY <1>11 DEF ConfigureIface, Fail
<1>12. CASE AddFlatNetworkRouteToHost(p)
  BY <1>12 DEF AddFlatNetworkRouteToHost, Fail
<1>13. CASE UpdatePodDefaultGateway(p)
  BY <1>13 DEF UpdatePodDefaultGateway, Fail
<1>14. CASE AddPodFlatNetworkCustomRoutes(p)
  BY <1>14 DEF AddPodFlatNetworkCustomRoutes, Fail
<1>15. CASE UpdateIPStatus(p)
  BY <1>15, <1>fail DEF UpdateIPStatus, Leaving
<1>16. CASE PrintResult(p)
  BY <1>16 DEF PrintResult, Fail
<1>17. CASE Undo(p)
  BY <1>17, <1>fail DEF Undo, Leaving
<1>18. CASE AddPodKubeCIDRRoutes(p)
  BY <1>18 DEF AddPodKubeCIDRRoutes, Fail
<1>19. CASE AddPodNodeCIDRRoutes(p)
  BY <1>19 DEF AddPodNodeCIDRRoutes, Fail
<1> QED
  BY <1>1, <1>2, <1>3, <1>4, <1>5, <1>6, <1>7, <1>8, <1>9, <1>10, <1>11,
     <1>12, <1>13, <1>14, <1>15, <1>16, <1>17, <1>18, <1>19 DEF Add, Del

-----------------------------------------------------------------------------
(* The invariant is inductive. *)
LEMMA Invariance == Spec => []Inv
<1>1. Init /\ TypeOK => Inv
  BY DEF Init, Inv, LinkInv, HostInv, RouteInv, Configured
<1>2. ASSUME Inv, [Next]_vars, TypeOK' PROVE Inv'
  <2>1. CASE UNCHANGED vars
    BY <1>2, <2>1 DEF vars, Inv, TypeOK, LinkInv, HostInv, RouteInv, Remover
  <2>2. CASE broken' # {}
    BY <1>2, <2>2 DEF Inv
  <2>3. CASE Next /\ broken' = {}
    <3>1. PICK p \in Pods : AddStart(p) \/ Add(p) \/ DelStart(p) \/ Del(p)
      BY <2>3 DEF Next
    <3>2. broken = {}
      BY <2>3, <3>1, BrokenGrows
    <3>3. Harmless(p)
      BY <1>2, <2>3, <3>1, <3>2, StepsAreHarmless
    <3> QED
      BY <1>2, <3>2, <3>3, HarmlessPreserves
  <2> QED
    BY <1>2, <2>1, <2>2, <2>3
<1> QED
  BY <1>1, <1>2, TypeCorrect, PTL DEF Spec

(* The host keeps no route to a pod that is not there, for any number of pods
   and of failures of add.go and del.go at other steps than those of Leaving:
   a failed status update, a failed removal of a route, and the deletion of a
   VLAN interface that other pods use already. *)
THEOREM RoutesAreRemoved == Spec => []RoutesHavePods
<1>1. Inv => RoutesHavePods
  BY DEF Inv, RouteInv, Remover, Routed, RoutesHavePods
<1> QED
  BY <1>1, Invariance, PTL

(* A pod that is up keeps its link: the other commands of add.go and del.go on
   the node do not take it away, but by a failure at a step of Leaving. *)
THEOREM LinksStay == Spec => LinkStays
<1> DEFINE Kept ==
       \A p \in Pods :
          (pc[p] = "up" /\ link[p] = "addr" /\ pc'[p] = "up" /\ broken' = {})
             => link'[p] = "addr"
<1>1. ASSUME Inv, [Next]_vars PROVE [Kept]_vars
  <2>1. CASE UNCHANGED vars
    BY <2>1
  <2>2. CASE broken' # {}
    BY <2>2
  <2>3. CASE Next /\ broken' = {}
    <3>1. PICK p \in Pods : AddStart(p) \/ Add(p) \/ DelStart(p) \/ Del(p)
      BY <2>3 DEF Next
    <3>2. broken = {}
      BY <2>3, <3>1, BrokenGrows
    <3>3. Harmless(p)
      BY <1>1, <2>3, <3>1, <3>2, StepsAreHarmless
    <3> QED
      BY <3>3 DEF Harmless, Configured
  <2> QED
    BY <1>1, <2>1, <2>2, <2>3
<1> QED
  BY <1>1, Invariance, PTL DEF Spec, LinkStays

(* CHECK accepts every pod of an ipvlan subnet that sets the mode: check.go
   then expects the mode and the flag that ipvlan.Create has given the link.
   (Its defaults, "bridge" and "bridge", are not those of a macvlan link nor of
   an ipvlan subnet without mode.) *)
THEOREM IPvlanIsAccepted ==
    FlatMode = "ipvlan" /\ Mode # "" => (Spec => []CheckAccepts)
<1> SUFFICES ASSUME FlatMode = "ipvlan", Mode # "" PROVE Spec => []CheckAccepts
  OBVIOUS
<1>1. Inv => CheckAccepts
  BY DEF Inv, LinkInv, Configured, CheckAccepts, Check, validateCniContainerInterface,
         ActualMode, ActualFlag
<1> QED
  BY <1>1, Invariance, PTL
=============================================================================
