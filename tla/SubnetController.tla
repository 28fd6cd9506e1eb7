-------------------------- MODULE SubnetController --------------------------
(***************************************************************************)
(* The subnet controller (pkg/controller/flatnetworksubnet) beside the     *)
(* controllers of IPAM, for one subnet whose spec is valid and conflicts   *)
(* with no other.  It makes the subnet Active, takes it back there after a *)
(* failure, and, at every event and every ten minutes, checks itself:      *)
(* pods with duplicated addresses are deleted, and UsedIP is recomputed    *)
(* from the FlatNetworkIPs.                                                *)
(*                                                                         *)
(* Labels and the CIDR are written first.  They do not change here, but    *)
(* the write goes through only when the cache is up to date, and a failure *)
(* of it takes the subnet out of service.                                  *)
(***************************************************************************)
EXTENDS IPAM

VARIABLE subnetWork       \* the worker of the subnet's key, with what it has of
                          \* the subnet it was given: Spec.Gateway

allVars == <<vars, subnetWork>>

SubnetPC == {"idle", "create", "update", "check", "recount", "fail"}
SubnetIdle == [pc |-> "idle", gateway |-> NoAddr, usedIP |-> {}]

ASSUME SubnetWorkerIsNoName == SubnetWorker \notin Name

SubnetInit == Init /\ subnetWork = SubnetIdle

SubnetAt(l) == subnetWork.pc = l
SubnetGoto(l) == subnetWork' = [subnetWork EXCEPT !.pc = l]
SubnetDone == subnetWork' = SubnetIdle

allButSubnet == <<pods, ips, lastUID, podCache, ipCache, work, podWork, nodeVars, panics>>

-----------------------------------------------------------------------------
(* a user edits the spec; the new gateway is in the CIDR *)
ChangeGateway(g) ==
    /\ g # subnet.gateway
    /\ PutSubnet([subnet EXCEPT !.gateway = g])
    /\ UNCHANGED <<allButSubnet, lock, fault, subnetWork>>

handleSubnet ==
    /\ SubnetAt("idle")
    /\ subnetWork' = [SubnetIdle EXCEPT
          !.pc = IF subnetCache.phase = "Active" THEN "update" ELSE "create",
          !.gateway = subnetCache.gateway]
    /\ UNCHANGED vars

(* the status is written once, with what the label update returned *)
onSubnetCreate ==
    /\ SubnetAt("create")
    /\ \/ /\ CurrentSubnet
          /\ PutSubnet([subnet EXCEPT !.phase = "Active",
                                      !.usedIP = @ \cup ({subnet.gateway} \ {NoAddr}),
                                      !.statusGateway = subnet.gateway])
          /\ SubnetDone
       \/ /\ Failures \/ ~CurrentSubnet
          /\ SubnetGoto("fail")
          /\ UNCHANGED <<subnet, subnetCache, subnetWatch>>
    /\ UNCHANGED <<allButSubnet, lock, fault>>

(* onSubnetUpdate: the labels.  When they are right already, the copy that
   the handler works on stays the one it was given. *)
UpdateLabels ==
    /\ SubnetAt("update")
    /\ \/ CurrentSubnet /\ SubnetGoto("check")
       \/ (Failures \/ ~CurrentSubnet) /\ SubnetGoto("fail")
    /\ UNCHANGED vars

(* onSubnetUpdate: IsIPAllocating *)
SkipSelfCheck ==
    /\ SubnetAt("check") /\ lock # {}
    /\ SubnetDone
    /\ UNCHANGED vars

(* the cached FlatNetworkIPs that count *)
Listed == {p \in Name : /\ ipCache[p].exists
                        /\ ~ipCache[p].deleting
                        /\ ipCache[p].addr # NoAddr}

Duplicated == \E p, q \in Listed : p # q /\ ipCache[p].addr = ipCache[q].addr

(* filterDuplicatedIP finds some, and cleanupDuplicatedIPs is given all *)
CleanupDuplicatedIPs ==
    LET marked == [p \in Name |-> IF p \in Listed /\ pods[p].exists
                                  THEN [pods[p] EXCEPT !.deleting = TRUE]
                                  ELSE pods[p]]
    IN /\ SubnetAt("check") /\ lock = {} /\ Duplicated
       /\ pods' = marked
       /\ podCache' = IF CacheLag THEN podCache ELSE marked
       /\ SubnetDone
       /\ UNCHANGED <<ips, subnet, lastUID, ipCache, subnetCache, subnetWatch,
                      workVars, nodeVars, histVars>>

(* Bug variant: the lock is not taken *)
CollectUsedIPUnlocked ==
    /\ SubnetAt("check") /\ ~Duplicated
    /\ subnetWork' = [subnetWork EXCEPT
          !.pc = "recount",
          !.usedIP = {ipCache[p].addr : p \in Listed}
                        \cup ({subnetWork.gateway} \ {NoAddr})]
    /\ UNCHANGED vars

(* IPAllocateLock, and what UsedIP should be *)
CollectUsedIP ==
    /\ SubnetAt("check") /\ lock = {} /\ ~Duplicated
    /\ lock' = {SubnetWorker}
    /\ subnetWork' = [subnetWork EXCEPT
          !.pc = "recount",
          !.usedIP = {ipCache[p].addr : p \in Listed}
                        \cup ({subnetWork.gateway} \ {NoAddr})]
    /\ UNCHANGED <<apiVars, cacheVars, work, podWork, nodeVars, histVars>>

(* skipUpdate holds when nothing would change, and when the gateway has not
   changed.  UsedIPCount, which can differ too, is in SubnetUsedIP. *)
SkipUpdate ==
    /\ SubnetAt("recount")
    /\ \/ subnetWork.usedIP = subnetCache.usedIP
       \/ subnetCache.gateway = subnetCache.statusGateway
    /\ lock' = {}
    /\ SubnetDone
    /\ UNCHANGED <<apiVars, cacheVars, work, podWork, nodeVars, histVars>>

WriteUsedIP ==
    LET counted == subnetWork.usedIP
    IN /\ SubnetAt("recount")
       /\ subnetCache.gateway # subnetCache.statusGateway
       /\ \/ /\ CurrentSubnet
             /\ PutSubnet([subnet EXCEPT !.usedIP = counted,
                                         !.statusGateway = subnet.gateway])
             /\ SubnetDone
             /\ Blame(\/ subnet.gateway \notin counted \cup {NoAddr}
                      \/ \E p \in Name, a \in Addr : Owns(p, a) /\ a \notin counted,
                      "recounted")
          \/ /\ Failures \/ ~CurrentSubnet
             /\ SubnetGoto("fail")
             /\ UNCHANGED <<subnet, subnetCache, subnetWatch, fault>>
       /\ lock' = {}
       /\ UNCHANGED allButSubnet

(* handleError *)
RecordSubnetFailure ==
    /\ SubnetAt("fail")
    /\ \/ /\ CurrentSubnet
          /\ PutSubnet([subnet EXCEPT !.phase = "Failed"])
       \/ /\ Failures \/ ~CurrentSubnet
          /\ UNCHANGED <<subnet, subnetCache, subnetWatch>>
    /\ SubnetDone
    /\ UNCHANGED <<allButSubnet, lock, fault>>

-----------------------------------------------------------------------------
SubnetHandler ==
    \/ handleSubnet
    \/ onSubnetCreate
    \/ UpdateLabels \/ SkipSelfCheck \/ CleanupDuplicatedIPs
    \/ CollectUsedIP \/ SkipUpdate \/ WriteUsedIP
    \/ RecordSubnetFailure

SubnetStep == SubnetHandler \/ \E g \in Gateway : ChangeGateway(g)

OperatorNext ==
    \/ Step /\ UNCHANGED subnetWork
    \/ Restarts /\ SubnetDone
    \/ SubnetStep

OperatorSpec == SubnetInit /\ [][OperatorNext]_allVars

(* the subnet is enqueued again and again, at the latest after 10 minutes *)
OperatorFairSpec ==
    /\ OperatorSpec
    /\ Fairness
    /\ WF_allVars(SubnetHandler)
    /\ SF_allVars(CollectUsedIP)
    /\ SF_allVars(CleanupDuplicatedIPs)

-----------------------------------------------------------------------------
SubnetTypeOK ==
    /\ TypeOK
    /\ subnetWork \in [pc : SubnetPC, gateway : Address,
                       usedIP : SUBSET Addr]

(* With the subnet controller, too, an address in use is missing from UsedIP
   only after a faulty write, see ReservedUnlessFault; the lock keeps the
   recount of onSubnetUpdate apart from the writes of onIPCreate, see
   ClaimStands. *)

(* "The following sections are used to self-recover from unexpected
   situations: [...] checking whether the used IPs is correct": once there are
   no pods any more, nothing but the gateway is used.  It does not hold: the
   recount is thrown away unless the gateway was edited. *)
SelfRecovers ==
    <>[](\A p \in Name : ~pods[p].exists)
       => []<>(subnet.usedIP \subseteq {subnet.statusGateway})
=============================================================================
