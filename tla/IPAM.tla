-------------------------------- MODULE IPAM --------------------------------
(***************************************************************************)
(* The life of the addresses of one Active subnet: pods, their             *)
(* FlatNetworkIP objects (one per pod, with the pod's name), the subnet's  *)
(* Status.UsedIP, and everybody who writes them:                           *)
(*                                                                         *)
(*   - the pod controller of the operator (pkg/controller/pod);            *)
(*   - its IP controller (pkg/controller/flatnetworkip);                   *)
(*   - the CNI plugin on the nodes (pkg/cni/commands/add.go);              *)
(*   - users, kubelets and the garbage collector of Kubernetes.            *)
(*                                                                         *)
(* The API server and the informer caches.  pods, ips and subnet are what  *)
(* the API server stores; podCache, ipCache and subnetCache what the         *)
(* operator's informers have received so far.  The handlers update an      *)
(* object with retry.RetryOnConflict around "get from the cache, change,   *)
(* Update", and the API server refuses an update of any version but the    *)
(* latest.  So such an update happens at one instant, at which the cached  *)
(* object is the stored one; until then it is retried, and when the retries*)
(* are used up it fails.  What is read from a cache for any other purpose  *)
(* may be out of date.                                                     *)
(*                                                                         *)
(* A work queue gives a key to one worker at a time, and any key may be    *)
(* processed again at any time (events, EnqueueAfter, resync, requeue      *)
(* after an error), so there is one worker per name.                       *)
(***************************************************************************)
EXTENDS Naturals, Sequences

CONSTANTS
    Name,       \* names of pods, and of the FlatNetworkIPs made for them
    Addr,       \* the addresses of the subnet
    Gateway,    \* what may be the subnet's gateway: addresses, or NoAddr
    Request,    \* what the annotations of a pod may ask for: sets of
                \* addresses, the empty set standing for "auto"
    MaxUID,     \* bound: pods created
    SubnetLag,  \* bound: subnet updates the informer may be behind
    CacheLag,   \* may the caches of pods and IPs, and the pod that the pod
                \* controller works on, be out of date?
    Failures    \* may API calls fail and the operator crash?

ASSUME AddrAssumption == Addr \subseteq Nat \ {0}
ASSUME GatewayAssumption == Gateway \subseteq Addr \cup {0}
ASSUME RequestAssumption == Request \subseteq SUBSET Addr
ASSUME BoundAssumption == MaxUID \in Nat /\ SubnetLag \in Nat
ASSUME SwitchAssumption == CacheLag \in BOOLEAN /\ Failures \in BOOLEAN

NoAddr == 0                      \* a nil net.IP
NoObject == [exists |-> FALSE]   \* what is stored where there is no object
SubnetWorker == "subnet"         \* see SubnetController

VARIABLES
    pods, ips, subnet,           \* the API server
    lastUID,                     \* UIDs given out so far
    podCache, ipCache,           \* the informers' copies of pods and ips
    subnetCache, subnetWatch,    \* of the subnet, with its pending events
    lock,                        \* the worker that holds the subnet's lock
    work,                        \* the IP controller's workers
    podWork,                     \* the pod controller's workers
    iface,                       \* the address on the pod's flat-network link
    cni,                         \* progress of CNI ADD
    panics,                      \* has the operator crashed by itself?
    fault                        \* history: wrong writes of UsedIP so far

apiVars == <<pods, ips, subnet, lastUID>>
cacheVars == <<podCache, ipCache, subnetCache, subnetWatch>>
workVars == <<lock, work, podWork>>
nodeVars == <<iface, cni>>
histVars == <<panics, fault>>
vars == <<apiVars, cacheVars, workVars, nodeVars, histVars>>

Address == Addr \cup {NoAddr}
Phase == {"", "Pending", "Active", "Failed"}
UID == 1 .. MaxUID

Pod == [exists : {TRUE}, uid : UID, deleting : BOOLEAN, addrs : Request]
FlatNetworkIP == [exists : {TRUE}, podID : UID, addrs : Request,
                  addr : Address, phase : Phase,
                  deleting : BOOLEAN, finalizer : BOOLEAN]
FlatNetworkSubnet == [exists : {TRUE}, phase : {"Active", "Failed"},
                      gateway : Gateway,         \* in the spec
                      statusGateway : Gateway, usedIP : SUBSET Addr]

Objects(T) == T \cup {NoObject}

PC == {"idle", "create", "lock", "claim", "assign", "fail", "finalize",
       "pending", "update", "remove", "removeLock", "free", "unfinalize"}
Fault == {"claimed", "freed", "fallback", "recounted"}
Work == [pc : PC, ip : Objects(FlatNetworkIP), addr : Address,
         subnet : Objects(FlatNetworkSubnet)]
Idle == [pc |-> "idle", ip |-> NoObject, addr |-> NoAddr, subnet |-> NoObject]

Init ==
    /\ pods = [p \in Name |-> NoObject]
    /\ ips = [p \in Name |-> NoObject]
    /\ \E g \in Gateway :
          subnet = [exists |-> TRUE, phase |-> "Active", gateway |-> g,
                    statusGateway |-> g, usedIP |-> {g} \ {NoAddr}]
    /\ lastUID = 0
    /\ podCache = pods
    /\ ipCache = ips
    /\ subnetCache = subnet
    /\ subnetWatch = <<>>
    /\ lock = {}
    /\ work = [p \in Name |-> Idle]
    /\ podWork = [p \in Name |-> NoObject]
    /\ iface = [p \in Name |-> NoAddr]
    /\ cni = [p \in Name |-> "none"]
    /\ panics = FALSE
    /\ fault = {}

-----------------------------------------------------------------------------
(* The API server: writes, with the informers' copies following at once or
   later. *)
PutPod(p, o) ==
    /\ pods' = [pods EXCEPT ![p] = o]
    /\ podCache' = IF CacheLag THEN podCache ELSE [podCache EXCEPT ![p] = o]

PutIP(p, o) ==
    /\ ips' = [ips EXCEPT ![p] = o]
    /\ ipCache' = IF CacheLag THEN ipCache ELSE [ipCache EXCEPT ![p] = o]

PutSubnet(o) ==
    /\ subnet' = o
    /\ IF o = subnet THEN UNCHANGED <<subnetCache, subnetWatch>>
       ELSE IF SubnetLag = 0 THEN subnetCache' = o /\ UNCHANGED subnetWatch
       ELSE /\ Len(subnetWatch) < SubnetLag
            /\ subnetWatch' = Append(subnetWatch, o)
            /\ UNCHANGED subnetCache

(* ipClient.Delete: an object with a finalizer is only marked *)
DeleteIP(p) ==
    IF ~ips[p].exists THEN UNCHANGED <<ips, ipCache>>
    ELSE IF ips[p].finalizer THEN PutIP(p, [ips[p] EXCEPT !.deleting = TRUE])
    ELSE PutIP(p, NoObject)

(* Is the cached copy the one that an update must be based on? *)
CurrentIP(p) == ipCache[p].exists /\ ipCache[p] = ips[p]
CurrentSubnet == subnetWatch = <<>>

SyncPodCache(p) ==
    /\ podCache[p] # pods[p]
    /\ podCache' = [podCache EXCEPT ![p] = pods[p]]
    /\ UNCHANGED <<apiVars, ipCache, subnetCache, subnetWatch, workVars, nodeVars, histVars>>

SyncIPCache(p) ==
    /\ ipCache[p] # ips[p]
    /\ ipCache' = [ipCache EXCEPT ![p] = ips[p]]
    /\ UNCHANGED <<apiVars, podCache, subnetCache, subnetWatch, workVars, nodeVars, histVars>>

SyncSubnetCache ==
    /\ subnetWatch # <<>>
    /\ subnetCache' = Head(subnetWatch)
    /\ subnetWatch' = Tail(subnetWatch)
    /\ UNCHANGED <<apiVars, podCache, ipCache, workVars, nodeVars, histVars>>

-----------------------------------------------------------------------------
(* Users, workload controllers, kubelets and the garbage collector. *)
CreatePod(p, r) ==
    /\ ~pods[p].exists
    /\ lastUID < MaxUID
    /\ lastUID' = lastUID + 1
    /\ PutPod(p, [exists |-> TRUE, uid |-> lastUID + 1, deleting |-> FALSE,
                  addrs |-> r])
    /\ UNCHANGED <<ips, subnet, ipCache, subnetCache, subnetWatch, workVars, nodeVars, histVars>>

MarkPod(p) == PutPod(p, [pods[p] EXCEPT !.deleting = TRUE])

DeletePod(p) ==
    /\ pods[p].exists /\ ~pods[p].deleting
    /\ MarkPod(p)
    /\ UNCHANGED <<ips, subnet, lastUID, ipCache, subnetCache, subnetWatch, workVars,
                   nodeVars, histVars>>

(* the kubelet has stopped the containers and called CNI DEL *)
PodGone(p) ==
    /\ pods[p].exists /\ pods[p].deleting
    /\ cni[p] # "setup"
    /\ PutPod(p, NoObject)
    /\ iface' = [iface EXCEPT ![p] = NoAddr]
    /\ cni' = [cni EXCEPT ![p] = "none"]
    /\ UNCHANGED <<ips, subnet, lastUID, ipCache, subnetCache, subnetWatch, workVars, histVars>>

(* the owner of the FlatNetworkIP no longer exists *)
CollectIP(p) ==
    /\ ips[p].exists /\ ~ips[p].deleting
    /\ pods[p].exists => pods[p].uid # ips[p].podID
    /\ DeleteIP(p)
    /\ UNCHANGED <<pods, subnet, lastUID, podCache, subnetCache, subnetWatch, workVars,
                   nodeVars, histVars>>

-----------------------------------------------------------------------------
(* The pod controller: sync, with ensureFlatNetworkIP. *)
envUnchanged == UNCHANGED <<lastUID, subnetCache, subnetWatch, nodeVars, histVars>>

PodStart(p) ==
    /\ CacheLag /\ ~podWork[p].exists /\ podCache[p].exists
    /\ podWork' = [podWork EXCEPT ![p] = podCache[p]]
    /\ UNCHANGED <<apiVars, cacheVars, lock, work, nodeVars, histVars>>

(* flatNetworkIPUpdated: the FlatNetworkIP is the one expected for the pod *)
Expected(ip, pod) == ip.exists /\ ip.podID = pod.uid /\ ip.addrs = pod.addrs

newFlatNetworkIP(pod) ==
    [exists |-> TRUE, podID |-> pod.uid, addrs |-> pod.addrs, addr |-> NoAddr,
     phase |-> "", deleting |-> FALSE, finalizer |-> FALSE]

ensureFlatNetworkIP(p, pod) ==
    \/ /\ Expected(ipCache[p], pod)
       /\ UNCHANGED <<ips, ipCache>>
    \/ /\ ~Expected(ipCache[p], pod) /\ CurrentIP(p)
       /\ PutIP(p, [ips[p] EXCEPT !.podID = pod.uid, !.addrs = pod.addrs])
    \/ /\ ~Expected(ipCache[p], pod) /\ ipCache[p].exists
       /\ ~CurrentIP(p) \/ Failures
       /\ UNCHANGED <<ips, ipCache>>
    \/ /\ ~ipCache[p].exists /\ ~ips[p].exists
       /\ PutIP(p, newFlatNetworkIP(pod))
    \/ /\ ~ipCache[p].exists /\ ips[p].exists   \* AlreadyExists
       /\ UNCHANGED <<ips, ipCache>>

PodSync(p) ==
    LET pod == IF CacheLag THEN podWork[p] ELSE podCache[p]
    IN /\ pod.exists
       /\ podWork' = [podWork EXCEPT ![p] = NoObject]
       /\ IF pod.deleting THEN DeleteIP(p) ELSE ensureFlatNetworkIP(p, pod)
       /\ UNCHANGED <<pods, subnet, podCache, lock, work>>
       /\ envUnchanged

-----------------------------------------------------------------------------
(***************************************************************************)
(* The IP controller.  handleIP picks the handler by the phase of the      *)
(* cached object; handleIPRemove is called for an object that is being     *)
(* deleted (the finalizer is there, or it would be gone).                  *)
(***************************************************************************)
Goto(p, l) == work' = [work EXCEPT ![p].pc = l]
Leave(p, l) ==
    work' = [work EXCEPT ![p] = [Idle EXCEPT !.pc = l, !.ip = work[p].ip]]
Done(p) == work' = [work EXCEPT ![p] = Idle]
At(p, l) == work[p].pc = l

(* Bug variant: a failed FlatNetworkIP is cleaned up like a deleted one *)
HandlerOfCleaningUp(ip) ==
    CASE ip.deleting \/ ip.phase = "Failed" -> "remove"
      [] ip.phase = "Active"  -> "update"
      [] ip.phase = "Pending" -> "pending"
      [] OTHER                -> "create"

HandlerOf(ip) == CASE ip.deleting           -> "remove"
                   [] ip.phase = "Active"  -> "update"
                   [] ip.phase = "Pending" -> "pending"
                   [] OTHER                -> "create"

handleIP(p) ==
    /\ At(p, "idle") /\ ipCache[p].exists
    /\ work' = [work EXCEPT ![p] = [pc |-> HandlerOf(ipCache[p]),
                                    ip |-> ipCache[p], addr |-> NoAddr,
                                    subnet |-> NoObject]]
    /\ UNCHANGED <<apiVars, cacheVars, lock, podWork, nodeVars, histVars>>

(* onIPCreate: the pod must exist.  A pod with another UID is only reported. *)
CheckPod(p) ==
    /\ At(p, "create")
    /\ \/ /\ podCache[p].exists
          /\ Goto(p, "lock")
          /\ UNCHANGED <<ips, ipCache>>
       \/ /\ ~podCache[p].exists
          /\ DeleteIP(p)
          /\ Goto(p, "finalize")
    /\ UNCHANGED <<pods, subnet, podCache, lock, podWork>>
    /\ envUnchanged

(* Bug variant: no test for an empty address *)
alreadyAllocateIPUntested(ip) == ip.addrs = {} \/ ip.addr \in ip.addrs

(* alreadyAllocateIP: every address of the model is in the subnet's CIDR *)
alreadyAllocateIP(ip) ==
    ip.addr # NoAddr /\ (ip.addrs = {} \/ ip.addr \in ip.addrs)

(* allocateIP: the addresses it may return, none for ErrNoAvailableIP.  The
   lowest free one in auto mode (GetAvailableIP, see IPCalc), any free one of
   those requested otherwise. *)
allocateIP(ip, S) ==
    IF alreadyAllocateIP(ip) THEN {ip.addr}
    ELSE IF ip.addrs # {} THEN ip.addrs \ S
    ELSE {a \in Addr \ S : \A b \in Addr \ S : a <= b}

(* Bug variant: the lock is not taken *)
LockAndAllocateUnlocked(p) ==
    /\ At(p, "lock")
    /\ \E a \in allocateIP(work[p].ip, subnetCache.usedIP) :
          work' = [work EXCEPT ![p].pc = "claim", ![p].addr = a]
    /\ UNCHANGED <<apiVars, cacheVars, lock, podWork, nodeVars, histVars>>

(* onIPCreate: IPAllocateLock, the subnet from the cache, allocateIP *)
LockAndAllocate(p) ==
    LET found == allocateIP(work[p].ip, subnetCache.usedIP)
    IN /\ At(p, "lock") /\ lock = {}
       /\ \/ /\ subnetCache.phase # "Active"    \* "waiting for subnet"
             /\ Goto(p, "finalize")
             /\ UNCHANGED lock
          \/ /\ subnetCache.phase = "Active"
             /\ \E a \in found : work' = [work EXCEPT ![p].pc = "claim", ![p].addr = a]
             /\ lock' = {p}
          \/ /\ subnetCache.phase = "Active" /\ found = {}
             /\ Goto(p, "fail")
             /\ UNCHANGED lock
       /\ UNCHANGED <<apiVars, cacheVars, podWork, nodeVars, histVars>>

(* an IP object that nobody is deleting has the address *)
Owns(q, a) == ips[q].exists /\ ~ips[q].deleting /\ ips[q].addr = a

(* the address is not p's to take or to give back *)
NeededElsewhere(p, a) ==
    a # NoAddr /\ (a = subnet.statusGateway \/ \E q \in Name \ {p} : Owns(q, a))

(* history: UsedIP was written to the detriment of somebody else *)
Blame(wrong, kind) == fault' = IF wrong THEN fault \cup {kind} ELSE fault

(* Bug variant: UsedIP is not written *)
ClaimForgotten(p) ==
    /\ At(p, "claim") /\ CurrentSubnet
    /\ work' = [work EXCEPT ![p].pc = "assign", ![p].subnet = subnet]
    /\ UNCHANGED <<apiVars, cacheVars, lock, podWork, nodeVars, histVars>>

(* onIPCreate: the address is added to UsedIP unless it is there already *)
Claim(p) ==
    LET a == work[p].addr
        claimed == [subnet EXCEPT !.usedIP = @ \cup {a}]
    IN /\ At(p, "claim") /\ CurrentSubnet
       /\ PutSubnet(claimed)
       /\ work' = [work EXCEPT ![p].pc = "assign", ![p].subnet = claimed]
       /\ Blame(NeededElsewhere(p, a), "claimed")
       /\ UNCHANGED <<pods, ips, lastUID, podCache, ipCache, lock, podWork, nodeVars, panics>>

ClaimFails(p) ==
    /\ At(p, "claim") /\ (Failures \/ ~CurrentSubnet)
    /\ lock' = {}
    /\ Leave(p, "fail")
    /\ UNCHANGED <<apiVars, cacheVars, podWork, nodeVars, histVars>>

(* Bug variant: no unlock on the way out *)
AssignKeepingLock(p) ==
    /\ At(p, "assign") /\ CurrentIP(p)
    /\ LET ip == [ips[p] EXCEPT !.addr = work[p].addr, !.phase = "Pending"]
       IN /\ PutIP(p, ip)
          /\ work' = [work EXCEPT ![p] = [Idle EXCEPT !.pc = "finalize", !.ip = ip]]
    /\ UNCHANGED <<pods, subnet, podCache, lock, podWork>>
    /\ envUnchanged

(* onIPCreate: the IP status gets the address and phase Pending; unlock *)
Assign(p) ==
    /\ At(p, "assign") /\ CurrentIP(p)
    /\ LET ip == [ips[p] EXCEPT !.addr = work[p].addr, !.phase = "Pending"]
       IN /\ PutIP(p, ip)
          /\ work' = [work EXCEPT ![p] = [Idle EXCEPT !.pc = "finalize", !.ip = ip]]
    /\ lock' = {}
    /\ UNCHANGED <<pods, subnet, podCache, podWork>>
    /\ envUnchanged

(* a new process: no workers, no locks, caches from a fresh List *)
Restart(latest) ==
    /\ lock' = {}
    /\ work' = [p \in Name |-> Idle]
    /\ podWork' = [p \in Name |-> NoObject]
    /\ podCache' = pods
    /\ ipCache' = ips
    /\ subnetCache' = latest
    /\ subnetWatch' = <<>>

AssignCanFail(p) == At(p, "assign") /\ (Failures \/ ~CurrentIP(p))

(* onIPCreate: the status update failed, and so the subnet as it was after
   the claim is written without the address ("Fallback subnet status").  When
   that works err is nil, and eventFlatNetworkIPError calls its Error. *)
FallbackPanics(p) ==
    LET a == work[p].addr
        fallback == [subnet EXCEPT !.usedIP = @ \ {a}]
    IN /\ AssignCanFail(p) /\ subnet = work[p].subnet
       /\ subnet' = fallback
       /\ Restart(fallback)
       /\ panics' = TRUE
       /\ Blame(Owns(p, a) \/ NeededElsewhere(p, a), "fallback")
       /\ UNCHANGED <<pods, ips, lastUID, nodeVars>>

FallbackFails(p) ==
    /\ AssignCanFail(p) /\ (Failures \/ subnet # work[p].subnet)
    /\ lock' = {}
    /\ Leave(p, "fail")
    /\ UNCHANGED <<apiVars, cacheVars, podWork, nodeVars, histVars>>

(* handleError: record the failure, unless the message has not changed *)
RecordFailure(p) ==
    /\ At(p, "fail")
    /\ \/ /\ CurrentIP(p)
          /\ PutIP(p, [ips[p] EXCEPT !.phase = "Failed"])
       \/ /\ Failures \/ ~CurrentIP(p) \/ work[p].ip.phase = "Failed"
          /\ UNCHANGED <<ips, ipCache>>
    /\ Goto(p, "finalize")
    /\ UNCHANGED <<pods, subnet, podCache, lock, podWork>>
    /\ envUnchanged

(* after the handler, OnRemove's adapter adds the finalizer, to the object
   that the handler returned *)
AddFinalizer(p) ==
    /\ At(p, "finalize")
    /\ \/ /\ ~work[p].ip.finalizer /\ ips[p] = work[p].ip
          /\ PutIP(p, [ips[p] EXCEPT !.finalizer = TRUE])
       \/ /\ work[p].ip.finalizer \/ ips[p] # work[p].ip \/ Failures
          /\ UNCHANGED <<ips, ipCache>>
    /\ Done(p)
    /\ UNCHANGED <<pods, subnet, podCache, lock, podWork>>
    /\ envUnchanged

(* onIPPending: wait for the CNI plugin, or delete the pod when it is more
   than 5 minutes since the address was allocated *)
onIPPending(p, expired) ==
    /\ At(p, "pending")
    /\ \/ /\ ~expired
          /\ Goto(p, "finalize")
          /\ UNCHANGED <<pods, podCache>>
       \/ /\ expired /\ pods[p].exists
          /\ MarkPod(p)
          /\ Goto(p, "finalize")
       \/ /\ expired /\ ~pods[p].exists
          /\ Goto(p, "fail")
          /\ UNCHANGED <<pods, podCache>>
    /\ UNCHANGED <<ips, subnet, ipCache, lock, podWork>>
    /\ envUnchanged

(* Bug variant: any address will do *)
onIPUpdateLenient(p) ==
    LET lost == podCache[p].exists => podCache[p].uid # work[p].ip.podID
    IN /\ At(p, "update")
       /\ IF lost THEN DeleteIP(p) ELSE UNCHANGED <<ips, ipCache>>
       /\ Goto(p, "finalize")
       /\ UNCHANGED <<pods, subnet, podCache, lock, podWork>>
       /\ envUnchanged

(* onIPUpdate: delete the object when its pod is gone or is another one,
   start over when it does not have the address it should *)
onIPUpdate(p) ==
    LET ip == work[p].ip
        lost == podCache[p].exists => podCache[p].uid # ip.podID
        again == [ips[p] EXCEPT !.phase = ""]
    IN /\ At(p, "update")
       /\ \/ /\ lost
             /\ DeleteIP(p)
             /\ Goto(p, "finalize")
          \/ /\ ~lost /\ alreadyAllocateIP(ip)
             /\ Goto(p, "finalize")
             /\ UNCHANGED <<ips, ipCache>>
          \/ /\ ~lost /\ ~alreadyAllocateIP(ip) /\ CurrentIP(p)
             /\ PutIP(p, again)
             /\ work' = [work EXCEPT ![p].pc = "finalize", ![p].ip = again]
          \/ /\ ~lost /\ ~alreadyAllocateIP(ip) /\ (Failures \/ ~CurrentIP(p))
             /\ Goto(p, "fail")
             /\ UNCHANGED <<ips, ipCache>>
       /\ UNCHANGED <<pods, subnet, podCache, lock, podWork>>
       /\ envUnchanged

(* handleIPRemove: wait for the pod to be gone, for at most a minute *)
WaitPodRemoved(p) ==
    LET pod == podCache[p]
        removed == pod.exists /\ pod.deleting => pod.uid # work[p].ip.podID
    IN /\ At(p, "remove")
       /\ \/ removed /\ Goto(p, "removeLock")
          \/ ~removed /\ Done(p)
       /\ UNCHANGED <<apiVars, cacheVars, lock, podWork, nodeVars, histVars>>

RemoveLock(p) ==
    /\ At(p, "removeLock") /\ lock = {}
    /\ lock' = {p}
    /\ Goto(p, "free")
    /\ UNCHANGED <<apiVars, cacheVars, podWork, nodeVars, histVars>>

(* Bug variant: no unlock on the way out *)
FreeKeepingLock(p) ==
    /\ At(p, "free") /\ CurrentSubnet
    /\ PutSubnet([subnet EXCEPT !.usedIP = @ \ {work[p].ip.addr}])
    /\ Goto(p, "unfinalize")
    /\ UNCHANGED <<pods, ips, lastUID, podCache, ipCache, lock, podWork, nodeVars, histVars>>

(* handleIPRemove: the address leaves UsedIP *)
Free(p) ==
    /\ At(p, "free") /\ CurrentSubnet
    /\ PutSubnet([subnet EXCEPT !.usedIP = @ \ {work[p].ip.addr}])
    /\ lock' = {}
    /\ Goto(p, "unfinalize")
    /\ Blame(NeededElsewhere(p, work[p].ip.addr), "freed")
    /\ UNCHANGED <<pods, ips, lastUID, podCache, ipCache, podWork, nodeVars, panics>>

(* handleIPRemove only logs the error *)
FreeFails(p) ==
    /\ At(p, "free") /\ (Failures \/ ~CurrentSubnet)
    /\ lock' = {}
    /\ Goto(p, "unfinalize")
    /\ UNCHANGED <<apiVars, cacheVars, podWork, nodeVars, histVars>>

(* OnRemove's adapter removes the finalizer, which removes the object; after
   a conflict the key is queued again and handleIPRemove runs again *)
RemoveFinalizer(p) ==
    /\ At(p, "unfinalize")
    /\ \/ /\ ips[p] = work[p].ip
          /\ PutIP(p, NoObject)
       \/ /\ ips[p] # work[p].ip \/ Failures
          /\ UNCHANGED <<ips, ipCache>>
    /\ Done(p)
    /\ UNCHANGED <<pods, subnet, podCache, lock, podWork>>
    /\ envUnchanged

Crash ==
    /\ Failures
    /\ Restart(subnet)
    /\ UNCHANGED <<apiVars, nodeVars, histVars>>

-----------------------------------------------------------------------------
(***************************************************************************)
(* The CNI plugin.  ADD waits for an address in the status of the          *)
(* FlatNetworkIP with the pod's name, configures the link with it, and at  *)
(* the end sets phase Active on the FlatNetworkIP that then has that name. *)
(* It reads the API server itself.                                         *)
(***************************************************************************)
AddConfigure(p) ==
    /\ pods[p].exists /\ ~pods[p].deleting
    /\ cni[p] = "none"
    /\ ips[p].exists /\ ips[p].addr # NoAddr
    /\ iface' = [iface EXCEPT ![p] = ips[p].addr]
    /\ cni' = [cni EXCEPT ![p] = "setup"]
    /\ UNCHANGED <<apiVars, cacheVars, workVars, histVars>>

AddActivate(p) ==
    /\ cni[p] = "setup" /\ ips[p].exists
    /\ PutIP(p, [ips[p] EXCEPT !.phase = "Active"])
    /\ cni' = [cni EXCEPT ![p] = "done"]
    /\ UNCHANGED <<pods, subnet, lastUID, podCache, subnetCache, subnetWatch, workVars,
                   iface, histVars>>

(* any step of ADD failed: the link is deleted, the kubelet tries again *)
AddFails(p) ==
    /\ cni[p] = "setup" /\ (Failures \/ ~ips[p].exists)
    /\ iface' = [iface EXCEPT ![p] = NoAddr]
    /\ cni' = [cni EXCEPT ![p] = "none"]
    /\ UNCHANGED <<apiVars, cacheVars, workVars, histVars>>

-----------------------------------------------------------------------------
Environment(p) == \/ \E r \in Request : CreatePod(p, r)
                  \/ DeletePod(p)
                  \/ PodGone(p)
                  \/ CollectIP(p)

Informers(p) == SyncPodCache(p) \/ SyncIPCache(p)

PodController(p) == PodStart(p) \/ PodSync(p)

IPController(p) ==
    \/ handleIP(p)
    \/ CheckPod(p) \/ LockAndAllocate(p)
    \/ Claim(p) \/ ClaimFails(p)
    \/ Assign(p) \/ FallbackFails(p)
    \/ RecordFailure(p) \/ AddFinalizer(p)
    \/ \E expired \in BOOLEAN : onIPPending(p, expired)
    \/ onIPUpdate(p)
    \/ WaitPodRemoved(p) \/ RemoveLock(p)
    \/ Free(p) \/ FreeFails(p) \/ RemoveFinalizer(p)

CNIPlugin(p) == AddConfigure(p) \/ AddActivate(p) \/ AddFails(p)

Step ==
    \/ \E p \in Name : \/ Environment(p)
                       \/ Informers(p)
                       \/ PodController(p)
                       \/ IPController(p)
                       \/ CNIPlugin(p)
    \/ SyncSubnetCache

Restarts == Crash \/ \E p \in Name : FallbackPanics(p)

Next == Step \/ Restarts

Spec == Init /\ [][Next]_vars

(***************************************************************************)
(* Workers, informers and the plugin do not stop for ever, a pod that is   *)
(* being deleted goes away, and a worker that waits for the lock gets it:  *)
(* a Go mutex is handed over in order once a waiter has starved.           *)
(***************************************************************************)
Fairness ==
    /\ \A p \in Name : /\ WF_vars(PodController(p))
                       /\ WF_vars(IPController(p))
                       /\ SF_vars(LockAndAllocate(p))
                       /\ SF_vars(RemoveLock(p))
                       /\ WF_vars(FallbackPanics(p))
                       /\ WF_vars(SyncPodCache(p))
                       /\ WF_vars(SyncIPCache(p))
                       /\ WF_vars(CNIPlugin(p))
                       /\ WF_vars(PodGone(p))
                       /\ WF_vars(CollectIP(p))
    /\ WF_vars(SyncSubnetCache)

FairSpec == Spec /\ Fairness

(* a FlatNetworkIP that stays Pending is more than 5 minutes old some day *)
TimedSpec == FairSpec /\ \A p \in Name : SF_vars(onIPPending(p, TRUE))

-----------------------------------------------------------------------------
(* Type invariant: objects, caches and workers are what the API types and the
   handlers make of them. *)
TypeOK ==
    /\ pods \in [Name -> Objects(Pod)]
    /\ ips \in [Name -> Objects(FlatNetworkIP)]
    /\ subnet \in FlatNetworkSubnet
    /\ lastUID \in 0 .. MaxUID
    /\ podCache \in [Name -> Objects(Pod)]
    /\ ipCache \in [Name -> Objects(FlatNetworkIP)]
    /\ subnetCache \in FlatNetworkSubnet
    /\ subnetWatch \in Seq(FlatNetworkSubnet)
    /\ lock \subseteq Name \cup {SubnetWorker}
    /\ work \in [Name -> Work]
    /\ podWork \in [Name -> Objects(Pod)]
    /\ iface \in [Name -> Address]
    /\ cni \in [Name -> {"none", "setup", "done"}]
    /\ panics \in BOOLEAN
    /\ fault \subseteq Fault

(* No two FlatNetworkIPs have the same address.  A comment in onSubnetUpdate
   counts duplicate IPs among the "unexpected situations". *)
UniqueAddr ==
    \A p, q \in Name, a \in Addr : Owns(p, a) /\ Owns(q, a) => p = q

(* "UsedIP is the used IPRange of this subnet": it has the address of every
   FlatNetworkIP. *)
UsedCoversOwned ==
    \A p \in Name, a \in Addr : Owns(p, a) => a \in subnet.usedIP

(* UsedIP has the gateway, so that no pod is given it. *)
UsedCoversGateway == subnet.statusGateway \in subnet.usedIP \cup {NoAddr}

(* Whatever is lost, delayed, repeated or interrupted, two FlatNetworkIPs can
   get the same address only after one of the writes of UsedIP that fault
   records: onIPCreate claims an address that the cached subnet did not show
   as used, handleIPRemove frees again what it has freed before, onIPCreate
   falls back although the FlatNetworkIP has the address, or onSubnetUpdate
   counts from stale caches. *)
UniqueUnlessFault == fault = {} => UniqueAddr

(* And only after one of them is an address in use, by a FlatNetworkIP or as
   the gateway, missing from UsedIP. *)
ReservedUnlessFault == fault = {} => UsedCoversOwned /\ UsedCoversGateway

(* Between the two writes of onIPCreate, the one of UsedIP and the one of the
   FlatNetworkIP, nobody takes the address out of UsedIP again. *)
ClaimStands == \A p \in Name : At(p, "assign") => work[p].addr \in subnet.usedIP

Owners(a) == {p \in Name : Owns(p, a)}

Abstract == INSTANCE Allocator WITH owners <- [a \in Addr |-> Owners(a)],
                                    used <- subnet.usedIP

(* Until the first of those writes the operator implements Allocator: every step,
   of any worker, informer, plugin or user, and every crash, either does not
   show, or gives one name an address that is reserved and that nobody else has,
   or takes addresses from names, or changes UsedIP without touching what is
   owned. *)
ImplementsAllocator ==
    /\ Abstract!Init
    /\ [][fault' = {} => Abstract!Next]_<<ips, subnet>>

(* nothing that the pod could be given is free: others have it, or it has been
   leaked and stays in UsedIP for nobody *)
NothingFree(p) ==
    /\ pods[p].exists
    /\ \A a \in IF pods[p].addrs = {} THEN Addr ELSE pods[p].addrs :
          a \in subnet.usedIP /\ (ips[p].exists => ips[p].addr # a)

(* A pod that nobody deletes is served: CNI ADD succeeds, and its
   FlatNetworkIP is Active, unless there is nothing to give. *)
StayingPodIsServed ==
    \A p \in Name :
       <>[](pods[p].exists /\ ~pods[p].deleting)
          => \/ <>(cni[p] = "done" /\ ips[p].exists /\ ips[p].phase = "Active")
             \/ <>[]NothingFree(p)

(* The FlatNetworkIP of a pod that is gone for good goes away: somebody marks
   it, handleIPRemove runs, and the finalizer is removed. *)
IPFollowsPod ==
    \A p \in Name : <>[](~pods[p].exists) => <>[](~ips[p].exists)

(* A pod that nobody deletes ends up with a FlatNetworkIP of its own and an
   address that it has asked for, also when it has inherited the FlatNetworkIP
   of another pod of its name, unless there is nothing to give. *)
RequestIsHonoured ==
    \A p \in Name :
       <>[](pods[p].exists /\ ~pods[p].deleting)
          => \/ <>[](/\ pods[p].exists /\ ips[p].exists
                     /\ ips[p].podID = pods[p].uid
                     /\ alreadyAllocateIP(ips[p]))
             \/ <>[]NothingFree(p)

(* The fallback of onIPCreate returns an error, "failed to update IP addr
   status"; it does not end the process.  It does not hold: when the fallback
   succeeds, err is nil by then (flatnetworkip.go:264). *)
NoPanic == ~panics

(* CNI ADD waits "to let Operator allocate IP for pod": the address it puts
   on the link is one that the subnet has in UsedIP for as long as the pod
   has it.  It does not hold: ADD takes the FlatNetworkIP of the previous pod. *)
LinkReserved == \A p \in Name : iface[p] \in subnet.usedIP \cup {NoAddr}

(* "Addr is the allocated IP address": it is the one on the pod's link.
   It does not hold: onIPCreate on a stale copy replaces an address in use. *)
LinkHasAddr ==
    \A p \in Name :
       (/\ cni[p] = "done" /\ pods[p].exists
        /\ ips[p].exists /\ ~ips[p].deleting
        /\ ips[p].podID = pods[p].uid) => iface[p] = ips[p].addr

(* onIPPending deletes a pod for a "timeout wait for pod network setup by
   CNI", and no pod whose network is set up.  It does not hold: the copy may be from
   before the plugin's update. *)
OnlyStuckPodsExpire ==
    [][\A p \in Name : onIPPending(p, TRUE) => cni[p] # "done"]_vars
=============================================================================
