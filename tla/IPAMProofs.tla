----------------------------- MODULE IPAMProofs -----------------------------
(***************************************************************************)
(* What IPAM guarantees for any number of pods and addresses, any lag of   *)
(* the caches, and with or without failures.                               *)
(*                                                                         *)
(* UniqueUnlessFault, ReservedUnlessFault and ClaimStands are not inductive*)
(* by themselves.  The lock explains why UsedIP stands still between the   *)
(* two writes of onIPCreate (LockInv, InFlight), and finalizers explain why*)
(* handleIPRemove never frees an address that its own FlatNetworkIP, maybe *)
(* a newer one of the same name, has (RemoveInv).                          *)
(*                                                                         *)
(* The guarantees hold beside the subnet controller too (the second half): *)
(* its recount of UsedIP (onSubnetUpdate) takes the same lock as           *)
(* onIPCreate and handleIPRemove, and its other writes only add to UsedIP. *)
(***************************************************************************)
EXTENDS SubnetController, TLAPS

Holder(p) == \E a \in Addr : Owns(p, a)

HoldsLock == {"claim", "assign", "free"}
Removing == {"remove", "removeLock", "free", "unfinalize"}

CachedDeleting(p) == ipCache[p].exists /\ ipCache[p].deleting

(* a worker that is not idle has a FlatNetworkIP, and in the critical section
   of onIPCreate an address *)
WorkInv ==
    \A p \in Name :
       /\ work[p].pc # "idle" => work[p].ip \in FlatNetworkIP
       /\ work[p].pc \in {"claim", "assign"} => work[p].addr \in Addr

LockInv ==
    /\ \A x, y \in lock : x = y
    /\ \A p \in Name : work[p].pc \in HoldsLock => p \in lock

(* what is being removed, or looks so in the cache, has no address to lose *)
RemoveInv ==
    \A p \in Name : work[p].pc \in Removing \/ CachedDeleting(p) => ~Holder(p)

(* an address that is about to be written to a FlatNetworkIP *)
InFlight ==
    \A p \in Name : work[p].pc = "assign" /\ fault = {}
       => \A q \in Name \ {p} : ~Owns(q, work[p].addr)

Inv == /\ TypeOK
       /\ WorkInv
       /\ LockInv
       /\ RemoveInv
       /\ ClaimStands
       /\ InFlight
       /\ UniqueUnlessFault
       /\ ReservedUnlessFault

(* What most steps do: nobody gets an address, UsedIP stays, caches only
   catch up, and no worker enters a section that RemoveInv or InFlight speak
   about without the reason they give. *)
OwnersStay == \A q \in Name, a \in Addr : Owns(q, a)' => Owns(q, a)
CacheFollows == \A q \in Name : ipCache'[q] = ipCache[q] \/ ipCache'[q] = ips'[q]
WorkMoves ==
    \A q \in Name :
       /\ work'[q].pc = "assign" => work[q].pc = "assign" /\ work'[q].addr = work[q].addr
       /\ work'[q].pc \in Removing => work[q].pc \in Removing \/ CachedDeleting(q)
Harmless == /\ OwnersStay /\ CacheFollows /\ WorkMoves
            /\ subnet' = subnet /\ fault' = fault

USE AddrAssumption, GatewayAssumption, RequestAssumption, BoundAssumption, SwitchAssumption

-----------------------------------------------------------------------------
(* The records: what updates of their fields do. *)
LEMMA NoObjectFacts == NoObject.exists = FALSE
BY DEF NoObject

LEMMA PodFacts ==
    ASSUME NEW o \in Objects(Pod), o.exists
    PROVE  o \in Pod /\ [o EXCEPT !.deleting = TRUE] \in Pod
<1>1. o \in Pod
  BY NoObjectFacts DEF Objects
<1> QED BY <1>1 DEF Pod

LEMMA IPFacts ==
    ASSUME NEW o \in Objects(FlatNetworkIP), o.exists
    PROVE  o \in FlatNetworkIP
BY NoObjectFacts DEF Objects

LEMMA IPMarked ==
    ASSUME NEW o \in FlatNetworkIP
    PROVE  /\ [o EXCEPT !.deleting = TRUE] \in FlatNetworkIP
           /\ [o EXCEPT !.deleting = TRUE].deleting
           /\ [o EXCEPT !.finalizer = TRUE] \in FlatNetworkIP
           /\ [o EXCEPT !.finalizer = TRUE].addr = o.addr
           /\ [o EXCEPT !.finalizer = TRUE].deleting = o.deleting
BY DEF FlatNetworkIP

LEMMA IPPhased ==
    ASSUME NEW o \in FlatNetworkIP, NEW f \in Phase
    PROVE  /\ [o EXCEPT !.phase = f] \in FlatNetworkIP
           /\ [o EXCEPT !.phase = f].addr = o.addr
           /\ [o EXCEPT !.phase = f].deleting = o.deleting
BY DEF FlatNetworkIP

LEMMA IPAssigned ==
    ASSUME NEW o \in FlatNetworkIP, NEW a \in Address
    PROVE  /\ [o EXCEPT !.addr = a, !.phase = "Pending"] \in FlatNetworkIP
           /\ [o EXCEPT !.addr = a, !.phase = "Pending"].addr = a
           /\ [o EXCEPT !.addr = a, !.phase = "Pending"].deleting = o.deleting
BY DEF FlatNetworkIP, Phase

LEMMA IPRepurposed ==
    ASSUME NEW o \in FlatNetworkIP, NEW u \in UID, NEW r \in Request
    PROVE  /\ [o EXCEPT !.podID = u, !.addrs = r] \in FlatNetworkIP
           /\ [o EXCEPT !.podID = u, !.addrs = r].addr = o.addr
           /\ [o EXCEPT !.podID = u, !.addrs = r].deleting = o.deleting
BY DEF FlatNetworkIP

LEMMA IPFields ==
    ASSUME NEW o \in FlatNetworkIP
    PROVE  /\ o.exists /\ o.addr \in Address /\ o.addrs \in Request
           /\ o.deleting \in BOOLEAN /\ o.finalizer \in BOOLEAN
BY DEF FlatNetworkIP

LEMMA SubnetGrown ==
    ASSUME NEW s \in FlatNetworkSubnet, NEW a \in Addr
    PROVE  /\ [s EXCEPT !.usedIP = @ \cup {a}] \in FlatNetworkSubnet
           /\ [s EXCEPT !.usedIP = @ \cup {a}].usedIP = s.usedIP \cup {a}
           /\ [s EXCEPT !.usedIP = @ \cup {a}].statusGateway = s.statusGateway
BY DEF FlatNetworkSubnet

LEMMA SubnetShrunk ==
    ASSUME NEW s \in FlatNetworkSubnet, NEW a
    PROVE  /\ [s EXCEPT !.usedIP = @ \ {a}] \in FlatNetworkSubnet
           /\ [s EXCEPT !.usedIP = @ \ {a}].usedIP = s.usedIP \ {a}
           /\ [s EXCEPT !.usedIP = @ \ {a}].statusGateway = s.statusGateway
BY DEF FlatNetworkSubnet

LEMMA IdleFacts ==
    /\ Idle \in Work /\ Idle.pc = "idle"
    /\ \A l \in PC, o \in Objects(FlatNetworkIP) :
          /\ [Idle EXCEPT !.pc = l, !.ip = o] \in Work
          /\ [Idle EXCEPT !.pc = l, !.ip = o].pc = l
          /\ [Idle EXCEPT !.pc = l, !.ip = o].ip = o
BY DEF Idle, Work, PC, Objects, Address

LEMMA WorkAllocated ==
    ASSUME NEW w \in Work, NEW a \in Addr
    PROVE  /\ [w EXCEPT !.pc = "claim", !.addr = a] \in Work
           /\ [w EXCEPT !.pc = "claim", !.addr = a].pc = "claim"
           /\ [w EXCEPT !.pc = "claim", !.addr = a].ip = w.ip
           /\ [w EXCEPT !.pc = "claim", !.addr = a].addr = a
BY DEF Work, PC, Address

LEMMA WorkClaimed ==
    ASSUME NEW w \in Work, NEW s \in FlatNetworkSubnet
    PROVE  /\ [w EXCEPT !.pc = "assign", !.subnet = s] \in Work
           /\ [w EXCEPT !.pc = "assign", !.subnet = s].pc = "assign"
           /\ [w EXCEPT !.pc = "assign", !.subnet = s].ip = w.ip
           /\ [w EXCEPT !.pc = "assign", !.subnet = s].addr = w.addr
BY DEF Work, PC, Objects

LEMMA WorkRenewed ==
    ASSUME NEW w \in Work, NEW o \in FlatNetworkIP
    PROVE  /\ [w EXCEPT !.pc = "finalize", !.ip = o] \in Work
           /\ [w EXCEPT !.pc = "finalize", !.ip = o].pc = "finalize"
           /\ [w EXCEPT !.pc = "finalize", !.ip = o].ip = o
BY DEF Work, PC, Objects

(* places a worker can go to from anywhere *)
Calm == {"lock", "fail", "finalize"}

LEMMA CalmFacts ==
    ASSUME NEW l \in Calm
    PROVE  l \in PC /\ l \notin Removing /\ l \notin {"idle", "claim", "assign", "free"}
BY DEF Calm, PC, Removing

-----------------------------------------------------------------------------
(* The operators that the actions are built from. *)
LEMMA PutPodEffect ==
    ASSUME TypeOK, NEW p \in Name, NEW o \in Objects(Pod), PutPod(p, o)
    PROVE  pods' \in [Name -> Objects(Pod)] /\ podCache' \in [Name -> Objects(Pod)]
BY DEF TypeOK, PutPod

LEMMA MarkPodEffect ==
    ASSUME TypeOK, NEW p \in Name, pods[p].exists, MarkPod(p)
    PROVE  pods' \in [Name -> Objects(Pod)] /\ podCache' \in [Name -> Objects(Pod)]
<1>1. [pods[p] EXCEPT !.deleting = TRUE] \in Objects(Pod)
  BY PodFacts DEF TypeOK, Objects
<1> QED BY <1>1, PutPodEffect DEF MarkPod

LEMMA PutIPEffect ==
    ASSUME TypeOK, NEW p \in Name, NEW o \in Objects(FlatNetworkIP), PutIP(p, o)
    PROVE  /\ ips' \in [Name -> Objects(FlatNetworkIP)]
           /\ ipCache' \in [Name -> Objects(FlatNetworkIP)]
           /\ ips'[p] = o /\ \A q \in Name \ {p} : ips'[q] = ips[q]
           /\ CacheFollows
BY DEF TypeOK, PutIP, CacheFollows

(* an update that gives nobody an address *)
LEMMA PutIPKeepsOwners ==
    ASSUME TypeOK, NEW p \in Name, NEW o \in Objects(FlatNetworkIP), PutIP(p, o),
           \A a \in Addr : o.exists /\ ~o.deleting /\ o.addr = a => Owns(p, a)
    PROVE  OwnersStay /\ CacheFollows
<1>1. ips'[p] = o /\ \A q \in Name \ {p} : ips'[q] = ips[q]
  BY PutIPEffect
<1>2. OwnersStay
  BY <1>1 DEF OwnersStay, Owns
<1> QED BY <1>2, PutIPEffect

LEMMA DeleteIPEffect ==
    ASSUME TypeOK, NEW p \in Name, DeleteIP(p)
    PROVE  /\ ips' \in [Name -> Objects(FlatNetworkIP)]
           /\ ipCache' \in [Name -> Objects(FlatNetworkIP)]
           /\ OwnersStay /\ CacheFollows
<1>1. CASE ~ips[p].exists
  BY <1>1 DEF DeleteIP, OwnersStay, CacheFollows, Owns, TypeOK
<1>2. CASE ips[p].exists /\ ips[p].finalizer
  <2> DEFINE o == [ips[p] EXCEPT !.deleting = TRUE]
  <2>1. ips[p] \in FlatNetworkIP
    BY <1>2, IPFacts DEF TypeOK
  <2>2. o \in Objects(FlatNetworkIP) /\ o.deleting
    BY <2>1, IPMarked DEF Objects
  <2>3. PutIP(p, o)
    BY <1>2 DEF DeleteIP
  <2> HIDE DEF o
  <2> QED BY <2>2, <2>3, PutIPEffect, PutIPKeepsOwners
<1>3. CASE ips[p].exists /\ ~ips[p].finalizer
  <2>1. PutIP(p, NoObject)
    BY <1>3 DEF DeleteIP
  <2> QED BY <2>1, NoObjectFacts, PutIPEffect, PutIPKeepsOwners DEF Objects
<1> QED BY <1>1, <1>2, <1>3

LEMMA PutSubnetEffect ==
    ASSUME TypeOK, NEW o \in FlatNetworkSubnet, PutSubnet(o)
    PROVE  /\ subnet' = o
           /\ subnetCache' \in FlatNetworkSubnet
           /\ subnetWatch' \in Seq(FlatNetworkSubnet)
<1>1. subnetWatch \in Seq(FlatNetworkSubnet) /\ subnetCache \in FlatNetworkSubnet
  BY DEF TypeOK
<1>2. Append(subnetWatch, o) \in Seq(FlatNetworkSubnet)
  BY <1>1
<1> QED BY <1>1, <1>2 DEF PutSubnet

LEMMA GotoEffect ==
    ASSUME TypeOK, NEW p \in Name, NEW l \in PC, Goto(p, l)
    PROVE  /\ work' \in [Name -> Work]
           /\ work'[p].pc = l /\ work'[p].ip = work[p].ip /\ work'[p].addr = work[p].addr
           /\ \A q \in Name \ {p} : work'[q] = work[q]
<1> DEFINE w == [work[p] EXCEPT !.pc = l]
<1>1. work \in [Name -> Work] /\ work' = [work EXCEPT ![p] = w]
  BY DEF TypeOK, Goto
<1>2. work[p] \in Work
  BY <1>1, Zenon
<1>3. w \in Work /\ w.pc = l /\ w.ip = work[p].ip /\ w.addr = work[p].addr
  BY <1>2 DEF Work
<1> HIDE DEF w
<1>4. work' \in [Name -> Work] /\ work'[p] = w
  BY <1>1, <1>3, Zenon
<1>5. \A q \in Name \ {p} : work'[q] = work[q]
  BY <1>1, Zenon
<1> QED BY <1>3, <1>4, <1>5, Zenon

LEMMA LeaveEffect ==
    ASSUME TypeOK, NEW p \in Name, NEW l \in PC, Leave(p, l)
    PROVE  /\ work' \in [Name -> Work]
           /\ work'[p].pc = l /\ work'[p].ip = work[p].ip
           /\ \A q \in Name \ {p} : work'[q] = work[q]
<1>1. work \in [Name -> Work] /\ work[p].ip \in Objects(FlatNetworkIP)
  BY DEF TypeOK, Work
<1> DEFINE w == [Idle EXCEPT !.pc = l, !.ip = work[p].ip]
<1>2. work' = [work EXCEPT ![p] = w]
  BY Zenon DEF Leave
<1>3. w \in Work /\ w.pc = l /\ w.ip = work[p].ip
  BY <1>1, IdleFacts, Zenon
<1> HIDE DEF w
<1>4. work' \in [Name -> Work] /\ work'[p] = w
  BY <1>1, <1>2, <1>3, Zenon
<1>5. \A q \in Name \ {p} : work'[q] = work[q]
  BY <1>1, <1>2, Zenon
<1> QED BY <1>3, <1>4, <1>5, Zenon

LEMMA DoneEffect ==
    ASSUME TypeOK, NEW p \in Name, Done(p)
    PROVE  /\ work' \in [Name -> Work]
           /\ work'[p].pc = "idle"
           /\ \A q \in Name \ {p} : work'[q] = work[q]
<1>1. Idle \in Work /\ Idle.pc = "idle"
  BY IdleFacts, Zenon
<1>2. work \in [Name -> Work]
  BY Zenon DEF TypeOK
<1>3. work' = [work EXCEPT ![p] = Idle]
  BY Zenon DEF Done
<1>4. \A q \in Name : work'[q] = IF q = p THEN Idle ELSE work[q]
  BY <1>2, <1>3, Zenon
<1>5. work' \in [Name -> Work]
  BY <1>1, <1>2, <1>3, Zenon
<1> QED BY <1>1, <1>4, <1>5, Zenon

-----------------------------------------------------------------------------
(* One lemma per actor: its steps keep the types, WorkInv and LockInv and are
   Harmless, but for the four writes of an address treated further down. *)
Good == TypeOK /\ WorkInv /\ LockInv
GoodStep == TypeOK' /\ WorkInv' /\ LockInv' /\ Harmless

LEMMA SameWork ==
    ASSUME Good, UNCHANGED <<work, lock, subnet, fault>>, OwnersStay, CacheFollows
    PROVE  WorkInv' /\ LockInv' /\ Harmless
BY DEF Good, WorkInv, LockInv, Harmless, WorkMoves

LEMMA SameIPs ==
    ASSUME UNCHANGED <<ips, ipCache>>
    PROVE  OwnersStay /\ CacheFollows
BY DEF OwnersStay, CacheFollows, Owns

LEMMA EnvironmentStep ==
    ASSUME Good, NEW p \in Name, Environment(p)
    PROVE  GoodStep
<1> USE DEF apiVars, cacheVars, workVars, nodeVars, histVars
<1>1. ASSUME NEW r \in Request, CreatePod(p, r)
      PROVE  GoodStep
  <2>1. lastUID' \in 0 .. MaxUID /\ lastUID + 1 \in UID
    BY <1>1 DEF CreatePod, Good, TypeOK, UID
  <2> DEFINE o == [exists |-> TRUE, uid |-> lastUID + 1, deleting |-> FALSE, addrs |-> r]
  <2>2. o \in Objects(Pod) /\ PutPod(p, o)
    BY <1>1, <2>1 DEF CreatePod, Objects, Pod
  <2> HIDE DEF o
  <2>3. pods' \in [Name -> Objects(Pod)] /\ podCache' \in [Name -> Objects(Pod)]
    BY <2>2, PutPodEffect DEF Good
  <2>4. TypeOK'
    BY <1>1, <2>1, <2>3 DEF CreatePod, Good, TypeOK
  <2> QED BY <1>1, <2>4, SameWork, SameIPs DEF CreatePod, GoodStep
<1>2. ASSUME DeletePod(p)
      PROVE  GoodStep
  <2>1. pods' \in [Name -> Objects(Pod)] /\ podCache' \in [Name -> Objects(Pod)]
    BY <1>2, MarkPodEffect DEF DeletePod, Good
  <2>2. TypeOK'
    BY <1>2, <2>1 DEF DeletePod, Good, TypeOK
  <2> QED BY <1>2, <2>2, SameWork, SameIPs DEF DeletePod, GoodStep
<1>3. ASSUME PodGone(p)
      PROVE  GoodStep
  <2>1. pods' \in [Name -> Objects(Pod)] /\ podCache' \in [Name -> Objects(Pod)]
    BY <1>3, PutPodEffect DEF PodGone, Good, Objects
  <2>2. iface' \in [Name -> Address] /\ cni' \in [Name -> {"none", "setup", "done"}]
    BY <1>3 DEF PodGone, Good, TypeOK, Address
  <2>3. TypeOK'
    BY <1>3, <2>1, <2>2 DEF PodGone, Good, TypeOK
  <2> QED BY <1>3, <2>3, SameWork, SameIPs DEF PodGone, GoodStep
<1>4. ASSUME CollectIP(p)
      PROVE  GoodStep
  <2>1. /\ ips' \in [Name -> Objects(FlatNetworkIP)]
        /\ ipCache' \in [Name -> Objects(FlatNetworkIP)]
        /\ OwnersStay /\ CacheFollows
    BY <1>4, DeleteIPEffect DEF CollectIP, Good
  <2>2. TypeOK'
    BY <1>4, <2>1 DEF CollectIP, Good, TypeOK
  <2> QED BY <1>4, <2>1, <2>2, SameWork DEF CollectIP, GoodStep
<1> QED BY <1>1, <1>2, <1>3, <1>4 DEF Environment

LEMMA InformerStep ==
    ASSUME Good, NEW p \in Name, Informers(p)
    PROVE  GoodStep
<1> USE DEF apiVars, cacheVars, workVars, nodeVars, histVars
<1>1. CASE SyncPodCache(p)
  <2>1. TypeOK'
    BY <1>1 DEF SyncPodCache, Good, TypeOK
  <2> QED BY <1>1, <2>1, SameWork, SameIPs DEF SyncPodCache, GoodStep
<1>2. CASE SyncIPCache(p)
  <2>1. TypeOK'
    BY <1>2 DEF SyncIPCache, Good, TypeOK
  <2>2. OwnersStay /\ CacheFollows
    BY <1>2 DEF SyncIPCache, Good, TypeOK, OwnersStay, CacheFollows, Owns
  <2> QED BY <1>2, <2>1, <2>2, SameWork DEF SyncIPCache, GoodStep
<1> QED BY <1>1, <1>2 DEF Informers

LEMMA SyncSubnetCacheStep ==
    ASSUME Good, SyncSubnetCache
    PROVE  GoodStep
<1> USE DEF SyncSubnetCache, apiVars, workVars, nodeVars, histVars
<1>1. Head(subnetWatch) \in FlatNetworkSubnet /\ Tail(subnetWatch) \in Seq(FlatNetworkSubnet)
  BY DEF Good, TypeOK
<1>2. TypeOK'
  BY <1>1 DEF Good, TypeOK
<1> QED BY <1>2, SameWork, SameIPs DEF GoodStep

LEMMA NewIPEffect ==
    ASSUME Good, NEW p \in Name, NEW pod \in Pod, PutIP(p, newFlatNetworkIP(pod))
    PROVE  /\ ips' \in [Name -> Objects(FlatNetworkIP)]
           /\ ipCache' \in [Name -> Objects(FlatNetworkIP)]
           /\ OwnersStay /\ CacheFollows
<1> DEFINE o == newFlatNetworkIP(pod)
<1>1. o \in FlatNetworkIP /\ o.addr = NoAddr
  BY DEF newFlatNetworkIP, FlatNetworkIP, Pod, Address, Phase
<1>2. NoAddr \notin Addr
  BY DEF NoAddr
<1> HIDE DEF o
<1>3. o \in Objects(FlatNetworkIP) /\ \A a \in Addr : o.addr # a
  BY <1>1, <1>2 DEF Objects
<1>4. PutIP(p, o)
  BY DEF o
<1> QED BY <1>3, <1>4, PutIPEffect, PutIPKeepsOwners DEF Good

(* an update of a stored FlatNetworkIP that leaves address and deletion alone *)
LEMMA PatchIPEffect ==
    ASSUME Good, NEW p \in Name, ips[p].exists, NEW o \in FlatNetworkIP, PutIP(p, o),
           o.addr = ips[p].addr, o.deleting = ips[p].deleting
    PROVE  /\ ips' \in [Name -> Objects(FlatNetworkIP)]
           /\ ipCache' \in [Name -> Objects(FlatNetworkIP)]
           /\ OwnersStay /\ CacheFollows
<1>1. o \in Objects(FlatNetworkIP)
  BY DEF Objects
<1>2. \A a \in Addr : o.exists /\ ~o.deleting /\ o.addr = a => Owns(p, a)
  BY DEF Owns
<1> QED BY <1>1, <1>2, PutIPEffect, PutIPKeepsOwners DEF Good

LEMMA PhaseEffect ==
    ASSUME Good, NEW p \in Name, ips[p].exists, NEW f \in Phase,
           PutIP(p, [ips[p] EXCEPT !.phase = f])
    PROVE  /\ ips' \in [Name -> Objects(FlatNetworkIP)]
           /\ ipCache' \in [Name -> Objects(FlatNetworkIP)]
           /\ OwnersStay /\ CacheFollows
<1> DEFINE o == [ips[p] EXCEPT !.phase = f]
<1>1. ips[p] \in FlatNetworkIP
  BY IPFacts DEF Good, TypeOK
<1>2. o \in FlatNetworkIP /\ o.addr = ips[p].addr /\ o.deleting = ips[p].deleting
  BY <1>1, IPPhased
<1>3. PutIP(p, o)
  OBVIOUS
<1> HIDE DEF o
<1> QED BY <1>2, <1>3, PatchIPEffect

LEMMA RepurposeEffect ==
    ASSUME Good, NEW p \in Name, ips[p].exists, NEW u \in UID, NEW r \in Request,
           PutIP(p, [ips[p] EXCEPT !.podID = u, !.addrs = r])
    PROVE  /\ ips' \in [Name -> Objects(FlatNetworkIP)]
           /\ ipCache' \in [Name -> Objects(FlatNetworkIP)]
           /\ OwnersStay /\ CacheFollows
<1>1. PICK x \in FlatNetworkIP : x = ips[p]
  BY IPFacts DEF Good, TypeOK
<1> DEFINE o == [x EXCEPT !.podID = u, !.addrs = r]
<1>2. o \in FlatNetworkIP /\ o.addr = x.addr /\ o.deleting = x.deleting
  BY IPRepurposed
<1>3. PutIP(p, o)
  BY <1>1, Zenon
<1> HIDE DEF o
<1> QED BY <1>1, <1>2, <1>3, PatchIPEffect

LEMMA ensureFlatNetworkIPEffect ==
    ASSUME Good, NEW p \in Name, NEW pod \in Pod, ensureFlatNetworkIP(p, pod)
    PROVE  /\ ips' \in [Name -> Objects(FlatNetworkIP)]
           /\ ipCache' \in [Name -> Objects(FlatNetworkIP)]
           /\ OwnersStay /\ CacheFollows
<1>1. CASE UNCHANGED <<ips, ipCache>>
  BY <1>1, SameIPs DEF Good, TypeOK
<1>2. CASE CurrentIP(p) /\ PutIP(p, [ips[p] EXCEPT !.podID = pod.uid, !.addrs = pod.addrs])
  <2>1. ips[p].exists /\ ips[p] \in FlatNetworkIP
    BY <1>2, IPFacts DEF CurrentIP, Good, TypeOK
  <2>2. pod.uid \in UID /\ pod.addrs \in Request
    BY DEF Pod
  <2> QED BY <1>2, <2>1, <2>2, RepurposeEffect
<1>3. CASE PutIP(p, newFlatNetworkIP(pod))
  BY <1>3, NewIPEffect
<1> QED BY <1>1, <1>2, <1>3 DEF ensureFlatNetworkIP

LEMMA PodControllerStep ==
    ASSUME Good, NEW p \in Name, PodController(p)
    PROVE  GoodStep
<1> USE DEF apiVars, cacheVars, workVars, nodeVars, histVars
<1>1. CASE PodStart(p)
  <2>1. TypeOK'
    BY <1>1 DEF PodStart, Good, TypeOK
  <2> QED BY <1>1, <2>1, SameWork, SameIPs DEF PodStart, GoodStep
<1>2. CASE PodSync(p)
  <2> DEFINE pod == IF CacheLag THEN podWork[p] ELSE podCache[p]
  <2>1. pod \in Objects(Pod) /\ pod.exists
    BY <1>2 DEF PodSync, Good, TypeOK
  <2>2. IF pod.deleting THEN DeleteIP(p) ELSE ensureFlatNetworkIP(p, pod)
    BY <1>2 DEF PodSync
  <2>3. UNCHANGED <<pods, subnet, lastUID, podCache, subnetCache, subnetWatch, lock, work,
                    iface, cni, panics, fault>>
    BY <1>2 DEF PodSync, envUnchanged
  <2>4. podWork' \in [Name -> Objects(Pod)]
    BY <1>2 DEF PodSync, Good, TypeOK, Objects
  <2> HIDE DEF pod
  <2>5. pod \in Pod
    BY <2>1, PodFacts
  <2>6. /\ ips' \in [Name -> Objects(FlatNetworkIP)]
        /\ ipCache' \in [Name -> Objects(FlatNetworkIP)]
        /\ OwnersStay /\ CacheFollows
    BY <2>2, <2>5, DeleteIPEffect, ensureFlatNetworkIPEffect DEF Good
  <2>7. TypeOK'
    BY <2>3, <2>4, <2>6 DEF Good, TypeOK
  <2> QED BY <2>3, <2>6, <2>7, SameWork DEF GoodStep
<1> QED BY <1>1, <1>2 DEF PodController

LEMMA CNIPluginStep ==
    ASSUME Good, NEW p \in Name, CNIPlugin(p)
    PROVE  GoodStep
<1> USE DEF apiVars, cacheVars, workVars, nodeVars, histVars
<1>1. CASE AddConfigure(p)
  <2>1. ips[p].addr \in Address
    BY <1>1, IPFacts, IPFields DEF AddConfigure, Good, TypeOK
  <2>2. TypeOK'
    BY <1>1, <2>1 DEF AddConfigure, Good, TypeOK
  <2> QED BY <1>1, <2>2, SameWork, SameIPs DEF AddConfigure, GoodStep
<1>2. CASE AddActivate(p)
  <2>1. ips[p] \in FlatNetworkIP /\ ips[p].exists
    BY <1>2, IPFacts DEF AddActivate, Good, TypeOK
  <2>2. /\ ips' \in [Name -> Objects(FlatNetworkIP)]
        /\ ipCache' \in [Name -> Objects(FlatNetworkIP)]
        /\ OwnersStay /\ CacheFollows
    BY <1>2, <2>1, PhaseEffect DEF AddActivate, Phase
  <2>3. TypeOK'
    BY <1>2, <2>2 DEF AddActivate, Good, TypeOK
  <2> QED BY <1>2, <2>2, <2>3, SameWork DEF AddActivate, GoodStep
<1>3. CASE AddFails(p)
  <2>1. TypeOK'
    BY <1>3 DEF AddFails, Good, TypeOK, Address
  <2> QED BY <1>3, <2>1, SameWork, SameIPs DEF AddFails, GoodStep
<1> QED BY <1>1, <1>2, <1>3 DEF CNIPlugin

-----------------------------------------------------------------------------
(* The IP controller.  What a worker p may do without further ado: *)
LEMMA WorkStep ==
    ASSUME Good, NEW p \in Name, OwnersStay, CacheFollows, UNCHANGED <<subnet, fault>>,
           \A q \in Name \ {p} : work'[q] = work[q],
           work'[p].pc # "idle" => work'[p].ip \in FlatNetworkIP,
           work'[p].pc = "claim" => work'[p].addr \in Addr,
           work'[p].pc # "assign",
           work'[p].pc \in Removing => work[p].pc \in Removing \/ CachedDeleting(p),
           \/ lock' = lock /\ work'[p].pc \notin HoldsLock
           \/ lock' = {} /\ work[p].pc \in HoldsLock /\ work'[p].pc \notin HoldsLock
           \/ lock = {} /\ lock' = {p}
    PROVE  WorkInv' /\ LockInv' /\ Harmless
<1>1. WorkInv'
  BY DEF Good, WorkInv
<1>2. LockInv'
  BY DEF Good, LockInv, HoldsLock
<1>3. Harmless
  BY DEF Harmless, WorkMoves
<1> QED BY <1>1, <1>2, <1>3

LEMMA NotIdle ==
    ASSUME Good, NEW p \in Name, NEW l, At(p, l), l # "idle"
    PROVE  work[p].ip \in FlatNetworkIP
BY DEF Good, WorkInv, At

(* Goto and Leave, to a place outside of the critical sections *)
LEMMA MoveStep ==
    ASSUME Good, NEW p \in Name, NEW l \in PC, Goto(p, l) \/ Leave(p, l), work[p].pc # "idle",
           l \notin {"idle", "claim", "assign", "free"},
           l \in Removing => work[p].pc \in Removing,
           lock' = lock \/ (lock' = {} /\ work[p].pc \in HoldsLock),
           OwnersStay, CacheFollows, UNCHANGED <<subnet, fault>>
    PROVE  work' \in [Name -> Work] /\ WorkInv' /\ LockInv' /\ Harmless
<1>1. /\ work' \in [Name -> Work] /\ work'[p].pc = l /\ work'[p].ip = work[p].ip
      /\ \A q \in Name \ {p} : work'[q] = work[q]
  BY GotoEffect, LeaveEffect DEF Good
<1>2. work[p].ip \in FlatNetworkIP
  BY DEF Good, WorkInv
<1>3. l \notin HoldsLock /\ l # "claim" /\ l # "assign"
  BY DEF HoldsLock
<1> QED BY <1>1, <1>2, <1>3, WorkStep

LEMMA CalmStep ==
    ASSUME Good, NEW p \in Name, NEW l \in Calm, Goto(p, l) \/ Leave(p, l), work[p].pc # "idle",
           lock' = lock \/ (lock' = {} /\ work[p].pc \in HoldsLock),
           OwnersStay, CacheFollows, UNCHANGED <<subnet, fault>>
    PROVE  work' \in [Name -> Work] /\ WorkInv' /\ LockInv' /\ Harmless
BY CalmFacts, MoveStep

LEMMA DoneStep ==
    ASSUME Good, NEW p \in Name, Done(p), UNCHANGED <<lock, subnet, fault>>,
           OwnersStay, CacheFollows
    PROVE  work' \in [Name -> Work] /\ WorkInv' /\ LockInv' /\ Harmless
<1>1. /\ work' \in [Name -> Work] /\ work'[p].pc = "idle"
      /\ \A q \in Name \ {p} : work'[q] = work[q]
  BY DoneEffect DEF Good
<1>2. "idle" \notin HoldsLock /\ "idle" \notin Removing
  BY DEF HoldsLock, Removing
<1>3. /\ work'[p].pc # "idle" => work'[p].ip \in FlatNetworkIP
      /\ work'[p].pc = "claim" => work'[p].addr \in Addr
      /\ work'[p].pc # "assign"
      /\ work'[p].pc \in Removing => work[p].pc \in Removing \/ CachedDeleting(p)
      /\ lock' = lock /\ work'[p].pc \notin HoldsLock
  BY <1>1, <1>2
<1>4. UNCHANGED <<subnet, fault>>
  OBVIOUS
<1>5. WorkInv' /\ LockInv' /\ Harmless
  BY <1>1, <1>3, <1>4, WorkStep, Zenon
<1> QED BY <1>1, <1>5, Zenon

LEMMA handleIPStep ==
    ASSUME Good, NEW p \in Name, handleIP(p)
    PROVE  GoodStep
<1> USE DEF apiVars, cacheVars, workVars, nodeVars, histVars
<1> DEFINE l == HandlerOf(ipCache[p])
<1>1. ipCache[p] \in FlatNetworkIP /\ ipCache[p].exists
  BY IPFacts DEF handleIP, Good, TypeOK
<1>2. /\ l \in {"remove", "update", "pending", "create"}
      /\ l = "remove" => ipCache[p].deleting
  BY DEF HandlerOf
<1>3. work' = [work EXCEPT ![p] = [pc |-> l, ip |-> ipCache[p], addr |-> NoAddr,
                                   subnet |-> NoObject]]
  BY DEF handleIP
<1> HIDE DEF l
<1>4. [pc |-> l, ip |-> ipCache[p], addr |-> NoAddr, subnet |-> NoObject] \in Work
  BY <1>1, <1>2 DEF Work, PC, Objects, Address
<1>5. /\ work' \in [Name -> Work] /\ work'[p].pc = l /\ work'[p].ip = ipCache[p]
      /\ \A q \in Name \ {p} : work'[q] = work[q]
  BY <1>3, <1>4 DEF Good, TypeOK
<1>6. TypeOK'
  BY <1>5 DEF handleIP, Good, TypeOK
<1>7. UNCHANGED <<ips, ipCache, lock, subnet, fault>>
  BY DEF handleIP
<1>8. l \notin HoldsLock /\ l # "claim" /\ l # "assign" /\ (l \in Removing => CachedDeleting(p))
  BY <1>1, <1>2 DEF HoldsLock, Removing, CachedDeleting
<1>9. OwnersStay /\ CacheFollows
  BY <1>7, SameIPs
<1> QED BY <1>1, <1>5, <1>6, <1>7, <1>8, <1>9, WorkStep DEF GoodStep

LEMMA CheckPodStep ==
    ASSUME Good, NEW p \in Name, CheckPod(p)
    PROVE  GoodStep
<1>1. UNCHANGED <<pods, subnet, podCache, lock, podWork, lastUID, subnetCache, subnetWatch,
                  iface, cni, panics, fault>>
  BY DEF CheckPod, envUnchanged, nodeVars, histVars
<1>2. /\ ips' \in [Name -> Objects(FlatNetworkIP)]
      /\ ipCache' \in [Name -> Objects(FlatNetworkIP)]
      /\ OwnersStay /\ CacheFollows
  BY SameIPs, DeleteIPEffect DEF CheckPod, Good, TypeOK
<1>3. work[p].pc = "create" /\ \E l \in Calm : Goto(p, l)
  BY DEF CheckPod, At, Calm
<1>4. work' \in [Name -> Work] /\ WorkInv' /\ LockInv' /\ Harmless
  BY <1>1, <1>2, <1>3, CalmStep
<1>5. TypeOK'
  BY <1>1, <1>2, <1>4 DEF Good, TypeOK
<1> QED BY <1>4, <1>5 DEF GoodStep

LEMMA allocateIPFacts ==
    ASSUME NEW ip \in FlatNetworkIP, NEW S, NEW a \in allocateIP(ip, S)
    PROVE  a \in Addr
<1>1. ip.addr \in Address /\ ip.addrs \in SUBSET Addr
  BY IPFields
<1> QED BY <1>1 DEF allocateIP, alreadyAllocateIP, Address, NoAddr

LEMMA LockAndAllocateStep ==
    ASSUME Good, NEW p \in Name, LockAndAllocate(p)
    PROVE  GoodStep
<1>1. /\ UNCHANGED <<pods, ips, subnet, lastUID, podCache, ipCache, subnetCache, subnetWatch,
                     podWork, iface, cni, panics, fault>>
      /\ work[p].pc = "lock" /\ lock = {}
  BY DEF LockAndAllocate, At, apiVars, cacheVars, nodeVars, histVars
<1>2. OwnersStay /\ CacheFollows
  BY <1>1, SameIPs
<1>3. CASE UNCHANGED lock /\ \E l \in Calm : Goto(p, l)
  <2>1. work' \in [Name -> Work] /\ WorkInv' /\ LockInv' /\ Harmless
    BY <1>1, <1>2, <1>3, CalmStep
  <2>2. TypeOK'
    BY <1>1, <1>3, <2>1 DEF Good, TypeOK
  <2> QED BY <2>1, <2>2 DEF GoodStep
<1>4. ASSUME NEW a \in allocateIP(work[p].ip, subnetCache.usedIP), lock' = {p},
             work' = [work EXCEPT ![p].pc = "claim", ![p].addr = a]
      PROVE  GoodStep
  <2>1. work[p].ip \in FlatNetworkIP
    BY <1>1 DEF Good, WorkInv
  <2>2. a \in Addr
    BY <2>1, allocateIPFacts
  <2>3. /\ work' \in [Name -> Work]
        /\ work'[p].pc = "claim" /\ work'[p].ip = work[p].ip /\ work'[p].addr = a
        /\ \A q \in Name \ {p} : work'[q] = work[q]
    <3> DEFINE w == [work[p] EXCEPT !.pc = "claim", !.addr = a]
    <3>1. work \in [Name -> Work]
      BY DEF Good, TypeOK
    <3>2. work' = [work EXCEPT ![p] = w]
      BY <1>4, <3>1
    <3>3. w \in Work /\ w.pc = "claim" /\ w.ip = work[p].ip /\ w.addr = a
      BY <2>2, <3>1, WorkAllocated
    <3> HIDE DEF w
    <3> QED BY <3>1, <3>2, <3>3
  <2>4. "claim" \notin Removing
    BY DEF Removing
  <2>5. WorkInv' /\ LockInv' /\ Harmless
    BY <1>1, <1>2, <1>4, <2>1, <2>2, <2>3, <2>4, WorkStep
  <2>6. TypeOK'
    BY <1>1, <1>4, <2>3 DEF Good, TypeOK
  <2> QED BY <2>5, <2>6 DEF GoodStep
<1> QED BY <1>3, <1>4 DEF LockAndAllocate, Calm

(* ClaimFails, FallbackFails and FreeFails: the lock is released, nothing is
   written *)
LEMMA UnlockStep ==
    ASSUME Good, NEW p \in Name, ClaimFails(p) \/ FallbackFails(p) \/ FreeFails(p)
    PROVE  GoodStep
<1>1. UNCHANGED <<pods, ips, subnet, lastUID, podCache, ipCache, subnetCache, subnetWatch,
                  podWork, iface, cni, panics, fault>> /\ lock' = {}
  BY DEF ClaimFails, FallbackFails, FreeFails, apiVars, cacheVars, nodeVars, histVars
<1>2. OwnersStay /\ CacheFollows
  BY <1>1, SameIPs
<1>3. \/ work[p].pc \in {"claim", "assign"} /\ Leave(p, "fail")
      \/ work[p].pc = "free" /\ Goto(p, "unfinalize")
  BY DEF ClaimFails, FallbackFails, FreeFails, AssignCanFail, At
<1>4. work' \in [Name -> Work] /\ WorkInv' /\ LockInv' /\ Harmless
  <2>1. CASE work[p].pc \in {"claim", "assign"} /\ Leave(p, "fail")
    <3>1. work[p].pc \in HoldsLock /\ "fail" \in Calm
      BY <2>1 DEF HoldsLock, Calm
    <3> QED BY <1>1, <1>2, <2>1, <3>1, CalmStep
  <2>2. CASE work[p].pc = "free" /\ Goto(p, "unfinalize")
    <3>1. work[p].pc \in HoldsLock /\ work[p].pc \in Removing /\ "unfinalize" \in PC
      BY <2>2 DEF HoldsLock, Removing, PC
    <3> QED BY <1>1, <1>2, <2>2, <3>1, MoveStep
  <2> QED BY <1>3, <2>1, <2>2
<1>5. TypeOK'
  BY <1>1, <1>4 DEF Good, TypeOK
<1> QED BY <1>4, <1>5 DEF GoodStep

LEMMA RecordFailureStep ==
    ASSUME Good, NEW p \in Name, RecordFailure(p)
    PROVE  GoodStep
<1>1. UNCHANGED <<pods, subnet, podCache, lock, podWork, lastUID, subnetCache, subnetWatch,
                  iface, cni, panics, fault>>
  BY DEF RecordFailure, envUnchanged, nodeVars, histVars
<1>2. /\ ips' \in [Name -> Objects(FlatNetworkIP)]
      /\ ipCache' \in [Name -> Objects(FlatNetworkIP)]
      /\ OwnersStay /\ CacheFollows
  BY SameIPs, PhaseEffect DEF RecordFailure, CurrentIP, Phase, Good, TypeOK
<1>3. work[p].pc = "fail" /\ "finalize" \in Calm /\ Goto(p, "finalize")
  BY DEF RecordFailure, At, Calm
<1>4. work' \in [Name -> Work] /\ WorkInv' /\ LockInv' /\ Harmless
  BY <1>1, <1>2, <1>3, CalmStep
<1>5. TypeOK'
  BY <1>1, <1>2, <1>4 DEF Good, TypeOK
<1> QED BY <1>4, <1>5 DEF GoodStep

LEMMA AddFinalizerStep ==
    ASSUME Good, NEW p \in Name, AddFinalizer(p)
    PROVE  GoodStep
<1>1. UNCHANGED <<pods, subnet, podCache, lock, podWork, lastUID, subnetCache, subnetWatch,
                  iface, cni, panics, fault>>
  BY DEF AddFinalizer, envUnchanged, nodeVars, histVars
<1>2. /\ ips' \in [Name -> Objects(FlatNetworkIP)]
      /\ ipCache' \in [Name -> Objects(FlatNetworkIP)]
      /\ OwnersStay /\ CacheFollows
  <2>1. CASE UNCHANGED <<ips, ipCache>>
    BY <2>1, SameIPs DEF Good, TypeOK
  <2>2. CASE ips[p] = work[p].ip /\ PutIP(p, [ips[p] EXCEPT !.finalizer = TRUE])
    <3> DEFINE o == [ips[p] EXCEPT !.finalizer = TRUE]
    <3>1. ips[p] \in FlatNetworkIP /\ ips[p].exists
      BY <2>2, NotIdle, IPFields DEF AddFinalizer
    <3>2. o \in FlatNetworkIP /\ o.addr = ips[p].addr /\ o.deleting = ips[p].deleting
      BY <3>1, IPMarked
    <3>3. PutIP(p, o)
      BY <2>2
    <3> HIDE DEF o
    <3> QED BY <3>1, <3>2, <3>3, PatchIPEffect
  <2> QED BY <2>1, <2>2 DEF AddFinalizer
<1>3. Done(p)
  BY DEF AddFinalizer
<1>4. work' \in [Name -> Work] /\ WorkInv' /\ LockInv' /\ Harmless
  BY <1>1, <1>2, <1>3, DoneStep
<1>5. TypeOK'
  BY <1>1, <1>2, <1>4 DEF Good, TypeOK
<1> QED BY <1>4, <1>5 DEF GoodStep

LEMMA onIPPendingStep ==
    ASSUME Good, NEW p \in Name, NEW expired \in BOOLEAN, onIPPending(p, expired)
    PROVE  GoodStep
<1>1. UNCHANGED <<ips, subnet, ipCache, lock, podWork, lastUID, subnetCache, subnetWatch,
                  iface, cni, panics, fault>>
  BY DEF onIPPending, envUnchanged, nodeVars, histVars
<1>2. pods' \in [Name -> Objects(Pod)] /\ podCache' \in [Name -> Objects(Pod)]
  BY MarkPodEffect DEF onIPPending, Good, TypeOK
<1>3. work[p].pc = "pending" /\ \E l \in Calm : Goto(p, l)
  BY DEF onIPPending, At, Calm
<1>4. work' \in [Name -> Work] /\ WorkInv' /\ LockInv' /\ Harmless
  BY <1>1, <1>3, SameIPs, CalmStep
<1>5. TypeOK'
  BY <1>1, <1>2, <1>4 DEF Good, TypeOK
<1> QED BY <1>4, <1>5 DEF GoodStep

LEMMA onIPUpdateStep ==
    ASSUME Good, NEW p \in Name, onIPUpdate(p)
    PROVE  GoodStep
<1>1. /\ UNCHANGED <<pods, subnet, podCache, lock, podWork, lastUID, subnetCache, subnetWatch,
                     iface, cni, panics, fault>>
      /\ work[p].pc = "update"
  BY DEF onIPUpdate, envUnchanged, nodeVars, histVars, At
<1>2. CASE /\ DeleteIP(p) \/ UNCHANGED <<ips, ipCache>>
           /\ \E l \in Calm : Goto(p, l)
  <2>1. /\ ips' \in [Name -> Objects(FlatNetworkIP)]
        /\ ipCache' \in [Name -> Objects(FlatNetworkIP)]
        /\ OwnersStay /\ CacheFollows
    BY <1>2, SameIPs, DeleteIPEffect DEF Good, TypeOK
  <2>2. work' \in [Name -> Work] /\ WorkInv' /\ LockInv' /\ Harmless
    BY <1>1, <1>2, <2>1, CalmStep
  <2>3. TypeOK'
    BY <1>1, <2>1, <2>2 DEF Good, TypeOK
  <2> QED BY <2>2, <2>3 DEF GoodStep
<1> DEFINE again == [ips[p] EXCEPT !.phase = ""]
<1>3. CASE /\ CurrentIP(p) /\ PutIP(p, again)
           /\ work' = [work EXCEPT ![p].pc = "finalize", ![p].ip = again]
  <2>1. ips[p].exists /\ ips[p] \in FlatNetworkIP
    BY <1>3, IPFacts DEF CurrentIP, Good, TypeOK
  <2>2. again \in FlatNetworkIP
    BY <2>1, IPPhased DEF Phase
  <2>3. /\ ips' \in [Name -> Objects(FlatNetworkIP)]
        /\ ipCache' \in [Name -> Objects(FlatNetworkIP)]
        /\ OwnersStay /\ CacheFollows
    BY <1>3, <2>1, PhaseEffect DEF Phase
  <2> HIDE DEF again
  <2> DEFINE w == [work[p] EXCEPT !.pc = "finalize", !.ip = again]
  <2>4. work \in [Name -> Work]
    BY DEF Good, TypeOK
  <2>5. work' = [work EXCEPT ![p] = w]
    BY <1>3, <2>4
  <2>6. w \in Work /\ w.pc = "finalize" /\ w.ip = again
    BY <2>2, <2>4, WorkRenewed
  <2> HIDE DEF w
  <2>7. /\ work' \in [Name -> Work] /\ work'[p].pc = "finalize" /\ work'[p].ip = again
        /\ \A q \in Name \ {p} : work'[q] = work[q]
    BY <2>4, <2>5, <2>6
  <2>8. "finalize" \notin Removing /\ "finalize" \notin HoldsLock
    BY DEF Removing, HoldsLock
  <2>9. WorkInv' /\ LockInv' /\ Harmless
    <3>1. /\ OwnersStay /\ CacheFollows /\ UNCHANGED <<subnet, fault>>
          /\ \A q \in Name \ {p} : work'[q] = work[q]
      BY <1>1, <2>3, <2>7
    <3>2. /\ work'[p].ip \in FlatNetworkIP
          /\ work'[p].pc # "claim" /\ work'[p].pc # "assign"
          /\ work'[p].pc \notin Removing /\ work'[p].pc \notin HoldsLock
      BY <2>2, <2>7, <2>8
    <3>3. lock' = lock
      BY <1>1
    <3> QED BY <3>1, <3>2, <3>3, WorkStep
  <2>10. TypeOK'
    BY <1>1, <2>3, <2>7 DEF Good, TypeOK
  <2> QED BY <2>9, <2>10 DEF GoodStep
<1> QED BY <1>2, <1>3 DEF onIPUpdate, Calm

LEMMA WaitPodRemovedStep ==
    ASSUME Good, NEW p \in Name, WaitPodRemoved(p)
    PROVE  GoodStep
<1>1. UNCHANGED <<pods, ips, subnet, lastUID, podCache, ipCache, subnetCache, subnetWatch,
                  lock, podWork, iface, cni, panics, fault>>
  BY DEF WaitPodRemoved, apiVars, cacheVars, nodeVars, histVars
<1>2. OwnersStay /\ CacheFollows
  BY <1>1, SameIPs
<1>3. work[p].pc = "remove" /\ (Goto(p, "removeLock") \/ Done(p))
  BY DEF WaitPodRemoved, At
<1>4. "removeLock" \in PC /\ "remove" \in Removing
  BY DEF PC, Removing
<1>5. work' \in [Name -> Work] /\ WorkInv' /\ LockInv' /\ Harmless
  <2>1. UNCHANGED <<subnet, fault>> /\ lock' = lock
    BY <1>1, Zenon
  <2>2. CASE Goto(p, "removeLock")
    <3>1. /\ work[p].pc # "idle" /\ work[p].pc \in Removing
          /\ "removeLock" \notin {"idle", "claim", "assign", "free"}
      BY <1>3, <1>4
    <3> QED BY <1>2, <1>4, <2>1, <2>2, <3>1, MoveStep, Zenon
  <2>3. CASE Done(p)
    BY <1>2, <2>1, <2>3, DoneStep, Zenon
  <2> QED BY <1>3, <2>2, <2>3, Zenon
<1>6. TypeOK'
  BY <1>1, <1>5 DEF Good, TypeOK
<1> QED BY <1>5, <1>6 DEF GoodStep

LEMMA RemoveLockStep ==
    ASSUME Good, NEW p \in Name, RemoveLock(p)
    PROVE  GoodStep
<1>1. UNCHANGED <<pods, ips, subnet, lastUID, podCache, ipCache, subnetCache, subnetWatch,
                  podWork, iface, cni, panics, fault>>
  BY DEF RemoveLock, apiVars, cacheVars, nodeVars, histVars
<1>2. OwnersStay /\ CacheFollows
  BY <1>1, SameIPs
<1>3. work[p].pc = "removeLock" /\ Goto(p, "free") /\ lock = {} /\ lock' = {p}
  BY DEF RemoveLock, At
<1>4. "free" \in PC /\ "removeLock" \in Removing
  BY DEF PC, Removing
<1>5. /\ work' \in [Name -> Work] /\ work'[p].pc = "free" /\ work'[p].ip = work[p].ip
      /\ \A q \in Name \ {p} : work'[q] = work[q]
  BY <1>3, <1>4, GotoEffect DEF Good
<1>6. work[p].ip \in FlatNetworkIP
  BY <1>3 DEF Good, WorkInv
<1>7. WorkInv' /\ LockInv' /\ Harmless
  <2>1. UNCHANGED <<subnet, fault>> /\ lock = {} /\ lock' = {p}
    BY <1>1, <1>3, Zenon
  <2>2. /\ work'[p].ip \in FlatNetworkIP /\ work[p].pc \in Removing
        /\ work'[p].pc # "claim" /\ work'[p].pc # "assign"
    BY <1>3, <1>4, <1>5, <1>6
  <2>3. \A q \in Name \ {p} : work'[q] = work[q]
    BY <1>5, Zenon
  <2>4. /\ work'[p].pc # "idle" => work'[p].ip \in FlatNetworkIP
        /\ work'[p].pc = "claim" => work'[p].addr \in Addr
        /\ work'[p].pc \in Removing => work[p].pc \in Removing \/ CachedDeleting(p)
        /\ \/ lock' = lock /\ work'[p].pc \notin HoldsLock
           \/ lock' = {} /\ work[p].pc \in HoldsLock /\ work'[p].pc \notin HoldsLock
           \/ lock = {} /\ lock' = {p}
    BY <2>1, <2>2, Zenon
  <2>5. UNCHANGED <<subnet, fault>> /\ work'[p].pc # "assign"
    BY <2>1, <2>2, Zenon
  <2> QED BY <1>2, <2>3, <2>4, <2>5, WorkStep, Zenon
<1>8. TypeOK'
  <2>1. lock' \subseteq Name \cup {SubnetWorker} /\ work' \in [Name -> Work]
    BY <1>3, <1>5
  <2> QED BY <1>1, <2>1 DEF Good, TypeOK
<1> QED BY <1>7, <1>8 DEF GoodStep

LEMMA RemoveFinalizerStep ==
    ASSUME Good, NEW p \in Name, RemoveFinalizer(p)
    PROVE  GoodStep
<1>1. UNCHANGED <<pods, subnet, podCache, lock, podWork, lastUID, subnetCache, subnetWatch,
                  iface, cni, panics, fault>>
  BY DEF RemoveFinalizer, envUnchanged, nodeVars, histVars
<1>2. /\ ips' \in [Name -> Objects(FlatNetworkIP)]
      /\ ipCache' \in [Name -> Objects(FlatNetworkIP)]
      /\ OwnersStay /\ CacheFollows
  BY SameIPs, NoObjectFacts, PutIPEffect, PutIPKeepsOwners
     DEF RemoveFinalizer, Good, TypeOK, Objects
<1>3. work' \in [Name -> Work] /\ WorkInv' /\ LockInv' /\ Harmless
  BY <1>1, <1>2, DoneStep DEF RemoveFinalizer
<1>4. TypeOK'
  BY <1>1, <1>2, <1>3 DEF Good, TypeOK
<1> QED BY <1>3, <1>4 DEF GoodStep

-----------------------------------------------------------------------------
(* Steps that write no address keep the invariant. *)
LEMMA DeletingOwnsNothing ==
    ASSUME NEW p \in Name, CachedDeleting(p)', ipCache'[p] = ips'[p]
    PROVE  ~Holder(p)'
BY DEF CachedDeleting, Holder, Owns

LEMMA HarmlessStep ==
    ASSUME Inv, GoodStep
    PROVE  Inv'
<1>1. RemoveInv'
  <2> SUFFICES ASSUME NEW p \in Name, (work[p].pc \in Removing \/ CachedDeleting(p))'
               PROVE  ~Holder(p)'
    BY DEF RemoveInv
  <2>1. Holder(p)' => Holder(p)
    BY DEF GoodStep, Harmless, OwnersStay, Holder
  <2>2. CASE work'[p].pc \in Removing
    BY <2>1, <2>2 DEF GoodStep, Harmless, WorkMoves, Inv, RemoveInv
  <2>3. CASE CachedDeleting(p)'
    <3>1. CASE ipCache'[p] = ipCache[p]
      BY <2>1, <2>3, <3>1 DEF CachedDeleting, Inv, RemoveInv
    <3>2. CASE ipCache'[p] = ips'[p]
      BY <2>3, <3>2, DeletingOwnsNothing
    <3> QED BY <3>1, <3>2 DEF GoodStep, Harmless, CacheFollows
  <2> QED BY <2>2, <2>3
<1>2. ClaimStands'
  BY DEF GoodStep, Harmless, WorkMoves, Inv, ClaimStands, At
<1>3. InFlight'
  <2> SUFFICES ASSUME NEW p \in Name, work'[p].pc = "assign", fault' = {},
                      NEW q \in Name \ {p}
               PROVE  ~Owns(q, work[p].addr)'
    BY DEF InFlight
  <2>1. work[p].pc = "assign" /\ work'[p].addr = work[p].addr /\ fault = {}
    BY DEF GoodStep, Harmless, WorkMoves
  <2>2. work[p].addr \in Addr
    BY <2>1 DEF Inv, WorkInv
  <2>3. ~Owns(q, work[p].addr)
    BY <2>1 DEF Inv, InFlight
  <2>4. \A b \in Addr : Owns(q, b)' => Owns(q, b)
    BY DEF GoodStep, Harmless, OwnersStay
  <2>5. \A b : Owns(q, b)' <=> (ips'[q].exists /\ ~ips'[q].deleting /\ ips'[q].addr = b)
    BY DEF Owns
  <2> QED BY <2>1, <2>2, <2>3, <2>4, <2>5 DEF Owns
<1>4. UniqueUnlessFault'
  BY DEF GoodStep, Harmless, OwnersStay, Inv, UniqueUnlessFault, UniqueAddr
<1>5. ReservedUnlessFault'
  <2>1. fault' = fault /\ subnet' = subnet /\ OwnersStay
    BY DEF GoodStep, Harmless
  <2>2. fault = {} => UsedCoversOwned /\ UsedCoversGateway
    BY DEF Inv, ReservedUnlessFault
  <2>3. UsedCoversOwned => UsedCoversOwned'
    BY <2>1 DEF OwnersStay, UsedCoversOwned
  <2>4. UsedCoversGateway => UsedCoversGateway'
    BY <2>1 DEF UsedCoversGateway
  <2> QED BY <2>1, <2>2, <2>3, <2>4 DEF ReservedUnlessFault
<1> QED BY <1>1, <1>2, <1>3, <1>4, <1>5 DEF GoodStep, Inv

-----------------------------------------------------------------------------
(* The writes of addresses.  First the claim: with the lock held, p is the only
   worker between the two writes. *)
LEMMA AloneInside ==
    ASSUME LockInv, NEW p \in Name, work[p].pc \in HoldsLock,
           NEW q \in Name, work[q].pc \in HoldsLock
    PROVE  q = p
BY DEF LockInv

LEMMA ClaimStep ==
    ASSUME Inv, NEW p \in Name, Claim(p)
    PROVE  Inv'
<1> DEFINE a == work[p].addr
           s == [subnet EXCEPT !.usedIP = @ \cup {a}]
<1>1. /\ UNCHANGED <<pods, ips, lastUID, podCache, ipCache, lock, podWork, iface, cni, panics>>
      /\ work[p].pc = "claim" /\ PutSubnet(s)
      /\ work' = [work EXCEPT ![p].pc = "assign", ![p].subnet = s]
      /\ fault' = IF NeededElsewhere(p, a) THEN fault \cup {"claimed"} ELSE fault
  BY DEF Claim, nodeVars, At, Blame
<1>2. a \in Addr /\ work[p].ip \in FlatNetworkIP
  BY <1>1 DEF Inv, WorkInv
<1>3. s \in FlatNetworkSubnet /\ s.usedIP = subnet.usedIP \cup {a}
      /\ s.statusGateway = subnet.statusGateway
  BY <1>2, SubnetGrown DEF Inv, TypeOK
<1> HIDE DEF s
<1>4. subnet' = s /\ subnetCache' \in FlatNetworkSubnet /\ subnetWatch' \in Seq(FlatNetworkSubnet)
  BY <1>1, <1>3, PutSubnetEffect DEF Inv
<1>5. /\ work' \in [Name -> Work]
      /\ work'[p].pc = "assign" /\ work'[p].ip = work[p].ip /\ work'[p].addr = a
      /\ \A q \in Name \ {p} : work'[q] = work[q]
  <2> DEFINE w == [work[p] EXCEPT !.pc = "assign", !.subnet = s]
  <2>1. work \in [Name -> Work]
    BY DEF Inv, TypeOK
  <2>2. work' = [work EXCEPT ![p] = w]
    BY <1>1, <2>1
  <2>3. w \in Work /\ w.pc = "assign" /\ w.ip = work[p].ip /\ w.addr = work[p].addr
    BY <1>3, <2>1, WorkClaimed
  <2> HIDE DEF w
  <2> QED BY <2>1, <2>2, <2>3
<1>6. \A q \in Name, b \in Addr : Owns(q, b)' <=> Owns(q, b)
  BY <1>1 DEF Owns
<1>7. /\ fault' = {} => fault = {} /\ ~NeededElsewhere(p, a)
      /\ fault' \subseteq Fault
  BY <1>1 DEF Inv, TypeOK, Fault
<1>8. \A q \in Name \ {p} : work[q].pc # "assign"
  BY <1>1, AloneInside DEF Inv, HoldsLock
<1>9. TypeOK'
  BY <1>1, <1>3, <1>4, <1>5, <1>7 DEF Inv, TypeOK
<1>10. WorkInv'
  BY <1>2, <1>5 DEF Inv, WorkInv
<1>11. LockInv'
  BY <1>1, <1>5 DEF Inv, LockInv, HoldsLock
<1>12. RemoveInv'
  BY <1>1, <1>5, <1>6 DEF Inv, RemoveInv, Removing, CachedDeleting, Holder
<1>13. ClaimStands'
  BY <1>3, <1>4, <1>5, <1>8 DEF ClaimStands, At
<1>14. InFlight'
  <2> SUFFICES ASSUME NEW r \in Name, work'[r].pc = "assign", fault' = {}, NEW q \in Name \ {r}
               PROVE  ~Owns(q, work[r].addr)'
    BY DEF InFlight
  <2>1. r = p
    BY <1>5, <1>8
  <2>2. ~Owns(q, a)
    BY <1>2, <1>7, <2>1 DEF NeededElsewhere, NoAddr
  <2> QED BY <1>1, <1>5, <2>1, <2>2 DEF Owns
<1>15. UniqueUnlessFault'
  BY <1>6, <1>7 DEF Inv, UniqueUnlessFault, UniqueAddr
<1>16. ReservedUnlessFault'
  BY <1>3, <1>4, <1>6, <1>7 DEF Inv, ReservedUnlessFault, UsedCoversOwned, UsedCoversGateway
<1> QED BY <1>9, <1>10, <1>11, <1>12, <1>13, <1>14, <1>15, <1>16 DEF Inv

LEMMA AssignStep ==
    ASSUME Inv, NEW p \in Name, Assign(p)
    PROVE  Inv'
<1> DEFINE a == work[p].addr
           ip == [ips[p] EXCEPT !.addr = a, !.phase = "Pending"]
<1>1. /\ UNCHANGED <<pods, subnet, podCache, podWork, lastUID, subnetCache, subnetWatch,
                     iface, cni, panics, fault>>
      /\ work[p].pc = "assign" /\ CurrentIP(p) /\ PutIP(p, ip) /\ lock' = {}
      /\ work' = [work EXCEPT ![p] = [Idle EXCEPT !.pc = "finalize", !.ip = ip]]
  BY DEF Assign, At, envUnchanged, nodeVars, histVars
<1>2. a \in Addr /\ a \in Address
  BY <1>1 DEF Inv, WorkInv, Address
<1>3. ipCache[p] = ips[p] /\ ips[p].exists /\ ips[p] \in FlatNetworkIP
  BY <1>1, IPFacts DEF CurrentIP, Inv, TypeOK
<1>4. ip \in FlatNetworkIP /\ ip.addr = a /\ ip.deleting = ips[p].deleting
  BY <1>2, <1>3, IPAssigned
<1> HIDE DEF ip
<1>5. ip \in Objects(FlatNetworkIP) /\ "finalize" \in PC
  BY <1>4 DEF Objects, PC
<1>6. /\ ips' \in [Name -> Objects(FlatNetworkIP)] /\ ipCache' \in [Name -> Objects(FlatNetworkIP)]
      /\ ips'[p] = ip /\ \A q \in Name \ {p} : ips'[q] = ips[q]
      /\ CacheFollows
  BY <1>1, <1>5, PutIPEffect DEF Inv
<1>7. /\ work' \in [Name -> Work] /\ work'[p].pc = "finalize" /\ work'[p].ip = ip
      /\ \A q \in Name \ {p} : work'[q] = work[q]
  <2> DEFINE w == [Idle EXCEPT !.pc = "finalize", !.ip = ip]
  <2>1. w \in Work /\ w.pc = "finalize" /\ w.ip = ip
    BY <1>5, IdleFacts, Zenon
  <2>2. work \in [Name -> Work] /\ work' = [work EXCEPT ![p] = w]
    BY <1>1, Zenon DEF Inv, TypeOK
  <2> HIDE DEF w
  <2>3. work' \in [Name -> Work] /\ work'[p] = w
    BY <2>1, <2>2, Zenon
  <2>4. \A q \in Name \ {p} : work'[q] = work[q]
    BY <2>2, Zenon
  <2> QED BY <2>1, <2>3, <2>4, Zenon
<1>8. \A q \in Name \ {p} : work[q].pc \notin HoldsLock
  BY <1>1, AloneInside DEF Inv, HoldsLock
<1>9. /\ \A q \in Name \ {p}, b \in Addr : Owns(q, b)' <=> Owns(q, b)
      /\ \A b \in Addr : Owns(p, b)' => b = a /\ ~ips[p].deleting
  BY <1>4, <1>6 DEF Owns
<1>10. TypeOK'
  BY <1>1, <1>6, <1>7 DEF Inv, TypeOK
<1>11. WorkInv'
  BY <1>4, <1>7 DEF Inv, WorkInv
<1>12. LockInv'
  BY <1>1, <1>7, <1>8 DEF LockInv, HoldsLock
<1>13. RemoveInv'
  <2> SUFFICES ASSUME NEW q \in Name, (work[q].pc \in Removing \/ CachedDeleting(q))'
               PROVE  ~Holder(q)'
    BY DEF RemoveInv
  <2>1. CASE ipCache'[q] = ips'[q] /\ CachedDeleting(q)'
    BY <2>1, DeletingOwnsNothing
  <2>2. CASE q = p /\ ipCache'[q] = ipCache[q]
    BY <1>3, <1>7, <1>9, <2>2 DEF Removing, CachedDeleting, Holder
  <2>3. CASE q # p /\ (work'[q].pc \in Removing \/ ipCache'[q] = ipCache[q])
    BY <1>7, <1>9, <2>3 DEF Inv, RemoveInv, CachedDeleting, Holder
  <2>4. "finalize" \notin Removing
    BY DEF Removing
  <2> QED BY <1>6, <1>7, <2>1, <2>2, <2>3, <2>4 DEF CacheFollows
<1>14. ClaimStands' /\ InFlight'
  BY <1>7, <1>8 DEF ClaimStands, InFlight, At, HoldsLock
<1>15. UniqueUnlessFault'
  <2> SUFFICES ASSUME fault' = {}, NEW x \in Name, NEW y \in Name, NEW b \in Addr,
                      Owns(x, b)', Owns(y, b)'
               PROVE  x = y
    BY DEF UniqueUnlessFault, UniqueAddr
  <2>1. \A q \in Name \ {p} : ~Owns(q, a)
    BY <1>1 DEF Inv, InFlight
  <2>2. fault = {} /\ UniqueAddr
    BY <1>1 DEF Inv, UniqueUnlessFault
  <2>3. CASE x # p /\ y # p
    <3>1. Owns(x, b) /\ Owns(y, b)
      BY <1>9, <2>3, Zenon
    <3> QED BY <2>2, <3>1 DEF UniqueAddr
  <2>4. CASE x = p /\ y # p
    <3>1. b = a /\ Owns(y, b)
      BY <1>9, <2>4
    <3> QED BY <2>1, <2>4, <3>1
  <2>5. CASE x # p /\ y = p
    <3>1. b = a /\ Owns(x, b)
      BY <1>9, <2>5
    <3> QED BY <2>1, <2>5, <3>1
  <2> QED BY <2>3, <2>4, <2>5, Zenon
<1>16. ReservedUnlessFault'
  <2>1. a \in subnet.usedIP
    BY <1>1 DEF Inv, ClaimStands, At
  <2> QED BY <1>1, <1>9, <2>1 DEF Inv, ReservedUnlessFault, UsedCoversOwned, UsedCoversGateway
<1> QED BY <1>10, <1>11, <1>12, <1>13, <1>14, <1>15, <1>16 DEF Inv

LEMMA FreeStep ==
    ASSUME Inv, NEW p \in Name, Free(p)
    PROVE  Inv'
<1> DEFINE a == work[p].ip.addr
           s == [subnet EXCEPT !.usedIP = @ \ {a}]
<1>1. /\ UNCHANGED <<pods, ips, lastUID, podCache, ipCache, podWork, iface, cni, panics>>
      /\ work[p].pc = "free" /\ PutSubnet(s) /\ lock' = {} /\ Goto(p, "unfinalize")
      /\ fault' = IF NeededElsewhere(p, a) THEN fault \cup {"freed"} ELSE fault
  BY DEF Free, nodeVars, At, Blame
<1>2. s \in FlatNetworkSubnet /\ s.usedIP = subnet.usedIP \ {a}
      /\ s.statusGateway = subnet.statusGateway
  BY SubnetShrunk DEF Inv, TypeOK
<1> HIDE DEF s
<1>3. subnet' = s /\ subnetCache' \in FlatNetworkSubnet /\ subnetWatch' \in Seq(FlatNetworkSubnet)
  BY <1>1, <1>2, PutSubnetEffect DEF Inv
<1>4. /\ work' \in [Name -> Work] /\ work'[p].pc = "unfinalize" /\ work'[p].ip = work[p].ip
      /\ \A q \in Name \ {p} : work'[q] = work[q]
  BY <1>1, GotoEffect DEF Inv, PC
<1>5. \A q \in Name, b \in Addr : Owns(q, b)' <=> Owns(q, b)
  BY <1>1 DEF Owns
<1>6. /\ fault' = {} => fault = {} /\ ~NeededElsewhere(p, a)
      /\ fault' \subseteq Fault
  BY <1>1 DEF Inv, TypeOK, Fault
<1>7. \A q \in Name \ {p} : work[q].pc \notin HoldsLock
  BY <1>1, AloneInside DEF Inv, HoldsLock
<1>8. \A b \in Addr : ~Owns(p, b)
  BY <1>1 DEF Inv, RemoveInv, Removing, Holder
<1>9. TypeOK'
  BY <1>1, <1>2, <1>3, <1>4, <1>6 DEF Inv, TypeOK
<1>10. WorkInv'
  BY <1>1, <1>4 DEF Inv, WorkInv
<1>11. LockInv'
  BY <1>1, <1>4, <1>7 DEF LockInv, HoldsLock
<1>12. RemoveInv'
  BY <1>1, <1>4, <1>5 DEF Inv, RemoveInv, Removing, CachedDeleting, Holder
<1>13. ClaimStands' /\ InFlight'
  BY <1>4, <1>7 DEF ClaimStands, InFlight, At, HoldsLock
<1>14. UniqueUnlessFault'
  BY <1>5, <1>6 DEF Inv, UniqueUnlessFault, UniqueAddr
<1>15. ReservedUnlessFault'
  <2> SUFFICES ASSUME fault' = {} PROVE UsedCoversOwned' /\ UsedCoversGateway'
    BY DEF ReservedUnlessFault
  <2>1. fault = {} /\ UsedCoversOwned /\ UsedCoversGateway /\ ~NeededElsewhere(p, a)
    BY <1>6 DEF Inv, ReservedUnlessFault
  <2>2. ASSUME NEW q \in Name, NEW b \in Addr, Owns(q, b)
        PROVE  b \in s.usedIP
    <3>1. b # NoAddr /\ b \in subnet.usedIP
      BY <2>1, <2>2 DEF UsedCoversOwned, NoAddr
    <3>2. q # p
      BY <1>8, <2>2
    <3>3. ASSUME b = a PROVE FALSE
      <4> HIDE DEF a
      <4>1. a # NoAddr /\ Owns(q, a) /\ q \in Name \ {p}
        BY <2>2, <3>1, <3>2, <3>3, Zenon
      <4> QED BY <2>1, <4>1, Zenon DEF NeededElsewhere
    <3> QED BY <1>2, <3>1, <3>3
  <2>3. UsedCoversOwned'
    BY <1>3, <1>5, <2>2 DEF UsedCoversOwned
  <2>4. UsedCoversGateway'
    BY <1>2, <1>3, <2>1 DEF UsedCoversGateway, NeededElsewhere
  <2> QED BY <2>3, <2>4
<1> QED BY <1>9, <1>10, <1>11, <1>12, <1>13, <1>14, <1>15 DEF Inv

(* A new process has no workers; what it finds is consistent if what the old
   one left was. *)
LEMMA RestartEffect ==
    ASSUME Inv, NEW s \in FlatNetworkSubnet, Restart(s), UNCHANGED <<pods, ips>>
    PROVE  /\ podCache' \in [Name -> Objects(Pod)] /\ podWork' \in [Name -> Objects(Pod)]
           /\ ipCache' \in [Name -> Objects(FlatNetworkIP)] /\ work' \in [Name -> Work]
           /\ subnetCache' \in FlatNetworkSubnet /\ subnetWatch' \in Seq(FlatNetworkSubnet)
           /\ lock' = {}
           /\ WorkInv' /\ LockInv' /\ RemoveInv' /\ ClaimStands' /\ InFlight'
           /\ \A q \in Name, b \in Addr : Owns(q, b)' <=> Owns(q, b)
<1>1. \A q \in Name : work'[q] = Idle /\ work'[q].pc = "idle"
  BY IdleFacts DEF Restart
<1>2. work' \in [Name -> Work]
  BY IdleFacts DEF Restart
<1>3. lock' = {} /\ ipCache' = ips'
  BY DEF Restart
<1>4. WorkInv' /\ ClaimStands' /\ InFlight'
  BY <1>1 DEF WorkInv, ClaimStands, InFlight, At
<1>5. LockInv'
  BY <1>1, <1>3 DEF LockInv, HoldsLock
<1>6. RemoveInv'
  BY <1>1, <1>3, DeletingOwnsNothing DEF RemoveInv, Removing
<1>7. \A q \in Name, b \in Addr : Owns(q, b)' <=> Owns(q, b)
  BY DEF Owns
<1>8. /\ podCache' \in [Name -> Objects(Pod)] /\ podWork' \in [Name -> Objects(Pod)]
      /\ ipCache' \in [Name -> Objects(FlatNetworkIP)]
  BY DEF Restart, Inv, TypeOK, Objects
<1>9. subnetCache' \in FlatNetworkSubnet /\ subnetWatch' \in Seq(FlatNetworkSubnet)
  BY DEF Restart
<1> QED BY <1>2, <1>3, <1>4, <1>5, <1>6, <1>7, <1>8, <1>9

LEMMA RestartsStep ==
    ASSUME Inv, Restarts
    PROVE  Inv'
<1>1. CASE Crash
  <2>1. Restart(subnet) /\ subnet \in FlatNetworkSubnet
        /\ UNCHANGED <<pods, ips, subnet, lastUID, iface, cni, panics, fault>>
    BY <1>1 DEF Crash, apiVars, nodeVars, histVars, Inv, TypeOK
  <2>2. TypeOK'
    BY <2>1, RestartEffect DEF Inv, TypeOK
  <2>3. UniqueUnlessFault' /\ ReservedUnlessFault'
    BY <2>1, RestartEffect DEF Inv, UniqueUnlessFault, UniqueAddr,
       ReservedUnlessFault, UsedCoversOwned, UsedCoversGateway
  <2> QED BY <2>1, <2>2, <2>3, RestartEffect DEF Inv
<1>2. ASSUME NEW p \in Name, FallbackPanics(p)
      PROVE  Inv'
  <2> DEFINE a == work[p].addr
             s == [subnet EXCEPT !.usedIP = @ \ {a}]
             wrong == Owns(p, a) \/ NeededElsewhere(p, a)
  <2>1. /\ UNCHANGED <<pods, ips, lastUID, iface, cni>> /\ panics' = TRUE
        /\ subnet' = s /\ Restart(s)
        /\ fault' = IF wrong THEN fault \cup {"fallback"} ELSE fault
    BY <1>2 DEF FallbackPanics, nodeVars, Blame
  <2>2. s \in FlatNetworkSubnet /\ s.usedIP = subnet.usedIP \ {a}
        /\ s.statusGateway = subnet.statusGateway
    BY SubnetShrunk DEF Inv, TypeOK
  <2> HIDE DEF s
  <2>3. /\ fault' = {} => fault = {} /\ ~Owns(p, a) /\ ~NeededElsewhere(p, a)
        /\ fault' \subseteq Fault
    BY <2>1 DEF Inv, TypeOK, Fault
  <2>4. TypeOK'
    BY <2>1, <2>2, <2>3, RestartEffect DEF Inv, TypeOK
  <2>5. UniqueUnlessFault'
    BY <2>1, <2>2, <2>3, RestartEffect DEF Inv, UniqueUnlessFault, UniqueAddr
  <2>6. ReservedUnlessFault'
    <3> SUFFICES ASSUME fault' = {} PROVE UsedCoversOwned' /\ UsedCoversGateway'
      BY DEF ReservedUnlessFault
    <3>1. UsedCoversOwned /\ UsedCoversGateway /\ ~Owns(p, a) /\ ~NeededElsewhere(p, a)
      BY <2>3 DEF Inv, ReservedUnlessFault
    <3>2. ASSUME NEW q \in Name, NEW b \in Addr, Owns(q, b)
          PROVE  b \in s.usedIP
      <4>1. b # NoAddr /\ b \in subnet.usedIP
        BY <3>1, <3>2 DEF UsedCoversOwned, NoAddr
      <4>2. ASSUME b = a PROVE FALSE
        <5> HIDE DEF a
        <5>1. a # NoAddr /\ Owns(q, a) /\ q \in Name
          BY <3>2, <4>1, <4>2, Zenon
        <5> QED BY <3>1, <5>1 DEF NeededElsewhere
      <4> QED BY <2>2, <4>1, <4>2
    <3>3. UsedCoversOwned'
      BY <2>1, <2>2, <3>2, RestartEffect DEF UsedCoversOwned
    <3>4. UsedCoversGateway'
      BY <2>1, <2>2, <3>1 DEF UsedCoversGateway, NeededElsewhere
    <3> QED BY <3>3, <3>4
  <2> QED BY <2>1, <2>2, <2>4, <2>5, <2>6, RestartEffect DEF Inv
<1> QED BY <1>1, <1>2 DEF Restarts

-----------------------------------------------------------------------------
LEMMA InitInv == Init => Inv
<1> SUFFICES ASSUME Init PROVE Inv
  OBVIOUS
<1>1. subnet \in FlatNetworkSubnet /\ UsedCoversGateway
  <2>1. PICK g \in Gateway :
            subnet = [exists |-> TRUE, phase |-> "Active", gateway |-> g,
                      statusGateway |-> g, usedIP |-> {g} \ {NoAddr}]
    BY Zenon DEF Init
  <2> DEFINE used == {g} \ {NoAddr}
  <2>2. used \in SUBSET Addr /\ (g # NoAddr => g \in used)
    BY DEF NoAddr, Address
  <2> HIDE DEF used
  <2>3. subnet = [exists |-> TRUE, phase |-> "Active", gateway |-> g,
                  statusGateway |-> g, usedIP |-> used]
    BY <2>1, Zenon DEF used
  <2>4. subnet \in FlatNetworkSubnet
    BY <2>2, <2>3 DEF FlatNetworkSubnet
  <2>5. subnet.usedIP = used /\ subnet.statusGateway = g
    BY <2>3, Zenon
  <2>6. UsedCoversGateway
    BY <2>2, <2>5, Zenon DEF UsedCoversGateway
  <2> QED BY <2>4, <2>6
<1>2. \A p \in Name : /\ work[p].pc = "idle" /\ ~ips[p].exists /\ ~ipCache[p].exists
  <2>1. /\ work = [p \in Name |-> Idle] /\ ips = [p \in Name |-> NoObject]
        /\ ipCache = ips
    BY Zenon DEF Init
  <2>2. Idle.pc = "idle" /\ ~NoObject.exists
    BY NoObjectFacts, IdleFacts, Zenon
  <2> QED BY <2>1, <2>2, Zenon
<1>3. TypeOK
  <2>1. subnetCache \in FlatNetworkSubnet /\ subnetWatch \in Seq(FlatNetworkSubnet)
    <3>1. subnetCache = subnet /\ subnetWatch = <<>>
      BY Zenon DEF Init
    <3> QED BY <1>1, <3>1
  <2>2. work \in [Name -> Work]
    BY IdleFacts, Zenon DEF Init
  <2>3. /\ pods \in [Name -> Objects(Pod)] /\ podCache \in [Name -> Objects(Pod)]
        /\ podWork \in [Name -> Objects(Pod)]
        /\ ips \in [Name -> Objects(FlatNetworkIP)]
        /\ ipCache \in [Name -> Objects(FlatNetworkIP)]
    BY DEF Init, Objects
  <2>4. lastUID \in 0 .. MaxUID
    <3>1. lastUID = 0
      BY Zenon DEF Init
    <3> QED BY <3>1
  <2>5. lock \subseteq Name \cup {SubnetWorker} /\ fault \subseteq Fault
    BY Zenon DEF Init
  <2>6. panics \in BOOLEAN
    BY DEF Init
  <2>7. iface \in [Name -> Address] /\ cni \in [Name -> {"none", "setup", "done"}]
    BY DEF Init, Address
  <2> QED BY <1>1, <2>1, <2>2, <2>3, <2>4, <2>5, <2>6, <2>7 DEF TypeOK
<1>4. WorkInv /\ RemoveInv /\ ClaimStands /\ InFlight
  BY <1>2 DEF WorkInv, RemoveInv, ClaimStands, InFlight, At, Removing, CachedDeleting,
     Holder, Owns
<1>5. LockInv
  BY <1>2 DEF Init, LockInv, HoldsLock
<1>6. UniqueUnlessFault /\ ReservedUnlessFault
  BY <1>1, <1>2 DEF UniqueUnlessFault, UniqueAddr, ReservedUnlessFault, UsedCoversOwned, Owns
<1> QED BY <1>3, <1>4, <1>5, <1>6 DEF Inv

LEMMA IPControllerStep ==
    ASSUME Inv, NEW p \in Name, IPController(p)
    PROVE  Inv'
<1>1. Good
  BY DEF Inv, Good
<1>2. CASE GoodStep
  BY <1>2, HarmlessStep
<1>3. CASE Claim(p)
  BY <1>3, ClaimStep
<1>4. CASE Assign(p)
  BY <1>4, AssignStep
<1>5. CASE Free(p)
  BY <1>5, FreeStep
<1>6. handleIP(p) \/ CheckPod(p) \/ LockAndAllocate(p) => GoodStep
  BY <1>1, handleIPStep, CheckPodStep, LockAndAllocateStep
<1>7. ClaimFails(p) \/ FallbackFails(p) \/ FreeFails(p) => GoodStep
  BY <1>1, UnlockStep
<1>8. RecordFailure(p) \/ AddFinalizer(p) \/ onIPUpdate(p) => GoodStep
  BY <1>1, RecordFailureStep, AddFinalizerStep, onIPUpdateStep
<1>9. (\E expired \in BOOLEAN : onIPPending(p, expired)) => GoodStep
  BY <1>1, onIPPendingStep
<1>10. WaitPodRemoved(p) \/ RemoveLock(p) \/ RemoveFinalizer(p) => GoodStep
  BY <1>1, WaitPodRemovedStep, RemoveLockStep, RemoveFinalizerStep
<1> QED
  BY <1>2, <1>3, <1>4, <1>5, <1>6, <1>7, <1>8, <1>9, <1>10 DEF IPController

LEMMA StepInv ==
    ASSUME Inv, Step
    PROVE  Inv'
<1>1. Good
  BY DEF Inv, Good
<1>2. ASSUME NEW p \in Name, IPController(p)
      PROVE  Inv'
  BY <1>2, IPControllerStep
<1>3. ASSUME NEW p \in Name, Environment(p) \/ Informers(p) \/ PodController(p) \/ CNIPlugin(p)
      PROVE  Inv'
  BY <1>1, <1>3, EnvironmentStep, InformerStep, PodControllerStep, CNIPluginStep, HarmlessStep
<1>4. CASE SyncSubnetCache
  BY <1>1, <1>4, SyncSubnetCacheStep, HarmlessStep
<1> QED BY <1>2, <1>3, <1>4 DEF Step

LEMMA StutterInv ==
    ASSUME Inv, UNCHANGED vars
    PROVE  Inv'
<1> USE DEF vars, apiVars, cacheVars, workVars, nodeVars, histVars
<1>1. Good /\ OwnersStay /\ CacheFollows
  BY SameIPs DEF Inv, Good
<1>2. TypeOK'
  BY DEF Inv, TypeOK
<1> QED BY <1>1, <1>2, SameWork, HarmlessStep DEF GoodStep

(* The invariant of all the writers of addresses together. *)
THEOREM Invariance == Spec => []Inv
<1>1. Inv /\ [Next]_vars => Inv'
  BY StepInv, RestartsStep, StutterInv DEF Next
<1> QED BY <1>1, InitInv, PTL DEF Spec

(* Objects, caches and workers keep their types. *)
THEOREM TypeCorrect == Spec => []TypeOK
BY Invariance, PTL DEF Inv

(* Two FlatNetworkIPs can get the same address only after one of the writes of
   Status.UsedIP that fault records: with any number of pods and addresses,
   any lag of the caches, failing API calls and crashes of the operator at any
   point, onIPCreate's two writes under the lock keep addresses unique. *)
THEOREM Uniqueness == Spec => []UniqueUnlessFault
BY Invariance, PTL DEF Inv

(* The same of the reservation: an address in use is in Status.UsedIP unless
   one of those writes took it out. *)
THEOREM Reservation == Spec => []ReservedUnlessFault
BY Invariance, PTL DEF Inv

(* Nobody takes an address out of Status.UsedIP between the two writes of
   onIPCreate, stale caches or not. *)
THEOREM ClaimsStand == Spec => []ClaimStands
BY Invariance, PTL DEF Inv

-----------------------------------------------------------------------------
(* The allocator that the operator implements. *)
OwnersOf == [a \in Addr |-> Owners(a)]

(* Initially nobody has an address. *)
LEMMA InitImplements == Init => Abstract!Init
<1> SUFFICES ASSUME Init PROVE Abstract!Init
  OBVIOUS
<1>1. \A p \in Name : ~ips[p].exists
  BY NoObjectFacts DEF Init
<1>2. \A a \in Addr : Owners(a) = {}
  BY <1>1 DEF Owners, Owns
<1>3. subnet \in FlatNetworkSubnet
  BY InitInv DEF Inv, TypeOK
<1>4. subnet.usedIP \in SUBSET Addr
  BY <1>3 DEF FlatNetworkSubnet
<1> QED BY <1>2, <1>4 DEF Abstract!Init

(* Steps that give nobody an address and leave UsedIP alone. *)
LEMMA HarmlessDrops ==
    ASSUME OwnersStay, subnet' = subnet
    PROVE  Abstract!Next
<1>1. \A a \in Addr : Owners(a)' \subseteq Owners(a) /\ Owners(a)' \subseteq Name
  BY DEF OwnersStay, Owners
<1>2. OwnersOf' \in [Addr -> SUBSET Name]
  BY <1>1 DEF OwnersOf
<1>3. \A a \in Addr : OwnersOf'[a] \subseteq OwnersOf[a]
  BY <1>1 DEF OwnersOf
<1>4. Abstract!Drop
  BY <1>2, <1>3 DEF Abstract!Drop, OwnersOf
<1> QED BY <1>4 DEF Abstract!Next

(* Writes of UsedIP that keep what is owned. *)
LEMMA KeepingReserves ==
    ASSUME \A q \in Name, b \in Addr : Owns(q, b)' <=> Owns(q, b),
           UsedCoversOwned', subnet'.usedIP \in SUBSET Addr
    PROVE  Abstract!Next
<1>1. \A a \in Addr : Owners(a)' = Owners(a)
  BY DEF Owners
<1>2. \A a \in Addr : Owners(a) # {} => a \in subnet'.usedIP
  BY <1>1 DEF Owners, UsedCoversOwned
<1>3. OwnersOf' = OwnersOf
  BY <1>1 DEF OwnersOf
<1>4. Abstract!Reserve(subnet'.usedIP)
  BY <1>2, <1>3 DEF Abstract!Reserve, OwnersOf
<1> QED BY <1>4 DEF Abstract!Next

(* The second write of onIPCreate: the claim stands, and nobody else has the
   address. *)
LEMMA AssignGives ==
    ASSUME Inv, fault = {}, NEW p \in Name, Assign(p)
    PROVE  Abstract!Next
<1> DEFINE a == work[p].addr
           ip == [ips[p] EXCEPT !.addr = a, !.phase = "Pending"]
<1>1. /\ UNCHANGED subnet /\ work[p].pc = "assign" /\ CurrentIP(p) /\ PutIP(p, ip)
  BY DEF Assign, At
<1>2. a \in Addr /\ a \in Address /\ a \in subnet.usedIP
  BY <1>1 DEF Inv, WorkInv, Address, ClaimStands, At
<1>3. ips[p].exists /\ ips[p] \in FlatNetworkIP
  BY <1>1, IPFacts DEF CurrentIP, Inv, TypeOK
<1>4. ip \in FlatNetworkIP /\ ip.addr = a /\ ip.deleting = ips[p].deleting
  BY <1>2, <1>3, IPAssigned
<1> HIDE DEF ip
<1>5. ip \in Objects(FlatNetworkIP) /\ ip.exists
  BY <1>4, IPFacts DEF Objects, FlatNetworkIP
<1>6. ips'[p] = ip /\ \A q \in Name \ {p} : ips'[q] = ips[q]
  BY <1>1, <1>5, PutIPEffect DEF Inv
<1>7. \A q \in Name \ {p}, b \in Addr : Owns(q, b)' <=> Owns(q, b)
  BY <1>6 DEF Owns
<1>8. \A q \in Name \ {p} : ~Owns(q, a)
  BY <1>1 DEF Inv, InFlight
<1>9. CASE ips[p].deleting
  <2>1. \A b \in Addr : ~Owns(p, b)'
    BY <1>4, <1>6, <1>9 DEF Owns
  <2>2. OwnersStay
    BY <1>7, <2>1 DEF OwnersStay
  <2> QED BY <1>1, <2>2, HarmlessDrops
<1>10. CASE ~ips[p].deleting
  <2>1. \A b \in Addr : Owns(p, b)' <=> b = a
    BY <1>4, <1>5, <1>6, <1>10 DEF Owns
  <2>2. \A b \in Addr : Owners(b)' = IF b = a THEN {p} ELSE Owners(b) \ {p}
    <3>1. ASSUME NEW b \in Addr, b = a PROVE Owners(b)' = {p}
      <4>1. \A q \in Name : Owns(q, b)' <=> q = p
        <5>1. Owns(p, b)'
          BY <2>1, <3>1, Zenon
        <5>2. ASSUME NEW q \in Name \ {p} PROVE ~Owns(q, b)'
          <6>1. ~Owns(q, b)
            BY <1>8, <3>1, Zenon
          <6> QED BY <1>7, <6>1, Zenon
        <5> QED BY <5>1, <5>2, Zenon
      <4> QED BY <4>1 DEF Owners
    <3>2. ASSUME NEW b \in Addr, b # a PROVE Owners(b)' = Owners(b) \ {p}
      <4>1. \A q \in Name : Owns(q, b)' <=> Owns(q, b) /\ q # p
        BY <1>7, <2>1, <3>2, Zenon
      <4> QED BY <4>1 DEF Owners
    <3> QED BY <3>1, <3>2, Zenon
  <2>3. Owners(a) \subseteq {p}
    BY <1>8 DEF Owners
  <2>4. OwnersOf' = [b \in Addr |-> IF b = a THEN {p} ELSE OwnersOf[b] \ {p}]
    BY <2>2 DEF OwnersOf
  <2>5. Abstract!Give(p, a)
    BY <1>1, <1>2, <2>3, <2>4 DEF Abstract!Give, OwnersOf
  <2> QED BY <1>2, <2>5 DEF Abstract!Next
<1> QED BY <1>3, <1>9, <1>10 DEF FlatNetworkIP

(* The writes of UsedIP alone: no FlatNetworkIP changes, and what is owned is
   still reserved afterwards, or else it was a fault. *)
LEMMA UsedIPWriteReserves ==
    ASSUME Inv', fault' = {}, UNCHANGED ips
    PROVE  Abstract!Next
<1>1. \A q \in Name, b \in Addr : Owns(q, b)' <=> Owns(q, b)
  BY DEF Owns
<1>2. UsedCoversOwned'
  BY DEF Inv, ReservedUnlessFault
<1>3. subnet' \in FlatNetworkSubnet
  BY DEF Inv, TypeOK
<1>4. subnet'.usedIP \in SUBSET Addr
  BY <1>3 DEF FlatNetworkSubnet
<1> QED BY <1>1, <1>2, <1>4, KeepingReserves

(* Every step of the IP controller. *)
LEMMA IPControllerImplements ==
    ASSUME Inv, Inv', fault' = {}, NEW p \in Name, IPController(p)
    PROVE  Abstract!Next
<1>1. Good
  BY DEF Inv, Good
<1>2. CASE GoodStep
  BY <1>2, HarmlessDrops DEF GoodStep, Harmless
<1>3. CASE Claim(p)
  BY <1>3, UsedIPWriteReserves DEF Claim
<1>4. CASE Assign(p)
  <2>1. fault = {}
    BY <1>4 DEF Assign, envUnchanged, histVars
  <2> QED BY <1>4, <2>1, AssignGives
<1>5. CASE Free(p)
  BY <1>5, UsedIPWriteReserves DEF Free
<1>6. handleIP(p) \/ CheckPod(p) \/ LockAndAllocate(p) => GoodStep
  BY <1>1, handleIPStep, CheckPodStep, LockAndAllocateStep
<1>7. ClaimFails(p) \/ FallbackFails(p) \/ FreeFails(p) => GoodStep
  BY <1>1, UnlockStep
<1>8. RecordFailure(p) \/ AddFinalizer(p) \/ onIPUpdate(p) => GoodStep
  BY <1>1, RecordFailureStep, AddFinalizerStep, onIPUpdateStep
<1>9. (\E expired \in BOOLEAN : onIPPending(p, expired)) => GoodStep
  BY <1>1, onIPPendingStep
<1>10. WaitPodRemoved(p) \/ RemoveLock(p) \/ RemoveFinalizer(p) => GoodStep
  BY <1>1, WaitPodRemovedStep, RemoveLockStep, RemoveFinalizerStep
<1> QED
  BY <1>2, <1>3, <1>4, <1>5, <1>6, <1>7, <1>8, <1>9, <1>10 DEF IPController

(* Every step at all: the others are harmless, or a new process. *)
LEMMA StepImplements ==
    ASSUME Inv, Inv', fault' = {}, Step \/ Restarts
    PROVE  Abstract!Next
<1>1. Good
  BY DEF Inv, Good
<1>2. ASSUME NEW p \in Name, IPController(p)
      PROVE  Abstract!Next
  BY <1>2, IPControllerImplements
<1>3. ASSUME NEW p \in Name, Environment(p) \/ Informers(p) \/ PodController(p) \/ CNIPlugin(p)
      PROVE  GoodStep
  BY <1>1, <1>3, EnvironmentStep, InformerStep, PodControllerStep, CNIPluginStep
<1>4. CASE SyncSubnetCache
  BY <1>1, <1>4, SyncSubnetCacheStep, HarmlessDrops DEF GoodStep, Harmless
<1>5. ASSUME NEW p \in Name, Environment(p) \/ Informers(p) \/ PodController(p) \/ CNIPlugin(p)
      PROVE  Abstract!Next
  BY <1>3, <1>5, HarmlessDrops DEF GoodStep, Harmless
<1>6. CASE Restarts
  <2>1. UNCHANGED ips
    BY <1>6 DEF Restarts, Crash, FallbackPanics, apiVars
  <2> QED BY <2>1, UsedIPWriteReserves
<1> QED BY <1>2, <1>4, <1>5, <1>6 DEF Step

(* The pod and IP controllers, with their caches, retries and crashes, implement
   the allocator of module Allocator until one of the writes that fault records:
   for any names and addresses, an address is given only when UsedIP has it and
   nobody else owns it, and UsedIP keeps what is owned. *)
THEOREM Implements == Spec => ImplementsAllocator
<1>1. Inv /\ Inv' /\ [Next]_vars => [fault' = {} => Abstract!Next]_<<ips, subnet>>
  <2> SUFFICES ASSUME Inv, Inv', [Next]_vars, fault' = {}, ~UNCHANGED <<ips, subnet>>
               PROVE  Abstract!Next
    OBVIOUS
  <2>1. Next
    BY DEF vars, apiVars
  <2> QED BY <2>1, StepImplements DEF Next
<1> QED BY <1>1, InitImplements, Invariance, PTL DEF Spec, ImplementsAllocator

(***************************************************************************)
(* The subnet controller beside them.                                      *)
(***************************************************************************)
USE SubnetWorkerIsNoName

SubnetWork == [pc : SubnetPC, gateway : Address, usedIP : SUBSET Addr]

(* whoever counts has the lock *)
RecountInv == SubnetAt("recount") => SubnetWorker \in lock

OperatorInv == Inv /\ subnetWork \in SubnetWork /\ RecountInv

-----------------------------------------------------------------------------
LEMMA SubnetWorkFacts ==
    ASSUME NEW w \in SubnetWork, NEW l \in SubnetPC, NEW u \in SUBSET Addr
    PROVE  /\ [w EXCEPT !.pc = l] \in SubnetWork
           /\ [w EXCEPT !.pc = l].pc = l
           /\ [w EXCEPT !.pc = l, !.usedIP = u] \in SubnetWork
BY DEF SubnetWork

LEMMA SubnetIdleFacts ==
    /\ SubnetIdle \in SubnetWork /\ SubnetIdle.pc = "idle"
    /\ \A l \in SubnetPC, g \in Address :
          /\ [SubnetIdle EXCEPT !.pc = l, !.gateway = g] \in SubnetWork
          /\ [SubnetIdle EXCEPT !.pc = l, !.gateway = g].pc = l
BY DEF SubnetIdle, SubnetWork, SubnetPC, Address

LEMMA SubnetGotoEffect ==
    ASSUME subnetWork \in SubnetWork, NEW l \in SubnetPC \ {"recount"},
           SubnetGoto(l) \/ SubnetDone
    PROVE  subnetWork' \in SubnetWork /\ RecountInv'
<1>1. CASE SubnetGoto(l)
  <2>1. subnetWork' \in SubnetWork /\ subnetWork'.pc = l
    BY <1>1, SubnetWorkFacts DEF SubnetGoto
  <2> QED BY <2>1 DEF RecountInv, SubnetAt
<1>2. CASE SubnetDone
  BY <1>2, SubnetIdleFacts DEF SubnetDone, RecountInv, SubnetAt
<1> QED BY <1>1, <1>2

LEMMA SubnetFields ==
    ASSUME NEW s \in FlatNetworkSubnet
    PROVE  /\ s.gateway \in Gateway /\ s.gateway \in Address
           /\ s.statusGateway \in Gateway /\ s.usedIP \in SUBSET Addr
BY GatewayAssumption DEF FlatNetworkSubnet, Address, NoAddr

(* any write of the subnet *)
LEMMA SubnetWrite ==
    ASSUME Inv, NEW o \in FlatNetworkSubnet, PutSubnet(o), UNCHANGED allButSubnet,
           fault' \in SUBSET Fault, fault' = {} => fault = {},
           lock' \subseteq lock, \A p \in Name : p \in lock => p \in lock',
           \A p \in Name : work[p].pc = "assign" => subnet.usedIP \subseteq o.usedIP,
           fault' = {} => \A p \in Name, a \in Addr : Owns(p, a) => a \in o.usedIP,
           fault' = {} => o.statusGateway \in o.usedIP \cup {NoAddr}
    PROVE  Inv'
<1> USE DEF allButSubnet, nodeVars
<1>1. subnet' = o /\ subnetCache' \in FlatNetworkSubnet /\ subnetWatch' \in Seq(FlatNetworkSubnet)
  BY PutSubnetEffect DEF Inv
<1>2. TypeOK'
  BY <1>1 DEF Inv, TypeOK
<1>3. WorkInv'
  BY DEF Inv, WorkInv
<1>4. LockInv'
  BY DEF Inv, LockInv
<1>5. RemoveInv'
  BY DEF Inv, RemoveInv, CachedDeleting, Holder, Owns
<1>6. ClaimStands'
  BY <1>1 DEF Inv, ClaimStands, At
<1>7. InFlight'
  BY DEF Inv, InFlight, Owns
<1>8. UniqueUnlessFault'
  BY DEF Inv, UniqueUnlessFault, UniqueAddr, Owns
<1>9. ReservedUnlessFault'
  BY <1>1 DEF ReservedUnlessFault, UsedCoversOwned, UsedCoversGateway, Owns
<1> QED BY <1>2, <1>3, <1>4, <1>5, <1>6, <1>7, <1>8, <1>9 DEF Inv

(* a write of the subnet that takes nothing out of UsedIP *)
LEMMA SubnetGrows ==
    ASSUME Inv, NEW o \in FlatNetworkSubnet, PutSubnet(o),
           UNCHANGED <<allButSubnet, lock, fault>>,
           subnet.usedIP \subseteq o.usedIP,
           \/ o.statusGateway = subnet.statusGateway
           \/ o.statusGateway \in o.usedIP \cup {NoAddr}
    PROVE  Inv'
<1>1. fault = {} => UsedCoversOwned /\ UsedCoversGateway
  BY DEF Inv, ReservedUnlessFault
<1>2. fault = {} => \A p \in Name, a \in Addr : Owns(p, a) => a \in o.usedIP
  BY <1>1 DEF UsedCoversOwned
<1>3. fault = {} => o.statusGateway \in o.usedIP \cup {NoAddr}
  BY <1>1 DEF UsedCoversGateway
<1>4. fault' \in SUBSET Fault
  BY DEF Inv, TypeOK
<1> QED BY <1>2, <1>3, <1>4, SubnetWrite

-----------------------------------------------------------------------------
(* Of the other workers, only one that has the lock gives it back, and only
   when nobody has it does one take it. *)
LEMMA OthersLeaveLock ==
    ASSUME Inv, Step, SubnetWorker \in lock
    PROVE  SubnetWorker \in lock'
<1> USE DEF apiVars, cacheVars, workVars, nodeVars, histVars, envUnchanged
<1>1. \A p \in Name : work[p].pc \notin HoldsLock
  BY SubnetWorkerIsNoName DEF Inv, LockInv
<1>2. lock # {}
  OBVIOUS
<1>3. ASSUME NEW p \in Name, Environment(p) \/ Informers(p) \/ PodController(p) \/ CNIPlugin(p)
      PROVE  UNCHANGED lock
  BY <1>3 DEF Environment, CreatePod, DeletePod, PodGone, CollectIP, Informers, SyncPodCache,
     SyncIPCache, PodController, PodStart, PodSync, CNIPlugin, AddConfigure, AddActivate, AddFails
<1>4. ASSUME NEW p \in Name, IPController(p)
      PROVE  UNCHANGED lock
  <2>1. work[p].pc \notin {"claim", "assign", "free"}
    BY <1>1 DEF HoldsLock
  <2>2. ~Claim(p) /\ ~ClaimFails(p) /\ ~Assign(p) /\ ~FallbackFails(p) /\ ~Free(p) /\ ~FreeFails(p)
    BY <2>1 DEF Claim, ClaimFails, Assign, FallbackFails, AssignCanFail, Free, FreeFails, At
  <2>3. ~LockAndAllocate(p) /\ ~RemoveLock(p)
    BY <1>2 DEF LockAndAllocate, RemoveLock
  <2>4. handleIP(p) \/ CheckPod(p) \/ RecordFailure(p) \/ AddFinalizer(p) => UNCHANGED lock
    BY DEF handleIP, CheckPod, RecordFailure, AddFinalizer
  <2>5. onIPUpdate(p) \/ WaitPodRemoved(p) \/ RemoveFinalizer(p) => UNCHANGED lock
    BY DEF onIPUpdate, WaitPodRemoved, RemoveFinalizer
  <2>6. (\E expired \in BOOLEAN : onIPPending(p, expired)) => UNCHANGED lock
    BY DEF onIPPending
  <2> QED BY <1>4, <2>2, <2>3, <2>4, <2>5, <2>6 DEF IPController
<1>5. SyncSubnetCache => UNCHANGED lock
  BY DEF SyncSubnetCache
<1> QED BY <1>3, <1>4, <1>5 DEF Step

LEMMA SubnetQuietStep ==
    ASSUME OperatorInv, handleSubnet \/ UpdateLabels \/ SkipSelfCheck
    PROVE  OperatorInv'
<1>1. UNCHANGED vars
  BY DEF handleSubnet, UpdateLabels, SkipSelfCheck
<1>2. Inv'
  BY <1>1, StutterInv DEF OperatorInv
<1>3. subnetWork' \in SubnetWork /\ RecountInv'
  <2>1. CASE handleSubnet
    <3> DEFINE l == IF subnetCache.phase = "Active" THEN "update" ELSE "create"
    <3>1. l \in SubnetPC /\ l # "recount" /\ subnetCache.gateway \in Address
      BY SubnetFields DEF SubnetPC, OperatorInv, Inv, TypeOK
    <3>2. subnetWork' = [SubnetIdle EXCEPT !.pc = l, !.gateway = subnetCache.gateway]
      BY <2>1 DEF handleSubnet
    <3> HIDE DEF l
    <3>3. subnetWork' \in SubnetWork /\ subnetWork'.pc = l
      BY <3>1, <3>2, SubnetIdleFacts
    <3> QED BY <3>1, <3>3 DEF RecountInv, SubnetAt
  <2>2. CASE UpdateLabels \/ SkipSelfCheck
    <3>1. \E l \in SubnetPC \ {"recount"} : SubnetGoto(l) \/ SubnetDone
      BY <2>2 DEF UpdateLabels, SkipSelfCheck, SubnetPC
    <3> QED BY <3>1, SubnetGotoEffect DEF OperatorInv
  <2> QED BY <2>1, <2>2
<1> QED BY <1>2, <1>3 DEF OperatorInv

LEMMA ChangeGatewayStep ==
    ASSUME OperatorInv, NEW g \in Gateway, ChangeGateway(g)
    PROVE  OperatorInv'
<1> DEFINE o == [subnet EXCEPT !.gateway = g]
<1>1. subnet \in FlatNetworkSubnet
  BY DEF OperatorInv, Inv, TypeOK
<1>2. o \in FlatNetworkSubnet /\ o.usedIP = subnet.usedIP /\ o.statusGateway = subnet.statusGateway
  BY <1>1 DEF FlatNetworkSubnet
<1>3. PutSubnet(o) /\ UNCHANGED <<allButSubnet, lock, fault, subnetWork>>
  BY DEF ChangeGateway
<1> HIDE DEF o
<1>4. Inv'
  BY <1>2, <1>3, SubnetGrows DEF OperatorInv
<1> QED BY <1>3, <1>4 DEF OperatorInv, RecountInv, SubnetAt

LEMMA onSubnetCreateStep ==
    ASSUME OperatorInv, onSubnetCreate
    PROVE  OperatorInv'
<1> DEFINE u == subnet.usedIP \cup ({subnet.gateway} \ {NoAddr})
           o == [subnet EXCEPT !.phase = "Active", !.usedIP = u, !.statusGateway = subnet.gateway]
<1>1. subnet \in FlatNetworkSubnet
  BY DEF OperatorInv, Inv, TypeOK
<1>2. u \in SUBSET Addr /\ subnet.gateway \in Gateway
  BY <1>1, SubnetFields DEF Address
<1>3. o \in FlatNetworkSubnet /\ o.usedIP = u /\ o.statusGateway = subnet.gateway
  BY <1>1, <1>2 DEF FlatNetworkSubnet
<1> HIDE DEF o
<1>4. ASSUME PutSubnet(o) /\ UNCHANGED <<allButSubnet, lock, fault>>
      PROVE  Inv'
  BY <1>3, <1>4, SubnetGrows DEF OperatorInv
<1>5. ASSUME UNCHANGED <<allButSubnet, lock, fault, subnet, subnetCache, subnetWatch>>
      PROVE  Inv'
  BY <1>5, StutterInv DEF OperatorInv, vars, apiVars, cacheVars, workVars, nodeVars, histVars,
     allButSubnet
<1>6. Inv'
  BY <1>4, <1>5 DEF onSubnetCreate, o
<1>7. "fail" \in SubnetPC \ {"recount"} /\ (SubnetGoto("fail") \/ SubnetDone)
  BY DEF onSubnetCreate, SubnetPC
<1> QED BY <1>6, <1>7, SubnetGotoEffect DEF OperatorInv

LEMMA RecordSubnetFailureStep ==
    ASSUME OperatorInv, RecordSubnetFailure
    PROVE  OperatorInv'
<1> DEFINE o == [subnet EXCEPT !.phase = "Failed"]
<1>1. subnet \in FlatNetworkSubnet
  BY DEF OperatorInv, Inv, TypeOK
<1>2. o \in FlatNetworkSubnet /\ o.usedIP = subnet.usedIP /\ o.statusGateway = subnet.statusGateway
  BY <1>1 DEF FlatNetworkSubnet
<1> HIDE DEF o
<1>3. ASSUME PutSubnet(o) /\ UNCHANGED <<allButSubnet, lock, fault>>
      PROVE  Inv'
  BY <1>2, <1>3, SubnetGrows DEF OperatorInv
<1>4. ASSUME UNCHANGED <<allButSubnet, lock, fault, subnet, subnetCache, subnetWatch>>
      PROVE  Inv'
  BY <1>4, StutterInv DEF OperatorInv, vars, apiVars, cacheVars, workVars, nodeVars, histVars,
     allButSubnet
<1>5. Inv'
  BY <1>3, <1>4 DEF RecordSubnetFailure, o
<1>6. "fail" \in SubnetPC \ {"recount"} /\ SubnetDone
  BY DEF RecordSubnetFailure, SubnetPC
<1> QED BY <1>5, <1>6, SubnetGotoEffect DEF OperatorInv

LEMMA CleanupStep ==
    ASSUME OperatorInv, CleanupDuplicatedIPs
    PROVE  OperatorInv'
<1> DEFINE marked == [p \in Name |-> IF p \in Listed /\ pods[p].exists
                                     THEN [pods[p] EXCEPT !.deleting = TRUE]
                                     ELSE pods[p]]
<1>1. Good /\ TypeOK
  BY DEF OperatorInv, Inv, Good
<1>2. marked \in [Name -> Objects(Pod)]
  BY <1>1, PodFacts DEF TypeOK, Objects
<1>3. /\ pods' = marked /\ podCache' = (IF CacheLag THEN podCache ELSE marked) /\ SubnetDone
      /\ UNCHANGED <<ips, subnet, lastUID, ipCache, subnetCache, subnetWatch, lock, work, podWork,
                     iface, cni, panics, fault>>
  BY DEF CleanupDuplicatedIPs, workVars, nodeVars, histVars
<1> HIDE DEF marked
<1>4. TypeOK'
  BY <1>1, <1>2, <1>3 DEF TypeOK
<1>5. GoodStep
  BY <1>1, <1>3, <1>4, SameIPs, SameWork DEF GoodStep
<1>6. Inv'
  BY <1>5, HarmlessStep DEF OperatorInv
<1>7. "idle" \in SubnetPC \ {"recount"}
  BY DEF SubnetPC
<1> QED BY <1>3, <1>6, <1>7, SubnetGotoEffect DEF OperatorInv

LEMMA CollectUsedIPStep ==
    ASSUME OperatorInv, CollectUsedIP
    PROVE  OperatorInv'
<1> DEFINE u == {ipCache[p].addr : p \in Listed} \cup ({subnetWork.gateway} \ {NoAddr})
<1>1. /\ lock = {} /\ lock' = {SubnetWorker}
      /\ subnetWork' = [subnetWork EXCEPT !.pc = "recount", !.usedIP = u]
      /\ UNCHANGED <<pods, ips, subnet, lastUID, podCache, ipCache, subnetCache, subnetWatch,
                     work, podWork, iface, cni, panics, fault>>
  BY DEF CollectUsedIP, apiVars, cacheVars, nodeVars, histVars
<1>2. Good /\ TypeOK /\ subnetWork \in SubnetWork
  BY DEF OperatorInv, Inv, Good
<1>3. u \in SUBSET Addr
  <2>1. ASSUME NEW p \in Listed
        PROVE  ipCache[p].addr \in Addr
    <3>1. /\ p \in Name /\ ipCache[p].exists /\ ipCache[p].addr # NoAddr
          /\ ipCache[p] \in Objects(FlatNetworkIP)
      BY <1>2 DEF Listed, TypeOK
    <3>2. ipCache[p].addr \in Address
      BY <3>1, IPFacts, IPFields, Zenon
    <3> QED BY <3>1, <3>2 DEF Address
  <2>2. subnetWork.gateway \in Addr \/ subnetWork.gateway = NoAddr
    BY <1>2 DEF SubnetWork, Address
  <2>3. {ipCache[p].addr : p \in Listed} \subseteq Addr
    <3>1. \A p \in Listed : ipCache[p].addr \in Addr
      BY <2>1, Zenon
    <3> QED BY <3>1, SMT
  <2>4. {subnetWork.gateway} \ {NoAddr} \subseteq Addr
    BY <2>2, Zenon
  <2> QED BY <2>3, <2>4, Zenon
<1> HIDE DEF u
<1>4. subnetWork' \in SubnetWork /\ RecountInv'
  BY <1>1, <1>2, <1>3 DEF SubnetWork, SubnetPC, RecountInv
<1>5. TypeOK'
  BY <1>1, <1>2 DEF TypeOK
<1>6. WorkInv' /\ Harmless
  BY <1>1, <1>2, SameIPs DEF Good, WorkInv, Harmless, WorkMoves
<1>7. LockInv'
  BY <1>1, <1>2 DEF Good, LockInv
<1>8. Inv'
  BY <1>5, <1>6, <1>7, HarmlessStep DEF GoodStep, OperatorInv
<1> QED BY <1>4, <1>8 DEF OperatorInv

(* while the subnet controller counts, nobody else is inside *)
LEMMA CountingAlone ==
    ASSUME OperatorInv, SubnetAt("recount")
    PROVE  \A p \in Name : p \notin lock /\ work[p].pc \notin HoldsLock
BY SubnetWorkerIsNoName DEF OperatorInv, RecountInv, Inv, LockInv

LEMMA SkipUpdateStep ==
    ASSUME OperatorInv, SkipUpdate
    PROVE  OperatorInv'
<1>1. /\ lock' = {} /\ SubnetDone /\ SubnetAt("recount")
      /\ UNCHANGED <<pods, ips, subnet, lastUID, podCache, ipCache, subnetCache, subnetWatch,
                     work, podWork, iface, cni, panics, fault>>
  BY DEF SkipUpdate, apiVars, cacheVars, nodeVars, histVars
<1>2. Good /\ TypeOK
  BY DEF OperatorInv, Inv, Good
<1>3. TypeOK'
  BY <1>1, <1>2 DEF TypeOK
<1>4. WorkInv' /\ Harmless
  BY <1>1, <1>2, SameIPs DEF Good, WorkInv, Harmless, WorkMoves
<1>5. LockInv'
  BY <1>1, CountingAlone DEF LockInv
<1>6. Inv'
  BY <1>3, <1>4, <1>5, HarmlessStep DEF GoodStep, OperatorInv
<1>7. "idle" \in SubnetPC \ {"recount"}
  BY DEF SubnetPC
<1> QED BY <1>1, <1>6, <1>7, SubnetGotoEffect DEF OperatorInv

LEMMA WriteUsedIPStep ==
    ASSUME OperatorInv, WriteUsedIP
    PROVE  OperatorInv'
<1> DEFINE u == subnetWork.usedIP
           o == [subnet EXCEPT !.usedIP = u, !.statusGateway = subnet.gateway]
           wrong == \/ subnet.gateway \notin u \cup {NoAddr}
                    \/ \E p \in Name, a \in Addr : Owns(p, a) /\ a \notin u
<1>1. /\ SubnetAt("recount") /\ lock' = {} /\ UNCHANGED allButSubnet
      /\ subnet \in FlatNetworkSubnet /\ subnetWork \in SubnetWork
      /\ fault \subseteq Fault /\ Inv
  BY DEF WriteUsedIP, OperatorInv, Inv, TypeOK
<1>2. u \in SUBSET Addr /\ subnet.gateway \in Gateway
  BY <1>1, SubnetFields DEF SubnetWork
<1>3. o \in FlatNetworkSubnet /\ o.usedIP = u /\ o.statusGateway = subnet.gateway
  BY <1>1, <1>2 DEF FlatNetworkSubnet
<1>4. \A p \in Name : p \notin lock /\ work[p].pc # "assign"
  BY <1>1, CountingAlone DEF HoldsLock
<1> HIDE DEF o
<1>5. ASSUME PutSubnet(o), Blame(wrong, "recounted")
      PROVE  Inv'
  <2>1. fault' \in SUBSET Fault /\ (fault' = {} => fault = {} /\ ~wrong)
    BY <1>1, <1>5 DEF Blame, Fault
  <2>2. /\ fault' = {} => \A p \in Name, a \in Addr : Owns(p, a) => a \in o.usedIP
        /\ fault' = {} => o.statusGateway \in o.usedIP \cup {NoAddr}
    BY <1>3, <2>1
  <2> HIDE DEF wrong
  <2> QED BY <1>1, <1>3, <1>4, <1>5, <2>1, <2>2, SubnetWrite
<1>6. ASSUME UNCHANGED <<subnet, subnetCache, subnetWatch, fault>>
      PROVE  Inv'
  <2>1. UNCHANGED <<pods, ips, subnet, lastUID, podCache, ipCache, subnetCache, subnetWatch,
                    work, podWork, iface, cni, panics, fault>>
    BY <1>1, <1>6 DEF allButSubnet, nodeVars
  <2>2. TypeOK' /\ WorkInv' /\ Harmless
    BY <1>1, <2>1, SameIPs DEF Inv, TypeOK, WorkInv, Harmless, WorkMoves
  <2>3. LockInv'
    BY <1>1, <2>1, CountingAlone DEF LockInv
  <2> QED BY <1>1, <2>2, <2>3, HarmlessStep DEF GoodStep
<1>7. Inv'
  BY <1>5, <1>6 DEF WriteUsedIP, o
<1>8. "fail" \in SubnetPC \ {"recount"} /\ (SubnetGoto("fail") \/ SubnetDone)
  BY DEF WriteUsedIP, SubnetPC
<1> QED BY <1>1, <1>7, <1>8, SubnetGotoEffect DEF OperatorInv

-----------------------------------------------------------------------------
LEMMA OperatorStep ==
    ASSUME OperatorInv, OperatorNext
    PROVE  OperatorInv'
<1>1. CASE Step /\ UNCHANGED subnetWork
  <2>1. Inv'
    BY <1>1, StepInv DEF OperatorInv
  <2>2. RecountInv'
    BY <1>1, OthersLeaveLock DEF OperatorInv, RecountInv, SubnetAt
  <2> QED BY <1>1, <2>1, <2>2 DEF OperatorInv
<1>2. CASE Restarts /\ SubnetDone
  <2>1. Inv'
    BY <1>2, RestartsStep DEF OperatorInv
  <2>2. "idle" \in SubnetPC \ {"recount"}
    BY DEF SubnetPC
  <2> QED BY <1>2, <2>1, <2>2, SubnetGotoEffect DEF OperatorInv
<1>3. CASE SubnetStep
  <2>1. CASE \E g \in Gateway : ChangeGateway(g)
    BY <2>1, ChangeGatewayStep
  <2>2. CASE handleSubnet \/ UpdateLabels \/ SkipSelfCheck
    BY <2>2, SubnetQuietStep
  <2>3. CASE onSubnetCreate \/ CleanupDuplicatedIPs \/ CollectUsedIP
    BY <2>3, onSubnetCreateStep, CleanupStep, CollectUsedIPStep
  <2>4. CASE SkipUpdate \/ WriteUsedIP \/ RecordSubnetFailure
    BY <2>4, SkipUpdateStep, WriteUsedIPStep, RecordSubnetFailureStep
  <2> QED BY <1>3, <2>1, <2>2, <2>3, <2>4 DEF SubnetStep, SubnetHandler
<1> QED BY <1>1, <1>2, <1>3 DEF OperatorNext

(* The invariant of IPAMProofs, with the subnet controller running. *)
THEOREM OperatorInvariance == OperatorSpec => []OperatorInv
<1>1. SubnetInit => OperatorInv
  BY InitInv, SubnetIdleFacts DEF SubnetInit, OperatorInv, RecountInv, SubnetAt
<1>2. OperatorInv /\ UNCHANGED allVars => OperatorInv'
  BY StutterInv DEF OperatorInv, allVars, RecountInv, SubnetAt, vars, workVars
<1>3. OperatorInv /\ [OperatorNext]_allVars => OperatorInv'
  BY <1>2, OperatorStep
<1> QED BY <1>1, <1>3, PTL DEF OperatorSpec

(* The subnet's worker, too, keeps to its types. *)
THEOREM OperatorTypeCorrect == OperatorSpec => []SubnetTypeOK
<1>1. OperatorInv => SubnetTypeOK
  BY DEF OperatorInv, Inv, SubnetTypeOK, SubnetWork
<1> QED BY <1>1, OperatorInvariance, PTL

(* Beside the subnet controller, whose onSubnetUpdate deletes pods and rewrites
   Status.UsedIP, two FlatNetworkIPs still get the same address only after a
   faulty write. *)
THEOREM OperatorUniqueness == OperatorSpec => []UniqueUnlessFault
<1>1. OperatorInv => UniqueUnlessFault
  BY DEF OperatorInv, Inv
<1> QED BY <1>1, OperatorInvariance, PTL

(* And only then is an address in use missing from Status.UsedIP, whatever the
   gateway is changed to. *)
THEOREM OperatorReservation == OperatorSpec => []ReservedUnlessFault
<1>1. OperatorInv => ReservedUnlessFault
  BY DEF OperatorInv, Inv
<1> QED BY <1>1, OperatorInvariance, PTL

(* The recount of onSubnetUpdate never drops an address between onIPCreate's
   write of Status.UsedIP and its write of the FlatNetworkIP. *)
THEOREM OperatorClaimsStand == OperatorSpec => []ClaimStands
<1>1. OperatorInv => ClaimStands
  BY DEF OperatorInv, Inv
<1> QED BY <1>1, OperatorInvariance, PTL

(* The subnet controller writes no FlatNetworkIP: all that it can do to the
   allocator is to write UsedIP. *)
LEMMA SubnetStepReserves ==
    ASSUME OperatorInv', fault' = {}, SubnetStep
    PROVE  Abstract!Next
<1>1. (\E g \in Gateway : ChangeGateway(g)) => UNCHANGED ips
  BY DEF ChangeGateway, allButSubnet
<1>2. handleSubnet \/ UpdateLabels \/ SkipSelfCheck => UNCHANGED ips
  BY DEF handleSubnet, UpdateLabels, SkipSelfCheck, vars, apiVars
<1>3. onSubnetCreate \/ CleanupDuplicatedIPs \/ RecordSubnetFailure => UNCHANGED ips
  BY DEF onSubnetCreate, CleanupDuplicatedIPs, RecordSubnetFailure, allButSubnet
<1>4. CollectUsedIP \/ SkipUpdate \/ WriteUsedIP => UNCHANGED ips
  BY DEF CollectUsedIP, SkipUpdate, WriteUsedIP, allButSubnet, apiVars
<1>5. UNCHANGED ips
  BY <1>1, <1>2, <1>3, <1>4 DEF SubnetStep, SubnetHandler
<1> QED BY <1>5, UsedIPWriteReserves DEF OperatorInv

(* The three controllers together implement the allocator of module Allocator
   until the first faulty write: the recounts of onSubnetUpdate and the changes of
   the gateway, too, are reservations that keep what is owned. *)
THEOREM OperatorImplements == OperatorSpec => ImplementsAllocator
<1>1. SubnetInit => Abstract!Init
  BY InitImplements DEF SubnetInit
<1>2. OperatorInv /\ OperatorInv' /\ [OperatorNext]_allVars
        => [fault' = {} => Abstract!Next]_<<ips, subnet>>
  <2> SUFFICES ASSUME OperatorInv, OperatorInv', [OperatorNext]_allVars, fault' = {},
                      ~UNCHANGED <<ips, subnet>>
               PROVE  Abstract!Next
    OBVIOUS
  <2>1. OperatorNext
    BY DEF allVars, vars, apiVars
  <2>2. (Step \/ Restarts) \/ SubnetStep
    BY <2>1 DEF OperatorNext
  <2> QED BY <2>2, StepImplements, SubnetStepReserves DEF OperatorInv
<1> QED BY <1>1, <1>2, OperatorInvariance, PTL DEF OperatorSpec, ImplementsAllocator
=============================================================================
