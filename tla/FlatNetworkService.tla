------------------------- MODULE FlatNetworkService -------------------------
(***************************************************************************)
(* The service controller (pkg/controller/service), which keeps a headless *)
(* "-flat-network" service beside every service whose pods use a flat      *)
(* network, and the ingress controller (pkg/controller/ingress), which     *)
(* annotates the backend services of an ingress.                           *)
(*                                                                         *)
(* Services are named by the number of "-flat-network" suffixes: 0 is the  *)
(* user's service, 1 its flat-network service, 2 the one that the          *)
(* controller makes for 1 should it not recognise it.  They select all     *)
(* pods or none.  A handler reads the informers' copies and then writes    *)
(* once; an update is refused unless it is based on the stored object.     *)
(***************************************************************************)
EXTENDS Naturals, Sequences, FiniteSets

CONSTANTS
    Pod,         \* pods of the workload, numbers
    Specs,       \* specs of the user's service: kind, sel, headless, port, target
    Backends,    \* services in the paths of the ingress, in their order; an ingress
                 \* without paths has no effect
    InitialPods, \* the pods at the start
    MaxPort,     \* the largest port number
    MaxEvents    \* bound: what users do to services, pods and the ingress

Name == 0 .. 2
NetAttatchDefName == "rancher-flat-network"
rancherFlatNetworkCNI == "rancher-flat-network-cni"
(* a pod is not there, does not use a flat network, uses one, or uses one and has
   the annotation that disables the service *)
PodKind == {"none", "plain", "flat", "disabled"}
ServiceKind == {"default", "ingress", "macvlan"}

ASSUME BoundAssumption == MaxPort \in Nat /\ MaxEvents \in Nat
ASSUME SpecAssumption ==
    Specs \subseteq [kind : ServiceKind, sel : BOOLEAN, headless : BOOLEAN,
                    port : 0 .. MaxPort, target : 0 .. MaxPort]
ASSUME BackendAssumption == Backends \in Seq(0 .. 1) /\ Backends # <<>>
ASSUME PodAssumption == Pod \subseteq Nat /\ InitialPods \subseteq [Pod -> PodKind]

NoService == [exists |-> FALSE, uid |-> 0, owner |-> 0, net |-> "", kind |-> "default",
              sel |-> FALSE, headless |-> FALSE, port |-> 0, target |-> 0]
NoWork == [path |-> 0, v |-> "none"]

VARIABLES
    services,   \* stored services
    svcCache,   \* the informer's copy of them
    svcQueue,   \* services that wait for a worker
    young,      \* services that are less than ten seconds old
    pods,       \* pods as stored
    podCache,   \* the informer's copy of them
    ingress,    \* the annotation of the ingress: "none" (no ingress), "on", "off"
    ingQueue,   \* the ingress waits for a worker
    ingWork,    \* the path syncIngress is at, and the annotation it has seen
    drifted,    \* history: a user has written to service 1
    missed,     \* history: service 1 was found to exist when it was to be created
    swallowed,  \* history: an update of a backend has failed or was left out because
                \* of an old copy, or a backend was replaced
    events      \* number of things that users did

svcVars == <<services, svcCache, svcQueue, young, drifted, missed>>
ingVars == <<ingress, ingQueue, ingWork, swallowed>>
podVars == <<pods, podCache>>
vars == <<svcVars, ingVars, podVars, events>>

(* The operator starts, and its informers have caught up: there may be a service
   and pods already. *)
FromSpec(spec, uid, net) ==
    [exists |-> TRUE, uid |-> uid, owner |-> 0, net |-> net, kind |-> spec.kind,
     sel |-> spec.sel, headless |-> spec.headless, port |-> spec.port, target |-> spec.target]
Init ==
    /\ \E o \in {NoService} \cup {FromSpec(spec, MaxEvents + 1, "") : spec \in Specs} :
          services = [n \in Name |-> IF n = 0 THEN o ELSE NoService]
    /\ svcCache = services
    /\ svcQueue = {n \in Name : services[n].exists} /\ young = {}
    /\ pods \in InitialPods /\ podCache = pods
    /\ ingress = "none" /\ ingQueue = FALSE /\ ingWork = NoWork
    /\ drifted = FALSE /\ missed = FALSE /\ swallowed = FALSE
    /\ events = 0

-----------------------------------------------------------------------------
(* the name's suffix, a headless ClusterIP service, and the annotation *)
IsFlatNetworkService(n, o) == n > 0 /\ o.headless /\ o.net = NetAttatchDefName
IsMacvlanV1Service(o) == o.kind = "macvlan"
isIngressService(o) == o.kind = "ingress"

(* pods that a service selects, in the informer's copy; some may be on their
   way out *)
Selected(o) == IF o.sel THEN {p \in Pod : podCache[p] # "none"} ELSE {}
IsPodEnabledFlatNetwork(pod) == pod \in {"flat", "disabled"}

isWorkloadDisabledFlatNetwork(o) ==
    \/ Selected(o) = {}
    \/ \E p \in Selected(o) : podCache[p] = "disabled"
    \/ \A p \in Selected(o) : ~IsPodEnabledFlatNetwork(podCache[p])

(* Ports of a headless service are moved by one.  A target port is a number, or
   a name, whose number is 0: what becomes of a name is port 1. *)
newFlatNetworkService(o) ==
    [exists |-> TRUE, uid |-> 0, owner |-> o.uid, net |-> NetAttatchDefName,
     kind |-> "default", sel |-> o.sel, headless |-> TRUE,
     port |-> IF o.headless THEN o.port + 1 ELSE o.port,
     target |-> IF o.headless THEN o.target + 1 ELSE o.target]

flatNetworkServiceUpdated(a, b) == [a EXCEPT !.uid = 0] = b

(* what the API server stores: ports have a limit, and whether a service is
   headless cannot be changed *)
Valid(o) == o.port <= MaxPort /\ o.target <= MaxPort
Put(n, o) == services' = [services EXCEPT ![n] = o]

-----------------------------------------------------------------------------
(* A service without a selector, or whose original is there and has a pod that
   disables it. *)
shouldDeleteFlatNetworkService(n, o) ==
    ~o.sel \/ (svcCache[n - 1].exists /\ \E p \in Selected(o) : podCache[p] = "disabled")

(* Bug variant: the service is not looked at again. *)
handleFlatNetworkServiceOnce(n) ==
    /\ svcQueue' = svcQueue \ {n}
    /\ IF shouldDeleteFlatNetworkService(n, svcCache[n]) THEN Put(n, NoService)
       ELSE UNCHANGED services
    /\ UNCHANGED missed

(* Whatever has the name now is deleted; or the service is looked at again in five
   minutes. *)
handleFlatNetworkService(n) ==
    /\ IF shouldDeleteFlatNetworkService(n, svcCache[n]) /\ services[n].exists
       THEN Put(n, NoService) /\ svcQueue' = svcQueue \ {n}
       ELSE UNCHANGED <<services, svcQueue>>
    /\ UNCHANGED missed

(* The service that is created does not bring its original back, nor does one that
   the informer has not shown yet. *)
createFlatNetworkService(n, expected) ==
    /\ svcQueue' = svcQueue \ {n}
    /\ \/ /\ ~services[n + 1].exists /\ Valid(expected)
          /\ Put(n + 1, [expected EXCEPT !.uid = events + 1])
          /\ UNCHANGED missed
       \/ /\ services[n + 1].exists
          /\ missed' = TRUE
          /\ UNCHANGED services

(* Bug variant: the update leaves the ports as they are. *)
updateFlatNetworkServicePorts(n, expected) ==
    /\ services[n + 1] = svcCache[n + 1] /\ services[n + 1].headless /\ Valid(expected)
    /\ Put(n + 1, [services[n + 1] EXCEPT !.net = expected.net, !.owner = expected.owner])
    /\ svcQueue' = (svcQueue \ {n}) \cup {n + 1}
    /\ UNCHANGED missed

(* After an update it is the flat-network service that is looked at again. *)
updateFlatNetworkService(n, expected) ==
    /\ services[n + 1] = svcCache[n + 1] /\ services[n + 1].headless /\ Valid(expected)
    /\ Put(n + 1, [expected EXCEPT !.uid = services[n + 1].uid])
    /\ svcQueue' = (svcQueue \ {n}) \cup {n + 1}
    /\ UNCHANGED missed

(* A service without pods is looked at again while it is young. *)
handleDefaultService(n) ==
    LET o == svcCache[n]
        disabled == isWorkloadDisabledFlatNetwork(o)
        expected == newFlatNetworkService(o)
        exist == svcCache[n + 1]
    IN \/ /\ disabled
          /\ svcQueue' = IF o.sel /\ Selected(o) = {} /\ n \in young THEN svcQueue
                         ELSE svcQueue \ {n}
          /\ UNCHANGED <<services, missed>>
       \/ ~disabled /\ ~exist.exists /\ createFlatNetworkService(n, expected)
       \/ /\ ~disabled /\ exist.exists /\ ~flatNetworkServiceUpdated(exist, expected)
          /\ updateFlatNetworkService(n, expected)

(* Calls that end in an error, or find service n + 1 up to date, leave n in the
   queue and change nothing. *)
syncService(n) ==
    LET o == svcCache[n]
        skip == ~o.exists \/ isIngressService(o) \/ IsMacvlanV1Service(o)
    IN /\ n \in svcQueue
       /\ \/ /\ skip
             /\ svcQueue' = svcQueue \ {n}
             /\ UNCHANGED <<services, missed>>
          \/ ~skip /\ IsFlatNetworkService(n, o) /\ handleFlatNetworkService(n)
          \/ ~skip /\ ~IsFlatNetworkService(n, o) /\ n < 2 /\ handleDefaultService(n)
       /\ UNCHANGED <<svcCache, young, drifted, ingVars, podVars, events>>

SyncService(n) ==
    /\ svcCache[n] # services[n]
    /\ svcCache' = [svcCache EXCEPT ![n] = services[n]]
    /\ svcQueue' = svcQueue \cup {n}
    /\ UNCHANGED <<services, young, drifted, missed, ingVars, podVars, events>>

Age(n) == /\ n \in young
          /\ young' = young \ {n}
          /\ UNCHANGED <<services, svcCache, svcQueue, drifted, missed, ingVars, podVars, events>>

(* Kubernetes removes a service whose owner is gone. *)
Collect(n) ==
    /\ n > 0 /\ services[n].exists /\ services[n].owner # 0
    /\ services[n].owner # services[n - 1].uid
    /\ Put(n, NoService)
    /\ UNCHANGED <<svcCache, svcQueue, young, drifted, missed, ingVars, podVars, events>>

-----------------------------------------------------------------------------
(* Bug variant: flat-network services are annotated too. *)
annotatedAny(n, o) == FALSE

(* services that syncIngress leaves alone *)
annotatedElsewhere(n, o) == IsFlatNetworkService(n, o) \/ IsMacvlanV1Service(o)

(* Bug variant: the annotation is not removed. *)
annotationKept(v) == rancherFlatNetworkCNI

(* the annotation of the backends *)
annotation(v) == IF v = "on" THEN rancherFlatNetworkCNI ELSE ""

(* A path of the ingress.  A backend that is not there ends the call, which is
   repeated; a failing update ends it for good. *)
syncIngress ==
    LET idle == ingWork.path = 0
        i == IF idle THEN 1 ELSE ingWork.path
        v == IF idle THEN ingress ELSE ingWork.v
        n == Backends[i]
        o == svcCache[n]
        skip == annotatedElsewhere(n, o) \/ o.net = annotation(v)
        done == IF i = Len(Backends) THEN NoWork ELSE [path |-> i + 1, v |-> v]
    IN /\ idle => ingQueue
       /\ \/ /\ v = "none" \/ ~o.exists
             /\ ingWork' = NoWork
             /\ ingQueue' = ((ingQueue /\ ~idle) \/ v # "none")
             /\ UNCHANGED <<services, swallowed>>
          \/ /\ v # "none" /\ o.exists /\ skip
             /\ ingWork' = done
             /\ ingQueue' = (ingQueue /\ ~idle)
             /\ swallowed' = (swallowed \/ services[n].net # o.net)
             /\ UNCHANGED services
          \/ /\ v # "none" /\ o.exists /\ ~skip /\ services[n] = o
             /\ Put(n, [o EXCEPT !.net = annotation(v)])
             /\ ingWork' = done
             /\ ingQueue' = (ingQueue /\ ~idle)
             /\ UNCHANGED swallowed
          \/ /\ v # "none" /\ o.exists /\ ~skip /\ services[n] # o
             /\ ingWork' = NoWork
             /\ ingQueue' = (ingQueue /\ ~idle)
             /\ swallowed' = TRUE
             /\ UNCHANGED services
       /\ UNCHANGED <<svcCache, svcQueue, young, drifted, missed, ingress, podVars, events>>

-----------------------------------------------------------------------------
(* What users do: to their service, *)
EditService(spec) ==
    /\ services[0].exists => \E f \in {"headless", "port", "target", "sel"} :
                                 services[0][f] # spec[f]
    /\ services[0].exists => services[0].headless = spec.headless /\ services[0].kind = spec.kind
    /\ Put(0, FromSpec(spec, IF services[0].exists THEN services[0].uid ELSE events + 1,
                       services[0].net))
    /\ young' = IF services[0].exists THEN young ELSE young \cup {0}
    /\ UNCHANGED <<svcCache, svcQueue, drifted, missed, ingVars, podVars>>

DeleteService ==
    /\ services[0].exists
    /\ Put(0, NoService)
    /\ swallowed' = TRUE
    /\ UNCHANGED <<svcCache, svcQueue, young, drifted, missed, ingress, ingQueue, ingWork,
                   podVars>>

(* to the flat-network service, which may lose its annotation or go, *)
DriftService ==
    /\ services[1].exists
    /\ \/ services[1].net # "" /\ Put(1, [services[1] EXCEPT !.net = ""])
       \/ Put(1, NoService)
    /\ drifted' = TRUE
    /\ UNCHANGED <<svcCache, svcQueue, young, missed, ingVars, podVars>>

(* to the ingress, *)
EditIngress(v) ==
    /\ ingress # v
    /\ ingress' = v
    /\ ingQueue' = TRUE
    /\ UNCHANGED <<svcVars, ingWork, swallowed, podVars>>

(* and to the workload, whose pods come and go. *)
ChangePod(p, kind) ==
    /\ pods[p] # kind /\ "none" \in {pods[p], kind}
    /\ pods' = [pods EXCEPT ![p] = kind]
    /\ UNCHANGED <<svcVars, ingVars, podCache>>

SyncPod(p) ==
    /\ podCache[p] # pods[p]
    /\ podCache' = [podCache EXCEPT ![p] = pods[p]]
    /\ UNCHANGED <<svcVars, ingVars, pods, events>>

User == /\ events < MaxEvents
        /\ events' = events + 1
        /\ \/ \E spec \in Specs : EditService(spec)
           \/ DeleteService \/ DriftService
           \/ \E v \in {"none", "on", "off"} : EditIngress(v)
           \/ \E p \in Pod, kind \in PodKind : ChangePod(p, kind)

Next == \/ User
        \/ \E n \in Name : syncService(n) \/ SyncService(n) \/ Age(n) \/ Collect(n)
        \/ syncIngress
        \/ \E p \in Pod : SyncPod(p)

Spec == Init /\ [][Next]_vars

(* Workers take what is queued, which includes the keys that were put back with a
   delay, and the informers catch up. *)
FairSpec == /\ Spec
            /\ \A n \in Name : WF_vars(syncService(n)) /\ WF_vars(SyncService(n))
            /\ WF_vars(syncIngress)
            /\ \A p \in Pod : WF_vars(SyncPod(p))

-----------------------------------------------------------------------------
Service == [exists : BOOLEAN, uid : 0 .. MaxEvents + 1, owner : 0 .. MaxEvents + 1,
            net : {"", NetAttatchDefName, rancherFlatNetworkCNI},
            kind : ServiceKind, sel : BOOLEAN, headless : BOOLEAN,
            port : 0 .. MaxPort, target : 0 .. MaxPort]
TypeOK ==
    /\ services \in [Name -> Service] /\ svcCache \in [Name -> Service]
    /\ svcQueue \subseteq Name /\ young \subseteq Name
    /\ pods \in [Pod -> PodKind] /\ podCache \in [Pod -> PodKind]
    /\ ingress \in {"none", "on", "off"} /\ ingQueue \in BOOLEAN
    /\ ingWork \in [path : 0 .. Len(Backends), v : {"none", "on", "off"}]
    /\ {drifted, missed, swallowed} \subseteq BOOLEAN
    /\ events \in 0 .. MaxEvents

(* The controller's own doing never makes it take a flat-network service for an
   ordinary one and give it a flat-network service of its own: that takes a user
   who wrote to the flat-network service. *)
NoServiceOfService == services[2].exists => drifted

(* Once the handler is called for a service that has flat-network pods, a
   flat-network service that corresponds to it exists, at once or after more
   calls; unless users change what it depends on, the port that it would need
   does not exist, or a service of that name was created behind the handler's
   back. *)
Wanted == services[0].exists /\ ~isWorkloadDisabledFlatNetwork(services[0])
          /\ services[0].kind = "default" /\ Valid(newFlatNetworkService(services[0]))
FlatServiceFollows ==
    (0 \in svcQueue /\ Wanted) ~>
        (flatNetworkServiceUpdated(services[1], newFlatNetworkService(services[0]))
         \/ ~Wanted \/ missed)

(* A flat-network service whose original is there and whose pods disable it does
   not stay. *)
DisabledIsRemoved ==
    []<>~(/\ IsFlatNetworkService(1, services[1]) /\ services[0].exists
          /\ \E p \in Pod : pods[p] = "disabled")

(* The annotation of the ingress reaches the backends that are ordinary services,
   unless one of them is not there (which holds up the others), an update fails
   (which is not repeated), an old copy of a backend looks right, or users replace
   a backend or edit the flat-network service. *)
IngressIsApplied ==
    \A v \in {"on", "off"} :
        (ingQueue /\ ingress = v) ~>
            (\/ ingress # v \/ swallowed \/ drifted
             \/ \E i \in DOMAIN Backends : ~services[Backends[i]].exists
             \/ \A i \in DOMAIN Backends :
                    LET o == services[Backends[i]]
                    IN \/ annotatedElsewhere(Backends[i], o)
                       \/ o.net = IF v = "on" THEN rancherFlatNetworkCNI ELSE "")
=============================================================================
