----------------------------- MODULE Endpoints ------------------------------
(***************************************************************************)
(* The Endpoints and the EndpointSlice controllers (pkg/controller/        *)
(* endpoints and endpointslice, with pkg/common/endpoints.go): they        *)
(* replace the addresses that Kubernetes' own controllers have written for *)
(* a service by the pods' addresses in the networks that the service's     *)
(* annotation names.                                                       *)
(*                                                                         *)
(* One service with one slice, which is for IPv4; an address is a pod, the *)
(* name of its network and a family, and ports are not modelled.  The      *)
(* service selects all pods: so does, for these controllers, a service     *)
(* without a selector.  A handler that is called with an old copy of the   *)
(* Endpoints or the slice ends in a conflict, or finds nothing to do and   *)
(* is called again for the newer one: the informers of these two do not    *)
(* lag here, those of the service and of the pods do.                      *)
(***************************************************************************)
EXTENDS Naturals, Sequences, FiniteSets

CONSTANTS
    Pod,          \* pods of the service, numbers, in the order of their names
    Kinds,        \* kinds of pods that users create
    InitialPods,  \* the pods at the start
    Namespace,    \* the namespace of the service and the pods
    Annotations,  \* values of the service's annotation: sequences of selections, each
                  \* the sequence of the parts that "/" separates
    MaxEvents     \* bound: what users do to the service and the pods

NetAttatchDefName == "rancher-flat-network"
Cluster == <<"cluster">>                      \* the cluster's network in a pod's status
Flat == <<Namespace, NetAttatchDefName>>      \* the flat network in it
ASSUME EndpointsAssumption ==
    /\ Pod \subseteq Nat /\ MaxEvents \in Nat
    /\ Kinds \subseteq {"plain", "flat", "flat6"}
    /\ <<>> \in Annotations

(* a pod is not there, does not use a flat network, or uses one with an IPv4 or an
   IPv6 address; it is up once multus has written its network status and it is
   ready *)
NoPod == [kind |-> "none", up |-> FALSE, deleting |-> FALSE]
NoService == [exists |-> FALSE, net |-> <<>>]
None == [exists |-> FALSE, addrs |-> {}, managed |-> TRUE]

VARIABLES
    svc,         \* the service
    svcCache,    \* the informer's copy of it
    pods,        \* the pods
    podCache,    \* the informer's copy of them
    endpoints,   \* corev1.Endpoints of the service
    slice,       \* discoveryv1.EndpointSlice of the service
    epQueue,     \* the Endpoints wait for a worker
    sliceQueue,  \* the slice waits for a worker
    dirty,       \* Kubernetes' controllers that have to look at the service
    outdated,    \* history: "endpoints" or "slice" was last decided on with old copies,
                 \* or the service or a pod has changed since, and no event tells
    events       \* number of things that users did

userVars == <<svc, pods, events>>
cacheVars == <<svcCache, podCache>>
vars == <<userVars, cacheVars, endpoints, slice, epQueue, sliceQueue, dirty, outdated>>

-----------------------------------------------------------------------------
(* a selection without a namespace is about the service's; there are one or two
   parts *)
parsePodNetworkSelectionElement(u) == IF Len(u) = 1 THEN <<Namespace, u[1]>> ELSE u
Parses(v) == \A i \in DOMAIN v : Len(v[i]) \in 1 .. 2
parseServiceNetworkSelections(v) == {parsePodNetworkSelectionElement(v[i]) : i \in DOMAIN v}

isInNetworkSelectionElementsArray(status, networks) ==
    (IF Len(status) = 1 THEN <<Namespace, status[1]>> ELSE status) \in networks

(* the networks in a pod's status *)
IsPodEnabledFlatNetwork(pod) == pod.kind \in {"flat", "flat6"}
NetworkStatus(pod) == {Cluster} \cup (IF IsPodEnabledFlatNetwork(pod) THEN {Flat} ELSE {})
Family(net, pod) == IF net = Flat /\ pod.kind = "flat6" THEN "IPv6" ELSE "IPv4"

getPodEndpointSubset(networks, p, pod) ==
    {<<p, status, Family(status, pod)>> :
         status \in {s \in NetworkStatus(pod) : isInNetworkSelectionElementsArray(s, networks)}}

(* pods that count in the view of a handler, and whether the status of one is missing *)
Alive(view) == {p \in Pod : view[p] # NoPod /\ ~view[p].deleting}
NotUpdated(view) == \E p \in Alive(view) : ~view[p].up
GetEndpointResources(o, view) ==
    UNION {getPodEndpointSubset(parseServiceNetworkSelections(o.net), p, view[p]) :
               p \in Alive(view)}

(* addresses are sorted by pod; a list is derived from another one if it is empty
   or a prefix of it *)
DeepDerivative(a, b) == a \subseteq b /\ (a = {} \/ \A x \in a, y \in b \ a : x[1] < y[1])

GetEndpointSliceAddressType(addrs) ==
    LET found == {x[3] : x \in addrs}
    IN IF found = {} THEN "IPv4"
       ELSE IF Cardinality(found) = 1 THEN CHOOSE t \in found : TRUE
       ELSE "both"

-----------------------------------------------------------------------------
(* the decision of a handler, for the history *)
Decide(what, right) ==
    LET fresh == podCache = pods /\ svcCache = svc
    IN outdated' = IF ~fresh THEN outdated \cup {what}
                   ELSE IF right THEN outdated \ {what} ELSE outdated

(* Bug variant: the call is not repeated. *)
endpointsEnqueueNever == epQueue' = FALSE

(* the call is repeated while a network status is missing *)
endpointsEnqueueAfter == epQueue' = TRUE

(* Bug variant: the slice is left to its own events. *)
endpointSliceEnqueueNever == sliceQueue' = sliceQueue

(* nobody but the operator updates a slice that it has taken: have it looked at *)
endpointSliceEnqueue == sliceQueue' = (sliceQueue \/ slice.exists)

(* an update is an event of its own *)
syncCoreV1Endpoints(addrs) ==
    /\ \/ /\ DeepDerivative(addrs, endpoints.addrs)
          /\ epQueue' = FALSE
          /\ Decide("endpoints", endpoints.addrs = addrs)
          /\ UNCHANGED endpoints
       \/ /\ ~DeepDerivative(addrs, endpoints.addrs)
          /\ endpoints' = [endpoints EXCEPT !.addrs = addrs]
          /\ Decide("endpoints", TRUE)
          /\ UNCHANGED epQueue
    /\ endpointSliceEnqueue

(* Without the service in the cache, or with an annotation that does not parse,
   the call ends in an error and is repeated. *)
syncEndpoints ==
    LET leave == \/ ~endpoints.exists
                 \/ svcCache.exists /\ \E p \in Pod : /\ podCache[p] # NoPod
                                                      /\ ~IsPodEnabledFlatNetwork(podCache[p])
                 \/ svcCache.exists /\ svcCache.net = <<>>
    IN /\ epQueue
       /\ \/ /\ leave
             /\ epQueue' = FALSE
             /\ Decide("endpoints", endpoints.exists)
             /\ UNCHANGED <<endpoints, sliceQueue>>
          \/ /\ ~leave /\ svcCache.exists /\ Parses(svcCache.net) /\ NotUpdated(podCache)
             /\ endpointsEnqueueAfter
             /\ UNCHANGED <<endpoints, sliceQueue, outdated>>
          \/ /\ ~leave /\ svcCache.exists /\ Parses(svcCache.net) /\ ~NotUpdated(podCache)
             /\ syncCoreV1Endpoints(GetEndpointResources(svcCache, podCache))
       /\ UNCHANGED <<userVars, cacheVars, slice, dirty>>

(* The slice is taken from Kubernetes' controller; addresses of another family, or
   of both, leave it as it is. *)
syncDiscoveryV1EndpointSlice(addrs) ==
    /\ \/ /\ slice.addrs = addrs \/ GetEndpointSliceAddressType(addrs) # "IPv4"
          /\ sliceQueue' = FALSE
          /\ UNCHANGED slice
       \/ /\ slice.addrs # addrs /\ GetEndpointSliceAddressType(addrs) = "IPv4"
          /\ slice' = [exists |-> TRUE, addrs |-> addrs, managed |-> FALSE]
          /\ UNCHANGED sliceQueue
    /\ Decide("slice", TRUE)

syncSlice ==
    LET leave == ~slice.exists \/ (svcCache.exists /\ svcCache.net = <<>>)
    IN /\ sliceQueue
       /\ \/ /\ leave
             /\ sliceQueue' = FALSE
             /\ Decide("slice", slice.exists)
             /\ UNCHANGED slice
          \/ /\ ~leave /\ svcCache.exists /\ Parses(svcCache.net) /\ ~NotUpdated(podCache)
             /\ syncDiscoveryV1EndpointSlice(GetEndpointResources(svcCache, podCache))
       /\ UNCHANGED <<userVars, cacheVars, endpoints, epQueue, dirty>>

-----------------------------------------------------------------------------
(* Kubernetes' own controllers write the cluster addresses of pods that are up,
   after a change of the service or a pod; a slice only as long as it is theirs. *)
FromKubernetes ==
    IF svc.exists
    THEN [exists |-> TRUE, managed |-> TRUE,
          addrs |-> {<<p, Cluster, "IPv4">> : p \in {q \in Alive(pods) : pods[q].up}}]
    ELSE None
Touch(what, same) == outdated' = IF same THEN outdated \cup {what} ELSE outdated

KubernetesEndpoints ==
    /\ "endpoints" \in dirty
    /\ dirty' = dirty \ {"endpoints"}
    /\ endpoints' = FromKubernetes
    /\ epQueue' = (epQueue \/ endpoints' # endpoints)
    /\ Touch("endpoints", endpoints' = endpoints)
    /\ UNCHANGED <<userVars, cacheVars, slice, sliceQueue>>

KubernetesSlice ==
    /\ "slice" \in dirty
    /\ dirty' = dirty \ {"slice"}
    /\ slice' = IF slice.managed \/ ~svc.exists THEN FromKubernetes ELSE slice
    /\ sliceQueue' = (sliceQueue \/ slice' # slice)
    /\ Touch("slice", slice' = slice /\ slice.managed)
    /\ UNCHANGED <<userVars, cacheVars, endpoints, epQueue>>

(* multus and the kubelet *)
PodUp(p) ==
    /\ p \in Alive(pods) /\ ~pods[p].up
    /\ pods' = [pods EXCEPT ![p].up = TRUE]
    /\ dirty' = {"endpoints", "slice"}
    /\ UNCHANGED <<svc, events, cacheVars, endpoints, slice, epQueue, sliceQueue, outdated>>

PodGone(p) ==
    /\ pods[p].deleting
    /\ pods' = [pods EXCEPT ![p] = NoPod]
    /\ dirty' = {"endpoints", "slice"}
    /\ UNCHANGED <<svc, events, cacheVars, endpoints, slice, epQueue, sliceQueue, outdated>>

SyncService ==
    /\ svcCache # svc
    /\ svcCache' = svc
    /\ UNCHANGED <<userVars, podCache, endpoints, slice, epQueue, sliceQueue, dirty, outdated>>

SyncPod(p) ==
    /\ podCache[p] # pods[p]
    /\ podCache' = [podCache EXCEPT ![p] = pods[p]]
    /\ UNCHANGED <<userVars, svcCache, endpoints, slice, epQueue, sliceQueue, dirty, outdated>>

(* Users create, annotate and delete the service, and pods come and go. *)
User ==
    /\ events < MaxEvents
    /\ events' = events + 1
    /\ dirty' = {"endpoints", "slice"}
    /\ \/ /\ \E o \in {NoService} \cup [exists : {TRUE}, net : Annotations] :
                 svc # o /\ svc' = o
          /\ UNCHANGED pods
       \/ /\ \E p \in Pod :
                \/ /\ pods[p] = NoPod
                   /\ \E kind \in Kinds :
                         pods' = [pods EXCEPT ![p] = [kind |-> kind, up |-> FALSE,
                                                      deleting |-> FALSE]]
                \/ /\ p \in Alive(pods)
                   /\ pods' = [pods EXCEPT ![p].deleting = TRUE]
          /\ UNCHANGED svc
    /\ UNCHANGED <<cacheVars, endpoints, slice, epQueue, sliceQueue, outdated>>

(* The operator starts, and its informers have caught up. *)
Init ==
    /\ svc \in {NoService} \cup [exists : {TRUE}, net : Annotations] /\ svcCache = svc
    /\ pods \in InitialPods /\ podCache = pods
    /\ endpoints = FromKubernetes /\ slice = FromKubernetes
    /\ epQueue = svc.exists /\ sliceQueue = svc.exists
    /\ dirty = {} /\ outdated = {} /\ events = 0

Next == \/ syncEndpoints \/ syncSlice
        \/ KubernetesEndpoints \/ KubernetesSlice
        \/ \E p \in Pod : PodUp(p) \/ PodGone(p) \/ SyncPod(p)
        \/ SyncService
        \/ User

Spec == Init /\ [][Next]_vars

(* Workers take what is queued, which includes the keys that were put back with a
   delay, informers catch up, and Kubernetes does its part. *)
FairSpec == /\ Spec
            /\ WF_vars(syncEndpoints) /\ WF_vars(syncSlice)
            /\ WF_vars(KubernetesEndpoints) /\ WF_vars(KubernetesSlice)
            /\ WF_vars(SyncService)
            /\ \A p \in Pod : WF_vars(PodUp(p)) /\ WF_vars(PodGone(p)) /\ WF_vars(SyncPod(p))

-----------------------------------------------------------------------------
(* Addresses are those that pods have in some network. *)
Addresses == [exists : BOOLEAN, managed : BOOLEAN, addrs : 
                 SUBSET (Pod \X {Cluster, Flat} \X {"IPv4", "IPv6"})]
PodType == [kind : {"none"} \cup Kinds, up : BOOLEAN, deleting : BOOLEAN]
TypeOK ==
    /\ {svc, svcCache} \subseteq [exists : BOOLEAN, net : Annotations]
    /\ pods \in [Pod -> PodType] /\ podCache \in [Pod -> PodType]
    /\ endpoints \in Addresses /\ slice \in Addresses
    /\ epQueue \in BOOLEAN /\ sliceQueue \in BOOLEAN
    /\ dirty \subseteq {"endpoints", "slice"} /\ outdated \subseteq {"endpoints", "slice"}
    /\ events \in 0 .. MaxEvents

(* A service with flat-network pods in a network of its annotation, all of them up. *)
Serves == /\ svc.exists /\ svc.net # <<>> /\ Parses(svc.net)
          /\ Flat \in parseServiceNetworkSelections(svc.net)
          /\ \A p \in Pod : pods[p] # NoPod =>
                 pods[p].up /\ ~pods[p].deleting /\ IsPodEnabledFlatNetwork(pods[p])
Right == GetEndpointResources(svc, pods)

(* "Update FlatNetwork Service Endpoints IP address" (README.md:25): if its pods
   stay, the Endpoints of a flat-network service have their flat-network addresses
   in the end, although Kubernetes writes others, unless the last decision was made
   with old copies or nothing has called for one since. *)
EndpointsFollowPods ==
    <>[]Serves => <>[](endpoints.addrs = Right \/ "endpoints" \in outdated)

(* The same for the slice, which nobody but the operator updates once it has been
   taken from Kubernetes' controller: it is the Endpoints handler that has it
   looked at.  So the slice also stays behind when nothing calls that handler. *)
SliceFollowsPods ==
    <>[](Serves /\ GetEndpointSliceAddressType(Right) = "IPv4") =>
        <>[](slice.addrs = Right \/ outdated # {})
=============================================================================
