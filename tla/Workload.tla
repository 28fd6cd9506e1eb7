------------------------------ MODULE Workload ------------------------------
(***************************************************************************)
(* Workloads that ask for addresses of their own: the admission webhook    *)
(* for Deployments, DaemonSets, StatefulSets, CronJobs and Jobs            *)
(* (pkg/admission/webhook/workload.go) and the workload controller         *)
(* (pkg/controller/workload), which records the addresses of the pod       *)
(* template in Status.ReservedIP of the subnet.                            *)
(*                                                                         *)
(* The webhook reads the stored objects; the controller reads its copy of  *)
(* the workload and the cached copy of the subnet.  An update is refused   *)
(* when it is not based on the latest version, and "the latest version" is *)
(* "the stored value" here.  Ranges are sets of addresses (module          *)
(* SubnetUsedIP is about the ranges), and how pods come to have addresses  *)
(* is one step (module IPAM has the details).  Subnets are Active, and a   *)
(* template with a subnet has the network annotation too.                  *)
(***************************************************************************)
EXTENDS Naturals, Sequences, FiniteSets

CONSTANTS
    Key,             \* workloads, the keys of ReservedIP
    Kind(_),         \* the kind of a workload
    Owner(_),        \* the CronJob that created a Job, or the workload itself
    Subnet, Addr, MAC,
    Usable(_),       \* addresses of a subnet that checkIPsInSubnet accepts
    TemplatesOf(_),  \* the pod templates that users write for a workload
    Selected,        \* workloads whose pods have the workloadselector label
    WebhookIgnored,  \* workloads for which the webhook may be out of reach
    Replacing,       \* workloads whose users send manifests without the labels
    Unlabelled,      \* workloads that have no label at all
    MaxEvents        \* bound: requests of users and pods created

NoSubnet == "none"
NoMAC == "auto"

(* the annotations of a pod template; ip is "", "auto", a list, or one that
   does not parse *)
Annotations == [ip : {"", "auto", "list", "bad"}, ips : Seq(Addr), macs : Seq(MAC),
                subnet : Subnet \cup {NoSubnet}]

ASSUME NameAssumption == NoSubnet \notin Subnet /\ NoMAC \notin MAC
ASSUME AddressAssumption == Addr \subseteq Nat /\ \A s \in Subnet : Usable(s) \subseteq Addr
ASSUME TemplateAssumption == \A k \in Key : TemplatesOf(k) \subseteq Annotations
ASSUME KeyAssumption == Selected \cup WebhookIgnored \cup Replacing \cup Unlabelled \subseteq Key
ASSUME BoundAssumption == MaxEvents \in Nat

NoAnnotations == [ip |-> "", ips |-> <<>>, macs |-> <<>>, subnet |-> NoSubnet]

NoLabels == [ipType |-> "", subnet |-> NoSubnet]
NoObject == [exists |-> FALSE, deleting |-> FALSE, tmpl |-> NoAnnotations, labels |-> NoLabels]

VARIABLES
    workloads,    \* what the API server stores
    cache,        \* the informer's copy
    request,      \* a user's create or update, between the webhook and the store
    status,       \* of each subnet: ReservedIP, and the FlatNetworkIPs by workload
    subnetCache,  \* the informer's copy of status
    queue,        \* keys that wait for a worker
    work,         \* the worker that has the key
    skipped,      \* history: keys whose last call was taken for "already updated"
                  \* because of a stale copy of the subnet
    events        \* number of requests and pods so far

vars == <<workloads, cache, request, status, subnetCache, queue, work, skipped, events>>
subnetVars == <<status, subnetCache>>
userVars == <<workloads, cache, request, events>>

Elements(seq) == {seq[i] : i \in DOMAIN seq}
Distinct(seq) == \A i, j \in DOMAIN seq : seq[i] = seq[j] => i = j
Idle == [pc |-> "idle", w |-> NoAnnotations]

Init == /\ workloads = [k \in Key |-> NoObject]
        /\ cache = workloads
        /\ request = [k \in Key |-> NoObject]
        /\ status = [s \in Subnet |-> [reserved |-> [k \in Key |-> {}],
                                       pods |-> [k \in Key |-> {}]]]
        /\ subnetCache = status
        /\ queue = {}
        /\ work = [k \in Key |-> Idle]
        /\ skipped = {}
        /\ events = 0

-----------------------------------------------------------------------------
(* addresses and MACs in UsedIP and UsedMAC of a subnet *)
UsedIP(s) == {p.addr : p \in UNION {status[s].pods[k] : k \in Key}}
UsedMAC(s) == {p.mac : p \in UNION {status[s].pods[k] : k \in Key}} \ {NoMAC}

validateAnnotationIP(t) ==
    /\ t.ip # "bad"
    /\ Distinct(t.ips)
    /\ Elements(t.ips) \subseteq Usable(t.subnet)

validateAnnotationMac(t) ==
    t.macs # <<>> => /\ t.ips # <<>> => Len(t.macs) = Len(t.ips)
                     /\ Distinct(t.macs)

(* Bug variant: the workload's own reservation is held against it. *)
validateIPsInReservedOwnToo(k, t) ==
    \/ Kind(k) = "Job" /\ Owner(k) # k
    \/ \A j \in Key : status[t.subnet].reserved[j] \cap Elements(t.ips) = {}

(* Bug variant: only the first address is looked up. *)
validateIPsInReservedFirst(k, t) ==
    \/ Kind(k) = "Job" /\ Owner(k) # k
    \/ t.ips # <<>> => \A j \in Key \ {k} : t.ips[1] \notin status[t.subnet].reserved[j]

(* Jobs that a CronJob created are not compared with the reservations. *)
validateIPsInReserved(k, t) ==
    \/ Kind(k) = "Job" /\ Owner(k) # k
    \/ \A j \in Key \ {k} : status[t.subnet].reserved[j] \cap Elements(t.ips) = {}

(* the workload that the label of a FlatNetworkIP names: pods of a Deployment,
   DaemonSet or StatefulSet bring the label or have none *)
setWorkloadAndProjectLabel(k) ==
    CASE Kind(k) = "Job" -> Owner(k)
      [] Kind(k) = "CronJob" -> k
      [] OTHER -> IF k \in Selected THEN k ELSE NoSubnet

(* FlatNetworkIPs with that label, in whatever subnet *)
getWorkloadPodFlatNetworkIPs(k) ==
    UNION {status[s].pods[j] : s \in Subnet,
                               j \in {i \in Key : setWorkloadAndProjectLabel(i) = k}}

validateIPsInUsed(k, t) ==
    Elements(t.ips) \cap (UsedIP(t.subnet)
                             \ {p.addr : p \in getWorkloadPodFlatNetworkIPs(k)}) = {}

validateMACsInUsed(k, t) ==
    Elements(t.macs) \cap (UsedMAC(t.subnet)
                              \ {p.mac : p \in getWorkloadPodFlatNetworkIPs(k)}) = {}

isUpdatingWorkloadSubnetLabel(k, labels) ==
    workloads[k].exists /\ workloads[k].labels # labels

(* the webhook's answer for a workload with that template and those labels *)
validateWorkload(k, t, labels) ==
    \/ t.subnet = NoSubnet
    \/ isUpdatingWorkloadSubnetLabel(k, labels)
    \/ /\ validateAnnotationIP(t) /\ validateAnnotationMac(t)
       /\ validateIPsInReserved(k, t)
       /\ validateIPsInUsed(k, t) /\ validateMACsInUsed(k, t)

-----------------------------------------------------------------------------
(* A user creates a workload or edits its template; kubectl apply leaves the
   labels of the controller alone, kubectl replace removes them. *)
Submit(k, t, labels) ==
    /\ events < MaxEvents
    /\ ~request[k].exists
    /\ workloads[k].exists => /\ ~workloads[k].deleting
                              /\ workloads[k].tmpl # t
                              /\ labels = workloads[k].labels \/ k \in Replacing
    /\ k \in WebhookIgnored \/ validateWorkload(k, t, labels)
    /\ request' = [request EXCEPT ![k] = [exists |-> TRUE, deleting |-> FALSE,
                                         tmpl |-> t, labels |-> labels]]
    /\ events' = events + 1
    /\ UNCHANGED <<workloads, cache, subnetVars, queue, work, skipped>>

(* the update is refused when the workload was deleted or relabelled meanwhile *)
Store(k) ==
    /\ request[k].exists
    /\ workloads' = [workloads EXCEPT ![k] =
           IF ~@.exists THEN request[k]
           ELSE IF @.deleting THEN @
           ELSE [@ EXCEPT !.tmpl = request[k].tmpl,
                          !.labels = IF k \in Replacing THEN request[k].labels
                                     ELSE workloads[k].labels]]
    /\ request' = [request EXCEPT ![k] = NoObject]
    /\ UNCHANGED <<cache, subnetVars, queue, work, skipped, events>>

(* foreground deletion leaves the object with a DeletionTimestamp until its
   dependents are gone; background deletion removes it at once *)
Delete(k) ==
    /\ events < MaxEvents
    /\ workloads[k].exists /\ ~workloads[k].deleting
    /\ \/ workloads' = [workloads EXCEPT ![k].deleting = TRUE]
       \/ workloads' = [workloads EXCEPT ![k] = NoObject]
    /\ events' = events + 1
    /\ UNCHANGED <<cache, request, subnetVars, queue, work, skipped>>

Collect(k) ==
    /\ workloads[k].exists /\ workloads[k].deleting
    /\ workloads' = [workloads EXCEPT ![k] = NoObject]
    /\ UNCHANGED <<cache, request, subnetVars, queue, work, skipped, events>>

SyncCache(k) ==
    /\ cache[k] # workloads[k]
    /\ cache' = [cache EXCEPT ![k] = workloads[k]]
    /\ queue' = queue \cup {k}
    /\ UNCHANGED <<workloads, request, subnetVars, work, skipped, events>>

SyncSubnetCache(s) ==
    /\ subnetCache[s] # status[s]
    /\ subnetCache' = [subnetCache EXCEPT ![s] = status[s]]
    /\ UNCHANGED <<userVars, status, queue, work, skipped>>

-----------------------------------------------------------------------------
(* A pod of the workload gets an address and a MAC, and gives them back.  An
   address of the list must not be used; without a list it is the first one of
   the subnet that is not used, reserved or not. *)
allocateIP(t) ==
    LET free == {i \in DOMAIN t.ips : t.ips[i] \notin UsedIP(t.subnet)}
        any == Usable(t.subnet) \ UsedIP(t.subnet)
    IN IF t.ips # <<>> THEN {t.ips[i] : i \in {j \in free : \A l \in free : j <= l}}
       ELSE {a \in any : \A b \in any : a <= b}

allocateMAC(t) ==
    LET free == {i \in DOMAIN t.macs : t.macs[i] \notin UsedMAC(t.subnet)}
    IN IF t.macs = <<>> THEN {NoMAC}
       ELSE {t.macs[i] : i \in {j \in free : \A l \in free : j <= l}}

onIPCreate(k) ==
    /\ events < MaxEvents
    /\ workloads[k].exists /\ ~workloads[k].deleting
    /\ LET t == workloads[k].tmpl
       IN /\ t.subnet # NoSubnet /\ t.ip \in {"auto", "list"}
          /\ \E a \in allocateIP(t), m \in allocateMAC(t) :
                status' = [status EXCEPT ![t.subnet].pods[k] =
                              @ \cup {[addr |-> a, mac |-> m]}]
    /\ events' = events + 1
    /\ UNCHANGED <<workloads, cache, request, subnetCache, queue, work, skipped>>

handleIPRemove(k, s, p) ==
    /\ p \in status[s].pods[k]
    /\ status' = [status EXCEPT ![s].pods[k] = @ \ {p}]
    /\ UNCHANGED <<userVars, subnetCache, queue, work, skipped>>

-----------------------------------------------------------------------------
(* where the controller looks for the annotations: for a CronJob they are those
   of the Jobs that it creates, not those of their pods *)
GetTemplateObjectMeta(k, o) == IF Kind(k) = "CronJob" THEN NoAnnotations ELSE o.tmpl

getTemplateFlatNetworkLabel(t) ==
    [ipType |-> IF t.ip \in {"list", "bad"} THEN "specific" ELSE t.ip, subnet |-> t.subnet]
Enabled(t) == t.ip # "" /\ t.subnet # NoSubnet

At(k, l) == work[k].pc = l
Done(k) == work' = [work EXCEPT ![k] = Idle]

(* what syncWorkloadReservedIP and removeWorkloadReservedIP do before they look
   at the subnet *)
WithAddresses(k, l, t) ==
    /\ queue' = IF t.ip = "bad" THEN queue ELSE queue \ {k}
    /\ work' = IF t.ips # <<>> /\ t.subnet # NoSubnet
               THEN [work EXCEPT ![k] = [pc |-> l, w |-> t]] ELSE work

(* updateWorkloadLabel sends the handler's copy, without a retry.  The webhook
   takes a change of these labels for the controller's own.  The labels are put
   into the map that GetLabels returned, so that a workload without any label
   is sent as it was. *)
syncWorkload(k) ==
    LET o == cache[k]
        t == GetTemplateObjectMeta(k, o)
        labels == getTemplateFlatNetworkLabel(t)
    IN /\ k \in queue /\ At(k, "idle")
       /\ \/ /\ ~o.exists \/ (~o.deleting /\ ~Enabled(t))
             /\ queue' = queue \ {k}
             /\ UNCHANGED <<workloads, work>>
          \/ /\ o.exists /\ o.deleting
             /\ WithAddresses(k, "remove", t)
             /\ UNCHANGED workloads
          \/ /\ o.exists /\ ~o.deleting /\ Enabled(t) /\ o.labels = labels
             /\ WithAddresses(k, "reserve", t)
             /\ UNCHANGED workloads
          \/ /\ o.exists /\ ~o.deleting /\ Enabled(t) /\ o.labels # labels
             /\ workloads[k] = o
             /\ workloads' = IF k \in Unlabelled THEN workloads
                             ELSE [workloads EXCEPT ![k].labels = labels]
             /\ WithAddresses(k, "reserve", t)
       /\ UNCHANGED <<cache, request, subnetVars, skipped, events>>

(* Bug variant: the copy of the subnet is written over whatever is stored. *)
putReservedIPBlind(k, s, addrs) ==
    /\ status' = [status EXCEPT ![s] = [subnetCache[s] EXCEPT !.reserved[k] = addrs]]
    /\ Done(k)
    /\ skipped' = skipped \ {k}
    /\ UNCHANGED queue

(* Bug variant: a conflict is not retried. *)
putReservedIPOnce(k, s, addrs) ==
    /\ status' = IF subnetCache[s] = status[s]
                 THEN [status EXCEPT ![s].reserved[k] = addrs] ELSE status
    /\ Done(k)
    /\ UNCHANGED <<queue, skipped>>

(* The entry of the workload in ReservedIP becomes addrs: nothing is sent when
   the cached subnet has that entry already; a conflict is retried a few times
   and then left to the work queue. *)
putReservedIP(k, s, addrs) ==
    \/ /\ subnetCache[s].reserved[k] = addrs
       /\ skipped' = IF status[s].reserved[k] = addrs THEN skipped \ {k}
                     ELSE skipped \cup {k}
       /\ Done(k)
       /\ UNCHANGED <<status, queue>>
    \/ /\ subnetCache[s].reserved[k] # addrs /\ subnetCache[s] = status[s]
       /\ status' = [status EXCEPT ![s].reserved[k] = addrs]
       /\ skipped' = skipped \ {k}
       /\ Done(k)
       /\ UNCHANGED queue
    \/ /\ subnetCache[s].reserved[k] # addrs /\ subnetCache[s] # status[s]
       /\ queue' = queue \cup {k}
       /\ Done(k)
       /\ UNCHANGED <<status, skipped>>

syncWorkloadReservedIP(k) ==
    /\ At(k, "reserve")
    /\ putReservedIP(k, work[k].w.subnet, Elements(work[k].w.ips))
    /\ UNCHANGED <<userVars, subnetCache>>

(* Bug variant: the addresses are reserved again. *)
removeWorkloadReservedIPKept(k) ==
    /\ At(k, "remove")
    /\ putReservedIP(k, work[k].w.subnet, Elements(work[k].w.ips))
    /\ UNCHANGED <<userVars, subnetCache>>

removeWorkloadReservedIP(k) ==
    /\ At(k, "remove")
    /\ putReservedIP(k, work[k].w.subnet, {})
    /\ UNCHANGED <<userVars, subnetCache>>

-----------------------------------------------------------------------------
User(k) == \/ \E t \in TemplatesOf(k), labels \in {NoLabels} \cup
                  (IF workloads[k].exists THEN {workloads[k].labels} ELSE {}) :
                  Submit(k, t, labels)
           \/ Delete(k) \/ Collect(k)
Pods(k) == \/ onIPCreate(k)
           \/ \E s \in Subnet : \E p \in status[s].pods[k] : handleIPRemove(k, s, p)
Handler(k) == syncWorkload(k) \/ syncWorkloadReservedIP(k) \/ removeWorkloadReservedIP(k)

Next == \/ \E k \in Key : User(k) \/ Pods(k) \/ Store(k) \/ SyncCache(k) \/ Handler(k)
        \/ \E s \in Subnet : SyncSubnetCache(s)

Spec == Init /\ [][Next]_vars

(* A request that is admitted is stored, the informers catch up, and a key in
   the work queue gets a worker. *)
FairSpec == /\ Spec
            /\ \A k \in Key : WF_vars(Store(k)) /\ WF_vars(SyncCache(k)) /\ WF_vars(Handler(k))
            /\ \A s \in Subnet : WF_vars(SyncSubnetCache(s))

-----------------------------------------------------------------------------
Templates == {NoAnnotations} \cup UNION {TemplatesOf(k) : k \in Key}
Labels == [ipType : {"", "auto", "specific"}, subnet : Subnet \cup {NoSubnet}]
Object == [exists : {TRUE}, deleting : BOOLEAN, tmpl : Templates, labels : Labels]
Status == [reserved : [Key -> SUBSET Addr],
           pods : [Key -> SUBSET [addr : Addr, mac : MAC \cup {NoMAC}]]]

TypeOK == /\ workloads \in [Key -> Object \cup {NoObject}]
          /\ cache \in [Key -> Object \cup {NoObject}]
          /\ request \in [Key -> Object \cup {NoObject}]
          /\ status \in [Subnet -> Status]
          /\ subnetCache \in [Subnet -> Status]
          /\ queue \subseteq Key
          /\ work \in [Key -> [pc : {"idle", "reserve", "remove"}, w : Templates]]
          /\ skipped \subseteq Key
          /\ events \in 0 .. MaxEvents

(* Workers of several workloads, and the IP controller, update the status of one
   subnet from cached copies of it.  A worker changes the entry of its own
   workload and nothing else: no reservation and no used address is lost. *)
NoLostReservation ==
    [][\A k \in Key : work[k].pc # "idle" /\ work'[k] # work[k] =>
          \A s \in Subnet : /\ status'[s].pods = status[s].pods
                            /\ \A j \in Key \ {k} :
                                  status'[s].reserved[j] = status[s].reserved[j]]_vars

(* A workload that asks for addresses, and is not edited or deleted any more, has
   them reserved in the end, unless its handler was misled by a stale copy of the
   subnet (skipped).  The label update that comes first does not stand in the
   way: the webhook lets it pass. *)
Asks(k) == /\ workloads[k].exists /\ ~workloads[k].deleting /\ ~request[k].exists
           /\ workloads[k].tmpl.ip = "list" /\ workloads[k].tmpl.subnet # NoSubnet
Reserved(k) ==
    status[workloads[k].tmpl.subnet].reserved[k] = Elements(workloads[k].tmpl.ips)
ReservationConverges ==
    \A k \in {j \in Key : Kind(j) # "CronJob"} :
        <>[]Asks(k) => <>[](k \in skipped \/ (Asks(k) /\ Reserved(k)))

(* The reservation of a workload that the handler has seen being deleted is
   removed, however many conflicts with other writers of the subnet there are,
   unless the handler was misled by a stale copy of the subnet or the workload is
   gone before the conflict is retried: then the handler is called without the
   object, and the reservation stays. *)
DeletionReleases ==
    \A k \in Key, s \in Subnet :
        (work[k].pc = "remove" /\ work[k].w.subnet = s) ~>
            (k \in skipped \/ status[s].reserved[k] = {} \/ ~workloads[k].deleting)

(* An address that one workload has reserved, and that no other one has asked
   for, stays with it as long as it is reserved: nobody who is validated gets a
   template with that address admitted. *)
Lists(t, s, a) == t.subnet = s /\ a \in Elements(t.ips)
Wants(k, s, a) ==
    \/ workloads[k].exists /\ Lists(workloads[k].tmpl, s, a)
    \/ request[k].exists /\ Lists(request[k].tmpl, s, a)
    \/ cache[k].exists /\ Lists(cache[k].tmpl, s, a)
    \/ Lists(work[k].w, s, a)
    \/ a \in status[s].reserved[k]
Validated == {k \in Key \ (WebhookIgnored \cup Replacing) : Owner(k) = k}
Exclusive(k, s, a) == /\ a \in status[s].reserved[k]
                      /\ \A j \in Validated \ {k} : ~Wants(j, s, a)
StaysExclusive ==
    [][\A k \in Key, s \in Subnet, a \in Addr :
          Exclusive(k, s, a) /\ a \in status'[s].reserved[k] => Exclusive(k, s, a)']_vars

(* A workload whose addresses nobody else has reserved or uses can be edited:
   neither its own reservation nor its own pods, which may be on their way from
   one subnet to another, make the webhook refuse it. *)
Own(k) == {j \in Key : setWorkloadAndProjectLabel(j) = k}
EditIsAdmitted ==
    \A k \in Validated :
        LET t == workloads[k].tmpl
        IN (/\ workloads[k].exists /\ t.subnet # NoSubnet /\ k \in Own(k)
            /\ \A j \in Key \ {k} :
                   status[t.subnet].reserved[j] \cap Elements(t.ips) = {}
            /\ \A j \in Key \ Own(k) : \A p \in status[t.subnet].pods[j] :
                   p.addr \notin Elements(t.ips) /\ p.mac \notin Elements(t.macs))
           => validateWorkload(k, t, workloads[k].labels)

(* "ReservedIP is the reserved IPRange of this subnet by workloads"
   (types.go:141): no pod of another workload gets an address while it is
   reserved.  It does not hold: the allocation of an address without a list
   does not look at ReservedIP. *)
ReservedIsKept ==
    [][\A s \in Subnet, k, j \in Key : j # k =>
          \A p \in status'[s].pods[j] \ status[s].pods[j] :
              p.addr \notin status[s].reserved[k]]_vars
=============================================================================
