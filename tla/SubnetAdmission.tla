-------------------------- MODULE SubnetAdmission --------------------------
(***************************************************************************)
(* How FlatNetworkSubnets become Active, and how the operator keeps two    *)
(* that conflict from being Active together: the admission webhook         *)
(* (pkg/admission/webhook/subnet.go), which the API server calls for every *)
(* create and update but those of the status, and handleSubnet             *)
(* (pkg/controller/flatnetworksubnet), which checks again.                 *)
(*                                                                         *)
(* Both look for other subnets by the labels "master" and "vlan", which    *)
(* handleSubnet itself writes, after its checks.  The webhook lists from   *)
(* the API server, handleSubnet from the informer's cache.  What           *)
(* onSubnetUpdate does about Status.UsedIP is in module SubnetController.  *)
(***************************************************************************)
EXTENDS SubnetSpec

CONSTANTS
    N,              \* number of subnets
    SpecsOf(_),     \* the specs a user may write for a name
    MaxEdits,       \* bound: creates, edits and deletions by users
    WebhookIgnored  \* the subnets for whose requests the webhook may be out of
                    \* reach (failurePolicy: Ignore)

Name == 1 .. N   \* the API server lists subnets in the order of their names

(* what the API server's schema makes of a spec *)
SubnetSpecs == [flatMode : STRING, mode : STRING, flag : STRING, master : STRING, vlan : Nat,
                cidr : [ip : Addr, bits : 0 .. W], gateway : Addr \cup {NoIP},
                ranges : Seq(IPRange), vias : SUBSET (Addr \cup {NoIP})]

ASSUME NameAssumption == N \in Nat /\ MaxEdits \in Nat /\ WebhookIgnored \subseteq Name
ASSUME SpecAssumption == \A n \in Name : SpecsOf(n) \subseteq SubnetSpecs

NoObject == [exists |-> FALSE]
NoLabels == [master |-> "", vlan |-> 0, mode |-> "", flatMode |-> ""]

VARIABLES
    subnets,   \* what the API server stores
    cache,     \* the informer's copy
    request,   \* a user's create or update, between the webhook and the store
    work,      \* the worker that has the name
    edits      \* number of users' requests so far

vars == <<subnets, cache, request, work, edits>>

Specs == UNION {SpecsOf(n) : n \in Name}
Normal(spec) == [spec EXCEPT !.cidr.ip = Network(spec.cidr)]
LabelsOf(spec) == [master |-> spec.master, vlan |-> spec.vlan,
                   mode |-> spec.mode, flatMode |-> spec.flatMode]
SameInterface(a, b) == a.master = b.master /\ a.vlan = b.vlan

FlatNetworkSubnet ==
    [exists : {TRUE}, phase : {"", "Active", "Failed"}, deleting : BOOLEAN,
     spec : Specs \cup {Normal(s) : s \in Specs},
     labels : {NoLabels} \cup {LabelsOf(s) : s \in Specs}]
Objects == FlatNetworkSubnet \cup {NoObject}
PC == {"idle", "label", "put", "again", "status", "fail", "unfinalize"}
Idle == [pc |-> "idle", obj |-> NoObject, base |-> NoObject]

Init == /\ subnets = [n \in Name |-> NoObject]
        /\ cache = subnets
        /\ request = [n \in Name |-> NoObject]
        /\ work = [n \in Name |-> Idle]
        /\ edits = 0

-----------------------------------------------------------------------------
(* the subnets of a view whose labels name the interface of the spec, and the orders in
   which they may be listed: the API server goes by name, the cache by chance *)
Listed(view, spec) ==
    {m \in Name : view[m].exists /\ SameInterface(view[m].labels, spec)}
Lists(view, spec) ==
    {[i \in DOMAIN order |-> [name |-> order[i], spec |-> view[order[i]].spec]] :
        order \in Orders(Listed(view, spec))}
ByName(list) == \A i, j \in DOMAIN list : i < j => list[i].name < list[j].name

(* Bug variant: the webhook leaves the validation to the handler. *)
validateFlatNetworkSubnetUnvalidated(n, spec) ==
    \E list \in Lists(subnets, spec) :
        /\ ByName(list)
        /\ ~CheckSubnetFlatMode(n, spec, list)
        /\ ~CheckSubnetConflict(n, spec, list)

(* the webhook's answer for an object of that name and spec *)
validateFlatNetworkSubnet(n, spec) ==
    /\ ValidateSubnet(spec)
    /\ \E list \in Lists(subnets, spec) :
          /\ ByName(list)
          /\ ~CheckSubnetFlatMode(n, spec, list)
          /\ ~CheckSubnetConflict(n, spec, list)

Admits(n, spec) == n \in WebhookIgnored \/ validateFlatNetworkSubnet(n, spec)

(* a user creates or edits a subnet: the webhook, and then the store *)
Submit(n, spec) ==
    /\ edits < MaxEdits
    /\ ~request[n].exists
    /\ subnets[n].exists => ~subnets[n].deleting /\ subnets[n].spec # spec
    /\ Admits(n, spec)
    /\ request' = [request EXCEPT ![n] = [exists |-> TRUE, spec |-> spec]]
    /\ edits' = edits + 1
    /\ UNCHANGED <<subnets, cache, work>>

Store(n) ==
    /\ request[n].exists
    /\ subnets' = [subnets EXCEPT ![n] =
                      IF subnets[n].exists THEN [@ EXCEPT !.spec = request[n].spec]
                      ELSE [exists |-> TRUE, phase |-> "", deleting |-> FALSE,
                            spec |-> request[n].spec, labels |-> NoLabels]]
    /\ request' = [request EXCEPT ![n] = NoObject]
    /\ UNCHANGED <<cache, work, edits>>

Delete(n) ==
    /\ edits < MaxEdits
    /\ subnets[n].exists /\ ~subnets[n].deleting
    /\ subnets' = [subnets EXCEPT ![n].deleting = TRUE]
    /\ edits' = edits + 1
    /\ UNCHANGED <<cache, request, work>>

SyncCache(n) ==
    /\ cache[n] # subnets[n]
    /\ cache' = [cache EXCEPT ![n] = subnets[n]]
    /\ UNCHANGED <<subnets, request, work, edits>>

-----------------------------------------------------------------------------
At(n, l) == work[n].pc = l
Goto(n, l) == work' = [work EXCEPT ![n].pc = l]
Done(n) == work' = [work EXCEPT ![n] = Idle]

(* handleSubnet: the checks of onSubnetCreate or onSubnetUpdate, which does not
   validate the spec, against the cached subnets *)
Refused(n, o, list) == \/ o.phase # "Active" /\ ~ValidateSubnet(o.spec)
                       \/ CheckSubnetFlatMode(n, o.spec, list)
                       \/ CheckSubnetConflict(n, o.spec, list)

(* Bug variant: a subnet that has failed is not looked at again. *)
handleSubnetOnce(n) ==
    LET o == cache[n]
    IN /\ At(n, "idle") /\ o.exists /\ ~o.deleting /\ o.phase # "Failed"
       /\ \E list \in Lists(cache, o.spec) :
             work' = [work EXCEPT ![n] =
                         [pc |-> IF Refused(n, o, list) THEN "fail" ELSE "label",
                          obj |-> o, base |-> NoObject]]
       /\ UNCHANGED <<subnets, cache, request, edits>>

handleSubnet(n) ==
    LET o == cache[n]
    IN /\ At(n, "idle") /\ o.exists /\ ~o.deleting
       /\ \E list \in Lists(cache, o.spec) :
             work' = [work EXCEPT ![n] =
                         [pc |-> IF Refused(n, o, list) THEN "fail" ELSE "label",
                          obj |-> o, base |-> NoObject]]
       /\ UNCHANGED <<subnets, cache, request, edits>>

(* labels and CIDR of the cached object, sent to the API server *)
Labelled(o) == [o EXCEPT !.labels = LabelsOf(o.spec), !.spec = Normal(o.spec)]

SendLabels(n) ==
    /\ At(n, "label")
    /\ \/ /\ cache[n].exists
          /\ cache[n].deleting \/ Admits(n, Normal(cache[n].spec))
          /\ work' = [work EXCEPT ![n].pc = "put", ![n].base = cache[n]]
       \/ /\ cache[n].exists
          /\ ~cache[n].deleting
          /\ ~validateFlatNetworkSubnet(n, Normal(cache[n].spec))
          /\ Goto(n, "fail")
       \/ ~cache[n].exists /\ Goto(n, "fail")
    /\ UNCHANGED <<subnets, cache, request, edits>>

(* Bug variant: the labels are not written. *)
PutLabelsForgotten(n) ==
    /\ At(n, "put")
    /\ IF work[n].obj.phase = "Active" THEN Done(n)
       ELSE work' = [work EXCEPT ![n].pc = "status", ![n].obj = subnets[n]]
    /\ UNCHANGED <<subnets, cache, request, edits>>

(* The update is refused, and retried, unless it is based on the latest
   version.  onSubnetUpdate repeats it when it has changed something. *)
PutLabels(n) ==
    LET new == Labelled(work[n].base)
        changed == new.labels # work[n].obj.labels \/ new.spec.cidr # work[n].obj.spec.cidr
    IN /\ At(n, "put")
       /\ \/ /\ subnets[n] = work[n].base
             /\ subnets' = [subnets EXCEPT ![n] = new]
             /\ IF work[n].obj.phase = "Active" /\ ~changed THEN Done(n)
                ELSE work' = [work EXCEPT
                                ![n].pc = IF work[n].obj.phase = "Active" THEN "again"
                                          ELSE "status",
                                ![n].base = new]
          \/ /\ subnets[n] # work[n].base
             /\ Goto(n, "label") \/ Goto(n, "fail")
             /\ UNCHANGED subnets
       /\ UNCHANGED <<cache, request, edits>>

PutAgain(n) ==
    /\ At(n, "again")
    /\ \/ /\ work[n].base.deleting \/ Admits(n, work[n].base.spec)
          /\ IF subnets[n] = work[n].base THEN Done(n)
             ELSE Goto(n, "label") \/ Goto(n, "fail")
       \/ /\ ~work[n].base.deleting
          /\ ~validateFlatNetworkSubnet(n, work[n].base.spec)
          /\ Goto(n, "fail")
    /\ UNCHANGED <<subnets, cache, request, edits>>

(* onSubnetCreate: UpdateStatus of the object that the label update returned,
   without a retry *)
SetActive(n) ==
    /\ At(n, "status")
    /\ \/ /\ subnets[n] = work[n].base
          /\ subnets' = [subnets EXCEPT ![n].phase = "Active"]
          /\ Done(n)
       \/ /\ subnets[n] # work[n].base
          /\ Goto(n, "fail")
          /\ UNCHANGED subnets
    /\ UNCHANGED <<cache, request, edits>>

(* handleError: phase Failed, unless the message is recorded already or the
   cached object is not the latest one *)
RecordFailure(n) ==
    /\ At(n, "fail")
    /\ \/ /\ cache[n].exists /\ cache[n] = subnets[n]
          /\ subnets' = [subnets EXCEPT ![n].phase = "Failed"]
       \/ /\ work[n].obj.phase = "Failed" \/ cache[n] # subnets[n] \/ ~cache[n].exists
          /\ UNCHANGED subnets
    /\ Done(n)
    /\ UNCHANGED <<cache, request, edits>>

(* handleSubnetRemove: IPs of the subnet are only reported, and the phase is
   reset.  Then the finalizer is removed, or all of it is done again. *)
handleSubnetRemove(n) ==
    LET reset == [cache[n] EXCEPT !.phase = ""]
    IN /\ At(n, "idle") /\ cache[n].exists /\ cache[n].deleting
       /\ cache[n] = subnets[n]
       /\ subnets' = [subnets EXCEPT ![n] = reset]
       /\ work' = [work EXCEPT ![n] = [pc |-> "unfinalize", obj |-> cache[n], base |-> reset]]
       /\ UNCHANGED <<cache, request, edits>>

RemoveFinalizer(n) ==
    /\ At(n, "unfinalize")
    /\ subnets' = [subnets EXCEPT ![n] = IF @ = work[n].base THEN NoObject ELSE @]
    /\ Done(n)
    /\ UNCHANGED <<cache, request, edits>>

-----------------------------------------------------------------------------
User(n) == Delete(n) \/ \E spec \in SpecsOf(n) : Submit(n, spec)
Handler(n) == \/ handleSubnet(n) \/ SendLabels(n) \/ PutLabels(n) \/ PutAgain(n)
              \/ SetActive(n) \/ RecordFailure(n) \/ handleSubnetRemove(n)
              \/ RemoveFinalizer(n)

Next == \E n \in Name : User(n) \/ Store(n) \/ SyncCache(n) \/ Handler(n)

Spec == Init /\ [][Next]_vars

(* A request that is admitted is stored, the informer catches up, and every
   subnet is processed again and again: onSubnetUpdate enqueues it for ten
   minutes later, and an error is retried. *)
FairSpec == Spec /\ \A n \in Name :
    WF_vars(Store(n)) /\ WF_vars(SyncCache(n)) /\ WF_vars(Handler(n))

-----------------------------------------------------------------------------
TypeOK == /\ subnets \in [Name -> Objects]
          /\ cache \in [Name -> Objects]
          /\ request \in [Name -> [exists : {TRUE}, spec : Specs] \cup {NoObject}]
          /\ work \in [Name -> [pc : PC, obj : Objects, base : Objects]]
          /\ edits \in 0 .. MaxEdits

Active(n) == subnets[n].exists /\ subnets[n].phase = "Active"

(* What a conflict is, said with sets of addresses: two flat modes on one
   interface, or an address that both subnets could hand out. *)
NetworkOf(spec) == {a \in Addr : IPInNetwork(a, spec.cidr)}
RangesOf(spec) == {a \in Addr : IPInRanges(a, spec.ranges)}
Conflict(s, t) ==
    /\ SameInterface(s, t)
    /\ \/ s.flatMode # t.flatMode
       \/ IF s.ranges # <<>> /\ t.ranges # <<>> THEN RangesOf(s) \cap RangesOf(t) # {}
          ELSE NetworkOf(s) \cap NetworkOf(t) # {}

(* Two subnets that conflict do not stay Active together, however their
   creation and their edits race with each other, with the webhook and with
   the informer: handleSubnet notices sooner or later. *)
ConflictIsNoticed ==
    \A m, n \in Name : m < n =>
        []<>~(Active(m) /\ Active(n) /\ Conflict(subnets[m].spec, subnets[n].spec))

(* A subnet that is not in conflict, and never again edited, is Active again and
   again, whatever failed before: a check that refused it when it did conflict
   is made again.  (Not for good: a label update that runs out of retries makes
   an Active subnet Failed until it is processed the next time.) *)
Clear(n) ==
    /\ subnets[n].exists /\ ~subnets[n].deleting /\ ~request[n].exists
    /\ ValidateSubnet(subnets[n].spec)
    /\ \A m \in Name \ {n} : subnets[m].exists =>
          ~Conflict(subnets[m].spec, subnets[n].spec)
ClearSubnetIsServed == \A n \in Name : <>[]Clear(n) => []<>Active(n)

(* An Active subnet has a valid spec.  onSubnetUpdate does not validate it: where
   the webhook is in reach, no invalid spec gets that far. *)
ActiveIsValid ==
    \A n \in Name \ WebhookIgnored : Active(n) => ValidateSubnet(subnets[n].spec)

(* "Webhook may not working properly when creating subnets parallelly, need to
   double-check subnet spec and ensure no conflicts with other subnets"
   (flatnetworksubnet.go:140): no two Active subnets conflict.  It does not hold
   at every moment, see ConflictIsNoticed. *)
ActiveSubnetsAgree ==
    \A m, n \in Name : m # n /\ Active(m) /\ Active(n) =>
        ~Conflict(subnets[m].spec, subnets[n].spec)

(* "Ensure no subnet CIDR conflict" (webhook/subnet.go:73): a spec that the
   webhook admits does not conflict with a subnet that it has listed.  It does not
   hold: CheckSubnetConflict is decided by the first subnet of the same network. *)
AdmittedAgrees ==
    [][\A n \in Name : request'[n].exists /\ ~request[n].exists =>
          \A m \in Listed(subnets, request'[n].spec) \ {n} :
              ~Conflict(subnets[m].spec, request'[n].spec)]_vars
=============================================================================
