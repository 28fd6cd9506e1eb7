--------------------------- MODULE WorkloadProofs ---------------------------
(***************************************************************************)
(* Proofs about module Workload, for any workloads, subnets, addresses and *)
(* templates: the workers that share the status of a subnet do not undo    *)
(* each other's reservations, a reserved address stays exclusive, and the  *)
(* webhook does not refuse a workload because of what is its own.          *)
(***************************************************************************)
EXTENDS Workload, TLAPS

(***************************************************************************)
(* Type correctness.                                                       *)
(***************************************************************************)
Stored == Object \cup {NoObject}
Work == [pc : {"idle", "reserve", "remove"}, w : Templates]
PodIP == [addr : Addr, mac : MAC \cup {NoMAC}]

ObjectsOK == /\ workloads \in [Key -> Stored] /\ cache \in [Key -> Stored]
             /\ request \in [Key -> Stored]
SubnetsOK == status \in [Subnet -> Status] /\ subnetCache \in [Subnet -> Status]
WorkersOK == queue \subseteq Key /\ work \in [Key -> Work] /\ skipped \subseteq Key
EventsOK == events \in 0 .. MaxEvents
TypeInv == ObjectsOK /\ SubnetsOK /\ WorkersOK /\ EventsOK

LEMMA TypeInvIsTypeOK == TypeInv <=> TypeOK
BY Zenon DEF TypeInv, TypeOK, ObjectsOK, SubnetsOK, WorkersOK, EventsOK, Stored, Work

LEMMA StatusType == Status = [reserved : [Key -> SUBSET Addr], pods : [Key -> SUBSET PodIP]]
BY Zenon DEF Status, PodIP

(* What users write are annotations. *)
LEMMA TemplateType ==
    ASSUME NEW t \in Templates
    PROVE  /\ t \in Annotations
           /\ t.ips \in Seq(Addr) /\ t.macs \in Seq(MAC) /\ t.subnet \in Subnet \cup {NoSubnet}
           /\ t.ip \in {"", "auto", "list", "bad"}
<1>1. NoAnnotations \in Annotations
  <2>1. <<>> \in Seq(Addr) /\ <<>> \in Seq(MAC)
    OBVIOUS
  <2>. QED  BY <2>1, Zenon DEF NoAnnotations, Annotations
<1>2. t \in Annotations
  <2>1. CASE t = NoAnnotations
    BY <1>1, <2>1, Zenon
  <2>2. CASE t \in UNION {TemplatesOf(k) : k \in Key}
    <3>1. PICK k \in Key : t \in TemplatesOf(k)
      BY <2>2
    <3>. QED  BY <3>1, TemplateAssumption, Zenon
  <2>. QED  BY <2>1, <2>2, Zenon DEF Templates
<1>. QED  BY <1>2, Zenon DEF Annotations

LEMMA NoneTypes ==
    /\ NoAnnotations \in Templates /\ NoLabels \in Labels
    /\ NoObject \in Stored /\ Idle \in Work
<1>1. NoAnnotations \in Templates
  BY Zenon DEF Templates
<1>2. NoLabels \in Labels
  BY DEF NoLabels, Labels
<1>3. Idle \in Work
  BY <1>1, Zenon DEF Idle, Work
<1>. QED  BY <1>1, <1>2, <1>3, Zenon DEF Stored

LEMMA StoredType ==
    ASSUME NEW o \in Stored
    PROVE  /\ o.exists \in BOOLEAN /\ o.deleting \in BOOLEAN
           /\ o.tmpl \in Templates /\ o.labels \in Labels
           /\ o.exists => o \in Object
<1>1. CASE o \in Object
  BY <1>1, Zenon DEF Object
<1>2. CASE o = NoObject
  BY <1>2, NoneTypes, Zenon DEF NoObject
<1>. QED  BY <1>1, <1>2, Zenon DEF Stored

(* Writing fields of a stored workload. *)
LEMMA ObjectType ==
    ASSUME NEW t \in Templates, NEW labels \in Labels, NEW deleting \in BOOLEAN
    PROVE  [exists |-> TRUE, deleting |-> deleting, tmpl |-> t, labels |-> labels] \in Stored
BY Zenon DEF Object, Stored

LEMMA WithLabelsType ==
    ASSUME NEW o \in Object, NEW labels \in Labels
    PROVE  [o EXCEPT !.labels = labels] \in Stored
BY Zenon DEF Object, Stored

LEMMA WithDeletingType ==
    ASSUME NEW o \in Object
    PROVE  [o EXCEPT !.deleting = TRUE] \in Stored
BY Zenon DEF Object, Stored

LEMMA WithTemplateType ==
    ASSUME NEW o \in Object, NEW t \in Templates, NEW labels \in Labels
    PROVE  [o EXCEPT !.tmpl = t, !.labels = labels] \in Stored
<1>1. [o EXCEPT !.tmpl = t] \in Object
  BY Zenon DEF Object
<1>. QED  BY <1>1, WithLabelsType, Zenon

LEMMA LabelType ==
    ASSUME NEW t \in Templates
    PROVE  getTemplateFlatNetworkLabel(t) \in Labels
<1>1. t.ip \in {"", "auto", "list", "bad"} /\ t.subnet \in Subnet \cup {NoSubnet}
  BY TemplateType, Zenon
<1>2. (IF t.ip \in {"list", "bad"} THEN "specific" ELSE t.ip) \in {"", "auto", "specific"}
  BY <1>1, Zenon
<1>3. ASSUME NEW ipType \in {"", "auto", "specific"}
      PROVE  [ipType |-> ipType, subnet |-> t.subnet] \in Labels
  BY <1>1, Zenon DEF Labels
<1>. QED  BY <1>2, <1>3, Zenon DEF getTemplateFlatNetworkLabel

(* Writing one entry of a status. *)
LEMMA ReserveType ==
    ASSUME NEW st \in Status, NEW k \in Key, NEW addrs \in SUBSET Addr
    PROVE  [st EXCEPT !.reserved[k] = addrs] \in Status
<1>1. [st.reserved EXCEPT ![k] = addrs] \in [Key -> SUBSET Addr]
  BY StatusType, Zenon
<1>2. ASSUME NEW r \in [Key -> SUBSET Addr]
      PROVE  [st EXCEPT !.reserved = r] \in Status
  BY StatusType, Zenon
<1>. QED  BY <1>1, <1>2, Zenon

LEMMA PodsType ==
    ASSUME NEW st \in Status, NEW k \in Key, NEW ps \in SUBSET PodIP
    PROVE  [st EXCEPT !.pods[k] = ps] \in Status
<1>1. [st.pods EXCEPT ![k] = ps] \in [Key -> SUBSET PodIP]
  BY StatusType, Zenon
<1>2. ASSUME NEW r \in [Key -> SUBSET PodIP]
      PROVE  [st EXCEPT !.pods = r] \in Status
  BY StatusType, Zenon
<1>. QED  BY <1>1, <1>2, Zenon

LEMMA TypeInit == Init => TypeInv
<1>. SUFFICES ASSUME Init PROVE TypeInv
  OBVIOUS
<1>1. ObjectsOK
  BY NoneTypes, Zenon DEF Init, ObjectsOK
<1>2. SubnetsOK
  <2>1. [k \in Key |-> {}] \in [Key -> SUBSET Addr] /\ [k \in Key |-> {}] \in [Key -> SUBSET PodIP]
    OBVIOUS
  <2>2. [reserved |-> [k \in Key |-> {}], pods |-> [k \in Key |-> {}]] \in Status
    BY <2>1, StatusType, Zenon
  <2>. QED  BY <2>2, Zenon DEF Init, SubnetsOK
<1>3. WorkersOK
  BY NoneTypes, Zenon DEF Init, WorkersOK
<1>4. EventsOK
  BY BoundAssumption DEF Init, EventsOK
<1>. QED  BY <1>1, <1>2, <1>3, <1>4, Zenon DEF TypeInv

LEMMA EventsStep ==
    ASSUME EventsOK, events < MaxEvents, events' = events + 1
    PROVE  EventsOK'
BY BoundAssumption DEF EventsOK

LEMMA SubmitType ==
    ASSUME TypeInv, NEW k \in Key, NEW t \in TemplatesOf(k),
           NEW labels \in {NoLabels} \cup
               (IF workloads[k].exists THEN {workloads[k].labels} ELSE {}),
           Submit(k, t, labels)
    PROVE  TypeInv'
<1>. USE DEF TypeInv
<1>1. t \in Templates
  <2>1. t \in UNION {TemplatesOf(j) : j \in Key}
    OBVIOUS
  <2>. QED  BY <2>1, Zenon DEF Templates
<1>2. labels \in Labels
  <2>1. labels = NoLabels \/ labels = workloads[k].labels
    OBVIOUS
  <2>. QED  BY <2>1, NoneTypes, StoredType, Zenon DEF ObjectsOK
<1>3. request' \in [Key -> Stored]
  <2>1. [exists |-> TRUE, deleting |-> FALSE, tmpl |-> t, labels |-> labels] \in Stored
    <3>1. TRUE \in BOOLEAN /\ FALSE \in BOOLEAN
      OBVIOUS
    <3>. QED  BY <1>1, <1>2, <3>1, ObjectType, Zenon
  <2>. QED  BY <2>1, Zenon DEF Submit, ObjectsOK
<1>4. EventsOK'
  BY EventsStep, Zenon DEF Submit
<1>. QED
  BY <1>3, <1>4, Zenon DEF Submit, ObjectsOK, SubnetsOK, WorkersOK, subnetVars

LEMMA StoreType ==
    ASSUME TypeInv, NEW k \in Key, Store(k)
    PROVE  TypeInv'
<1>. USE DEF TypeInv
<1>. DEFINE o == workloads[k]
            labels == IF k \in Replacing THEN request[k].labels ELSE o.labels
            new == IF ~o.exists THEN request[k] ELSE IF o.deleting THEN o
                   ELSE [o EXCEPT !.tmpl = request[k].tmpl, !.labels = labels]
<1>1. o \in Stored /\ request[k] \in Stored
  BY Zenon DEF ObjectsOK
<1>2. labels \in Labels /\ request[k].tmpl \in Templates
  BY <1>1, StoredType, Zenon
<1>3. o.exists => [o EXCEPT !.tmpl = request[k].tmpl, !.labels = labels] \in Stored
  <2>. HIDE DEF labels, o
  <2>. QED  BY <1>1, <1>2, StoredType, WithTemplateType, Zenon
<1>4. new \in Stored
  BY <1>1, <1>3, Zenon
<1>5. workloads' = [workloads EXCEPT ![k] = new]
  BY Zenon DEF Store
<1>. HIDE DEF new
<1>6. ObjectsOK'
  <2>1. workloads' \in [Key -> Stored]
    BY <1>4, <1>5, Zenon DEF ObjectsOK
  <2>2. request' \in [Key -> Stored]
    <3>1. request' = [request EXCEPT ![k] = NoObject]
      BY Zenon DEF Store
    <3>. QED  BY <3>1, NoneTypes, Zenon DEF ObjectsOK
  <2>3. cache' = cache
    BY Zenon DEF Store
  <2>. QED  BY <2>1, <2>2, <2>3, Zenon DEF ObjectsOK
<1>7. SubnetsOK' /\ WorkersOK' /\ EventsOK'
  <2>1. UNCHANGED <<status, subnetCache, queue, work, skipped, events>>
    BY Zenon DEF Store, subnetVars
  <2>. QED  BY <2>1, Zenon DEF SubnetsOK, WorkersOK, EventsOK
<1>. QED  BY <1>6, <1>7, Zenon

LEMMA DeleteType ==
    ASSUME TypeInv, NEW k \in Key, Delete(k)
    PROVE  TypeInv'
<1>. USE DEF TypeInv
<1>1. workloads[k] \in Object
  BY StoredType, Zenon DEF Delete, ObjectsOK
<1>2. [workloads[k] EXCEPT !.deleting = TRUE] \in Stored
  BY <1>1, WithDeletingType, Zenon
<1>3. \/ workloads' = [workloads EXCEPT ![k] = [workloads[k] EXCEPT !.deleting = TRUE]]
      \/ workloads' = [workloads EXCEPT ![k] = NoObject]
  BY DEF Delete
<1>4. workloads' \in [Key -> Stored]
  BY <1>2, <1>3, NoneTypes, Zenon DEF ObjectsOK
<1>5. EventsOK'
  BY EventsStep, Zenon DEF Delete
<1>. QED
  BY <1>4, <1>5, Zenon DEF Delete, ObjectsOK, SubnetsOK, WorkersOK, subnetVars

LEMMA CollectType ==
    ASSUME TypeInv, NEW k \in Key, Collect(k)
    PROVE  TypeInv'
BY NoneTypes, Zenon
DEF Collect, TypeInv, ObjectsOK, SubnetsOK, WorkersOK, EventsOK, subnetVars

LEMMA SyncCacheType ==
    ASSUME TypeInv, NEW k \in Key, SyncCache(k)
    PROVE  TypeInv'
BY Zenon DEF SyncCache, TypeInv, ObjectsOK, SubnetsOK, WorkersOK, EventsOK, subnetVars

LEMMA SyncSubnetCacheType ==
    ASSUME TypeInv, NEW s \in Subnet, SyncSubnetCache(s)
    PROVE  TypeInv'
BY Zenon DEF SyncSubnetCache, TypeInv, ObjectsOK, SubnetsOK, WorkersOK, EventsOK, userVars

(* An address is allocated from the list of the template, or from the subnet. *)
LEMMA AllocateType ==
    ASSUME NEW t \in Templates, t.subnet \in Subnet,
           NEW a \in allocateIP(t), NEW m \in allocateMAC(t)
    PROVE  [addr |-> a, mac |-> m] \in PodIP
<1>1. t.ips \in Seq(Addr) /\ t.macs \in Seq(MAC)
  BY TemplateType, Zenon
<1>2. \A i \in DOMAIN t.ips : t.ips[i] \in Addr
  BY <1>1
<1>3. \A i \in DOMAIN t.macs : t.macs[i] \in MAC
  BY <1>1
<1>4. Usable(t.subnet) \subseteq Addr
  BY AddressAssumption, Zenon
<1>5. a \in Addr
  <2>1. (\E i \in DOMAIN t.ips : a = t.ips[i]) \/ a \in Usable(t.subnet)
    BY Zenon DEF allocateIP
  <2>. QED  BY <1>2, <1>4, <2>1, Zenon
<1>6. m \in MAC \cup {NoMAC}
  <2>1. (\E i \in DOMAIN t.macs : m = t.macs[i]) \/ m = NoMAC
    BY Zenon DEF allocateMAC
  <2>. QED  BY <1>3, <2>1, Zenon
<1>. QED  BY <1>5, <1>6, Zenon DEF PodIP

LEMMA onIPCreateType ==
    ASSUME TypeInv, NEW k \in Key, onIPCreate(k)
    PROVE  TypeInv'
<1>. USE DEF TypeInv
<1>. DEFINE t == workloads[k].tmpl
<1>1. t \in Templates /\ t.subnet \in Subnet
  <2>1. t \in Templates
    BY StoredType, Zenon DEF ObjectsOK
  <2>2. t.subnet # NoSubnet
    BY Zenon DEF onIPCreate
  <2>. QED  BY <2>1, <2>2, TemplateType, Zenon
<1>2. PICK a \in allocateIP(t), m \in allocateMAC(t) :
          status' = [status EXCEPT ![t.subnet].pods[k] = @ \cup {[addr |-> a, mac |-> m]}]
  BY Zenon DEF onIPCreate
<1>3. [addr |-> a, mac |-> m] \in PodIP
  BY <1>1, AllocateType, Zenon
<1>. HIDE DEF t
<1>4. status[t.subnet] \in Status
  BY <1>1, Zenon DEF SubnetsOK
<1>5. status[t.subnet].pods[k] \cup {[addr |-> a, mac |-> m]} \in SUBSET PodIP
  BY <1>3, <1>4, StatusType, Zenon
<1>6. status' = [status EXCEPT ![t.subnet] = [status[t.subnet] EXCEPT
                    !.pods[k] = status[t.subnet].pods[k] \cup {[addr |-> a, mac |-> m]}]]
  BY <1>2, Zenon
<1>7. SubnetsOK'
  BY <1>4, <1>5, <1>6, PodsType, Zenon DEF onIPCreate, SubnetsOK
<1>8. EventsOK'
  BY EventsStep, Zenon DEF onIPCreate
<1>. QED  BY <1>7, <1>8, Zenon DEF onIPCreate, ObjectsOK, WorkersOK

LEMMA handleIPRemoveType ==
    ASSUME TypeInv, NEW k \in Key, NEW s \in Subnet, NEW p, handleIPRemove(k, s, p)
    PROVE  TypeInv'
<1>. USE DEF TypeInv
<1>1. status[s] \in Status
  BY Zenon DEF SubnetsOK
<1>2. status[s].pods[k] \ {p} \in SUBSET PodIP
  BY <1>1, StatusType, Zenon
<1>3. status' = [status EXCEPT ![s] = [status[s] EXCEPT !.pods[k] = status[s].pods[k] \ {p}]]
  BY Zenon DEF handleIPRemove
<1>4. [status[s] EXCEPT !.pods[k] = status[s].pods[k] \ {p}] \in Status
  BY <1>1, <1>2, PodsType
<1>5. SubnetsOK'
  BY <1>3, <1>4, Zenon DEF handleIPRemove, SubnetsOK
<1>. QED  BY <1>5, Zenon DEF handleIPRemove, userVars, ObjectsOK, WorkersOK, EventsOK

LEMMA WithAddressesType ==
    ASSUME TypeInv, NEW k \in Key, NEW l \in {"reserve", "remove"}, NEW t \in Templates,
           WithAddresses(k, l, t)
    PROVE  queue' \subseteq Key /\ work' \in [Key -> Work]
<1>. USE DEF TypeInv
<1>1. [pc |-> l, w |-> t] \in Work
  BY Zenon DEF Work
<1>2. queue' = queue \/ queue' = queue \ {k}
  BY Zenon DEF WithAddresses
<1>3. work' = work \/ work' = [work EXCEPT ![k] = [pc |-> l, w |-> t]]
  BY Zenon DEF WithAddresses
<1>. QED  BY <1>1, <1>2, <1>3, Zenon DEF WorkersOK

LEMMA syncWorkloadType ==
    ASSUME TypeInv, NEW k \in Key, syncWorkload(k)
    PROVE  TypeInv'
<1>. USE DEF TypeInv
<1>. DEFINE o == cache[k]
            t == GetTemplateObjectMeta(k, o)
            labels == getTemplateFlatNetworkLabel(t)
<1>1. o \in Stored
  BY Zenon DEF ObjectsOK
<1>2. t \in Templates
  BY <1>1, NoneTypes, StoredType, Zenon DEF GetTemplateObjectMeta
<1>3. labels \in Labels
  BY <1>2, LabelType, Zenon
<1>. HIDE DEF o, t, labels
<1>4. queue' \subseteq Key /\ work' \in [Key -> Work]
  <2>1. CASE UNCHANGED work /\ queue' = queue \ {k}
    BY <2>1, Zenon DEF WorkersOK
  <2>2. CASE WithAddresses(k, "remove", t)
    BY <1>2, <2>2, WithAddressesType, Zenon
  <2>3. CASE WithAddresses(k, "reserve", t)
    BY <1>2, <2>3, WithAddressesType, Zenon
  <2>. QED  BY <2>1, <2>2, <2>3, Zenon DEF syncWorkload, t, o
<1>5. workloads' \in [Key -> Stored]
  <2>1. CASE UNCHANGED workloads
    BY <2>1, Zenon DEF ObjectsOK
  <2>2. CASE /\ o.exists /\ workloads[k] = o
             /\ workloads' = [workloads EXCEPT ![k].labels = labels]
    <3>1. o \in Object
      BY <1>1, <2>2, StoredType, Zenon
    <3>2. [o EXCEPT !.labels = labels] \in Stored
      BY <1>3, <3>1, WithLabelsType, Zenon
    <3>3. workloads' = [workloads EXCEPT ![k] = [o EXCEPT !.labels = labels]]
      BY <2>2, Zenon
    <3>. QED  BY <3>2, <3>3, Zenon DEF ObjectsOK
  <2>. QED  BY <2>1, <2>2, Zenon DEF syncWorkload, t, o, labels
<1>. QED
  BY <1>4, <1>5, Zenon DEF syncWorkload, ObjectsOK, SubnetsOK, WorkersOK, EventsOK, subnetVars

LEMMA ElementsType ==
    ASSUME NEW t \in Templates
    PROVE  Elements(t.ips) \in SUBSET Addr
<1>1. t.ips \in Seq(Addr)
  BY TemplateType, Zenon
<1>2. \A i \in DOMAIN t.ips : t.ips[i] \in Addr
  BY <1>1
<1>. QED  BY <1>2, Zenon DEF Elements

(* The status that putReservedIP leaves: the stored one, or the stored one with
   the entry of the workload replaced. *)
LEMMA PutReservedIs ==
    ASSUME NEW k, NEW s, NEW addrs, putReservedIP(k, s, addrs)
    PROVE  /\ \/ status' = status
              \/ status' = [status EXCEPT ![s] = [status[s] EXCEPT !.reserved[k] = addrs]]
           /\ work' = [work EXCEPT ![k] = Idle]
           /\ queue' = queue \/ queue' = queue \cup {k}
           /\ skipped' = skipped \/ skipped' = skipped \cup {k} \/ skipped' = skipped \ {k}
BY Zenon DEF putReservedIP, Done

LEMMA PutReservedType ==
    ASSUME TypeInv, NEW k \in Key, NEW s, NEW addrs \in SUBSET Addr,
           putReservedIP(k, s, addrs), UNCHANGED <<userVars, subnetCache>>
    PROVE  TypeInv'
<1>. USE DEF TypeInv
<1>1. status' \in [Subnet -> Status]
  <2>1. CASE status' = status
    BY <2>1, Zenon DEF SubnetsOK
  <2>2. CASE status' = [status EXCEPT ![s] = [status[s] EXCEPT !.reserved[k] = addrs]]
    <3>1. CASE s \in Subnet
      <4>1. [status[s] EXCEPT !.reserved[k] = addrs] \in Status
        BY <3>1, ReserveType, Zenon DEF SubnetsOK
      <4>. QED  BY <2>2, <4>1, Zenon DEF SubnetsOK
    <3>2. CASE s \notin Subnet
      <4>1. status' = status
        BY <2>2, <3>2, SMT DEF SubnetsOK
      <4>. QED  BY <4>1, Zenon DEF SubnetsOK
    <3>. QED  BY <3>1, <3>2
  <2>3. \/ status' = status
        \/ status' = [status EXCEPT ![s] = [status[s] EXCEPT !.reserved[k] = addrs]]
    BY Zenon DEF putReservedIP
  <2>. QED  BY <2>1, <2>2, <2>3
<1>2. work' \in [Key -> Work]
  BY PutReservedIs, NoneTypes, Zenon DEF WorkersOK
<1>3. queue' \subseteq Key /\ skipped' \subseteq Key
  BY PutReservedIs, Zenon DEF WorkersOK
<1>. QED  BY <1>1, <1>2, <1>3, Zenon DEF userVars, ObjectsOK, SubnetsOK, WorkersOK, EventsOK

LEMMA ReservedType ==
    ASSUME TypeInv, NEW k \in Key, syncWorkloadReservedIP(k) \/ removeWorkloadReservedIP(k)
    PROVE  TypeInv'
<1>1. work[k].w \in Templates
  BY Zenon DEF TypeInv, WorkersOK, Work
<1>2. Elements(work[k].w.ips) \in SUBSET Addr /\ {} \in SUBSET Addr
  BY <1>1, ElementsType, Zenon
<1>. QED  BY <1>2, PutReservedType, Zenon DEF syncWorkloadReservedIP, removeWorkloadReservedIP

LEMMA TypeStep == TypeInv /\ [Next]_vars => TypeInv'
<1>. SUFFICES ASSUME TypeInv, [Next]_vars PROVE TypeInv'
  OBVIOUS
<1>1. ASSUME NEW k \in Key, User(k) PROVE TypeInv'
  BY <1>1, SubmitType, DeleteType, CollectType, Zenon DEF User
<1>2. ASSUME NEW k \in Key, Pods(k) PROVE TypeInv'
  BY <1>2, onIPCreateType, handleIPRemoveType, Zenon DEF Pods
<1>3. ASSUME NEW k \in Key, Store(k) \/ SyncCache(k) PROVE TypeInv'
  BY <1>3, StoreType, SyncCacheType, Zenon
<1>4. ASSUME NEW k \in Key, Handler(k) PROVE TypeInv'
  BY <1>4, syncWorkloadType, ReservedType, Zenon DEF Handler
<1>5. ASSUME NEW s \in Subnet, SyncSubnetCache(s) PROVE TypeInv'
  BY <1>5, SyncSubnetCacheType, Zenon
<1>6. CASE UNCHANGED vars
  BY <1>6, Zenon DEF vars, TypeInv, ObjectsOK, SubnetsOK, WorkersOK, EventsOK
<1>. QED  BY <1>1, <1>2, <1>3, <1>4, <1>5, <1>6, Zenon DEF Next

LEMMA TypeInvariant == Spec => []TypeInv
BY TypeInit, TypeStep, PTL DEF Spec

(* The variables have their types in every reachable state: in particular every
   reservation and every pod has addresses of the subnets. *)
THEOREM TypeCorrect == Spec => []TypeOK
BY TypeInvariant, TypeInvIsTypeOK, PTL

(***************************************************************************)
(* What a step writes, variable by variable.  These facts carry the three  *)
(* results below.                                                          *)
(***************************************************************************)

(* putReservedIP, which starts from the cached subnet, writes the entry of its
   own workload in the stored one. *)
LEMMA PutReservedEffect ==
    ASSUME TypeInv, NEW k \in Key, NEW s, NEW addrs, putReservedIP(k, s, addrs),
           NEW x \in Subnet
    PROVE  /\ status'[x].pods = status[x].pods
           /\ \A j \in Key \ {k} : status'[x].reserved[j] = status[x].reserved[j]
           /\ \/ status'[x].reserved[k] = status[x].reserved[k]
              \/ x = s /\ status'[x].reserved[k] = addrs
<1>1. CASE status' = status
  BY <1>1, Zenon
<1>2. CASE status' = [status EXCEPT ![s] = [status[s] EXCEPT !.reserved[k] = addrs]]
  <2>1. status \in [Subnet -> Status]
    BY Zenon DEF TypeInv, SubnetsOK
  <2>2. CASE x # s
    <3>1. status'[x] = status[x]
      BY <1>2, <2>1, <2>2
    <3>. QED  BY <3>1
  <2>3. CASE x = s
    <3>1. status'[x] = [status[x] EXCEPT !.reserved[k] = addrs] /\ status[x] \in Status
      BY <1>2, <2>1, <2>3
    <3>2. ASSUME NEW st \in Status
          PROVE  /\ [st EXCEPT !.reserved[k] = addrs].pods = st.pods
                 /\ [st EXCEPT !.reserved[k] = addrs].reserved
                       = [st.reserved EXCEPT ![k] = addrs]
                 /\ st.reserved \in [Key -> SUBSET Addr]
      BY StatusType, Zenon
    <3>3. /\ status'[x].pods = status[x].pods
          /\ status'[x].reserved = [status[x].reserved EXCEPT ![k] = addrs]
          /\ status[x].reserved \in [Key -> SUBSET Addr]
      BY <3>1, <3>2
    <3>. QED  BY <2>3, <3>3, Zenon
  <2>. QED  BY <2>2, <2>3
<1>3. \/ status' = status
      \/ status' = [status EXCEPT ![s] = [status[s] EXCEPT !.reserved[k] = addrs]]
  BY Zenon DEF putReservedIP
<1>. QED  BY <1>1, <1>2, <1>3

(* Pods come and go without a change of the reservations. *)
LEMMA PodsEffect ==
    ASSUME TypeInv, NEW k \in Key, Pods(k), NEW x \in Subnet
    PROVE  status'[x].reserved = status[x].reserved
<1>1. status \in [Subnet -> Status]
  BY Zenon DEF TypeInv, SubnetsOK
<1>2. ASSUME NEW s, NEW ps, status' = [status EXCEPT ![s] = [status[s] EXCEPT !.pods[k] = ps]]
      PROVE  status'[x].reserved = status[x].reserved
  <2>1. CASE x # s
    BY <1>1, <1>2, <2>1
  <2>2. CASE x = s
    <3>1. status'[x] = [status[x] EXCEPT !.pods[k] = ps] /\ status[x] \in Status
      BY <1>1, <1>2, <2>2
    <3>2. ASSUME NEW st \in Status
          PROVE  [st EXCEPT !.pods[k] = ps].reserved = st.reserved
      BY StatusType, Zenon
    <3>. QED  BY <3>1, <3>2
  <2>. QED  BY <2>1, <2>2
<1>3. ASSUME onIPCreate(k)
      PROVE  \E s, ps : status' = [status EXCEPT ![s] = [status[s] EXCEPT !.pods[k] = ps]]
  BY <1>3, Zenon DEF onIPCreate
<1>4. ASSUME NEW s \in Subnet, NEW p, handleIPRemove(k, s, p)
      PROVE  status' = [status EXCEPT ![s] = [status[s] EXCEPT
                           !.pods[k] = status[s].pods[k] \ {p}]]
  BY <1>4, Zenon DEF handleIPRemove
<1>. QED  BY <1>2, <1>3, <1>4 DEF Pods

(* the actions, and what each of them leaves alone *)
Submitted(k) == \E t, labels : Submit(k, t, labels)
Reserves(k) == syncWorkloadReservedIP(k) \/ removeWorkloadReservedIP(k)

LEMMA Actions ==
    ASSUME [Next]_vars
    PROVE  \/ \E l \in Key : \/ Submitted(l) \/ Delete(l) \/ Collect(l) \/ Pods(l) \/ Store(l)
                             \/ SyncCache(l) \/ syncWorkload(l) \/ Reserves(l)
           \/ \E s \in Subnet : SyncSubnetCache(s)
           \/ UNCHANGED vars
<1>1. ASSUME NEW l \in Key, User(l) PROVE Submitted(l) \/ Delete(l) \/ Collect(l)
  BY <1>1, Zenon DEF User, Submitted
<1>2. ASSUME NEW l \in Key, Handler(l) PROVE syncWorkload(l) \/ Reserves(l)
  BY <1>2, Zenon DEF Handler, Reserves
<1>. QED  BY <1>1, <1>2, Zenon DEF Next

LEMMA Frames ==
    ASSUME NEW k
    PROVE  /\ Submitted(k) => UNCHANGED <<workloads, cache, work, status>>
           /\ Store(k) => UNCHANGED <<cache, work, status>>
           /\ Delete(k) \/ Collect(k) => UNCHANGED <<cache, request, work, status>>
           /\ Pods(k) => UNCHANGED <<workloads, cache, request, work>>
           /\ SyncCache(k) => UNCHANGED <<workloads, request, work, status>>
           /\ syncWorkload(k) => UNCHANGED <<cache, request, status>>
           /\ Reserves(k) => UNCHANGED <<workloads, cache, request>>
           /\ SyncSubnetCache(k) => UNCHANGED <<workloads, cache, request, work, status>>
           /\ UNCHANGED vars => UNCHANGED <<workloads, cache, request, work, status>>
<1>1. Submitted(k) => UNCHANGED <<workloads, cache, work, status>>
  BY Zenon DEF Submitted, Submit, subnetVars
<1>2. Store(k) => UNCHANGED <<cache, work, status>>
  BY Zenon DEF Store, subnetVars
<1>3. Delete(k) \/ Collect(k) => UNCHANGED <<cache, request, work, status>>
  BY Zenon DEF Delete, Collect, subnetVars
<1>4. Pods(k) => UNCHANGED <<workloads, cache, request, work>>
  BY Zenon DEF Pods, onIPCreate, handleIPRemove, userVars
<1>5. SyncCache(k) => UNCHANGED <<workloads, request, work, status>>
  BY Zenon DEF SyncCache, subnetVars
<1>6. syncWorkload(k) => UNCHANGED <<cache, request, status>>
  BY Zenon DEF syncWorkload, subnetVars
<1>7. Reserves(k) => UNCHANGED <<workloads, cache, request>>
  BY Zenon DEF Reserves, syncWorkloadReservedIP, removeWorkloadReservedIP, userVars
<1>8. SyncSubnetCache(k) => UNCHANGED <<workloads, cache, request, work, status>>
  BY Zenon DEF SyncSubnetCache, userVars
<1>9. UNCHANGED vars => UNCHANGED <<workloads, cache, request, work, status>>
  BY Zenon DEF vars
<1>. QED  BY <1>1, <1>2, <1>3, <1>4, <1>5, <1>6, <1>7, <1>8, <1>9, Zenon

(* A worker that has taken up a key goes on with it or lets go of it. *)
LEMMA WorkWritten ==
    ASSUME TypeInv, [Next]_vars, NEW k \in Key
    PROVE  \/ work'[k] = work[k]
           \/ syncWorkload(k)
           \/ /\ syncWorkloadReservedIP(k) \/ removeWorkloadReservedIP(k)
              /\ work'[k] = Idle
<1>1. work \in [Key -> Work]
  BY Zenon DEF TypeInv, WorkersOK
<1>2. ASSUME NEW l \in Key, syncWorkload(l)
      PROVE  l = k \/ work'[k] = work[k]
  <2>1. work' = work \/ \E r : work' = [work EXCEPT ![l] = r]
    BY <1>2, Zenon DEF syncWorkload, WithAddresses
  <2>. QED  BY <1>1, <2>1, Zenon
<1>3. ASSUME NEW l \in Key, syncWorkloadReservedIP(l) \/ removeWorkloadReservedIP(l)
      PROVE  (l = k /\ work'[k] = Idle) \/ work'[k] = work[k]
  <2>1. work' = [work EXCEPT ![l] = Idle]
    BY <1>3, Zenon
    DEF syncWorkloadReservedIP, removeWorkloadReservedIP, putReservedIP, Done
  <2>. QED  BY <1>1, <2>1, Zenon
<1>4. \/ \E l \in Key : syncWorkload(l) \/ Reserves(l)
      \/ work' = work
  BY Actions, Frames, Zenon
<1>. QED  BY <1>2, <1>3, <1>4, Zenon DEF Reserves

(* For any number of workloads that share a subnet: the worker of one of them
   changes the reservation of that one only, and no pod's address, although it
   starts from a cached copy of the status (putReservedIP: an update that is not
   based on the stored status is refused). *)
THEOREM NoLostReservationProperty == Spec => NoLostReservation
<1>1. TypeInv /\ [Next]_vars =>
          \A k \in Key : work[k].pc # "idle" /\ work'[k] # work[k] =>
              \A s \in Subnet : /\ status'[s].pods = status[s].pods
                                /\ \A j \in Key \ {k} :
                                      status'[s].reserved[j] = status[s].reserved[j]
  <2>. SUFFICES ASSUME TypeInv, [Next]_vars, NEW k \in Key, work[k].pc # "idle",
                       work'[k] # work[k], NEW s \in Subnet
                PROVE  /\ status'[s].pods = status[s].pods
                       /\ \A j \in Key \ {k} :
                             status'[s].reserved[j] = status[s].reserved[j]
    BY Zenon
  <2>1. ~syncWorkload(k)
    BY Zenon DEF syncWorkload, At
  <2>2. \E r, addrs : putReservedIP(k, r, addrs)
    BY <2>1, WorkWritten, Zenon DEF syncWorkloadReservedIP, removeWorkloadReservedIP
  <2>3. PICK r, addrs : putReservedIP(k, r, addrs)
    BY <2>2, Zenon
  <2>4. status'[s].pods = status[s].pods
    BY <2>3, PutReservedEffect, Zenon
  <2>5. ASSUME NEW j \in Key \ {k}
        PROVE  status'[s].reserved[j] = status[s].reserved[j]
    <3>1. \A x \in Subnet, i \in Key \ {k} : status'[x].reserved[i] = status[x].reserved[i]
      BY <2>3, PutReservedEffect
    <3>. QED  BY <3>1, Zenon
  <2>. QED  BY <2>4, <2>5, Zenon
<1>. QED  BY <1>1, TypeInvariant, PTL DEF Spec, NoLostReservation

(* The template a worker carries is one that its workload had in the cache. *)
LEMMA TakenFromCache ==
    ASSUME TypeInv, [Next]_vars, NEW k \in Key
    PROVE  \/ work'[k].w = work[k].w
           \/ work'[k].w = NoAnnotations
           \/ cache[k].exists /\ work'[k].w = cache[k].tmpl
<1>1. work \in [Key -> Work]
  BY Zenon DEF TypeInv, WorkersOK
<1>2. Idle.w = NoAnnotations
  BY Zenon DEF Idle
<1>3. CASE syncWorkload(k)
  <2>. DEFINE t == GetTemplateObjectMeta(k, cache[k])
  <2>1. \/ work' = work
        \/ cache[k].exists /\ \E l : work' = [work EXCEPT ![k] = [pc |-> l, w |-> t]]
    BY <1>3, Zenon DEF syncWorkload, WithAddresses
  <2>2. t = NoAnnotations \/ t = cache[k].tmpl
    BY Zenon DEF GetTemplateObjectMeta
  <2>. HIDE DEF t
  <2>3. \A l : [pc |-> l, w |-> t].w = t
    BY Zenon
  <2>4. work'[k].w = work[k].w \/ (cache[k].exists /\ work'[k].w = t)
    BY <1>1, <2>1, <2>3, Zenon
  <2>. QED  BY <2>2, <2>4, Zenon
<1>. QED  BY <1>2, <1>3, WorkWritten, Zenon

(* The cache has what is stored, or had been. *)
LEMMA CacheWritten ==
    ASSUME TypeInv, [Next]_vars, NEW k \in Key
    PROVE  cache'[k] = cache[k] \/ cache'[k] = workloads[k]
<1>1. cache \in [Key -> Stored]
  BY Zenon DEF TypeInv, ObjectsOK
<1>2. ASSUME NEW l \in Key, SyncCache(l)
      PROVE  cache'[k] = cache[k] \/ cache'[k] = workloads[k]
  BY <1>1, <1>2, Zenon DEF SyncCache
<1>3. (\E l \in Key : SyncCache(l)) \/ cache' = cache
  BY Actions, Frames, Zenon
<1>. QED  BY <1>2, <1>3, Zenon

(* A reservation is what the worker of that workload has written, or what it was. *)
LEMMA ReservedWritten ==
    ASSUME TypeInv, [Next]_vars, NEW k \in Key, NEW s \in Subnet
    PROVE  \/ status'[s].reserved[k] = status[s].reserved[k]
           \/ status'[s].reserved[k] = {}
           \/ /\ work[k].w.subnet = s
              /\ status'[s].reserved[k] = Elements(work[k].w.ips)
<1>1. ASSUME NEW l \in Key, NEW addrs, putReservedIP(l, work[l].w.subnet, addrs)
      PROVE  \/ status'[s].reserved[k] = status[s].reserved[k]
             \/ l = k /\ work[k].w.subnet = s /\ status'[s].reserved[k] = addrs
  <2>1. /\ \A j \in Key \ {l} : status'[s].reserved[j] = status[s].reserved[j]
        /\ \/ status'[s].reserved[l] = status[s].reserved[l]
           \/ s = work[l].w.subnet /\ status'[s].reserved[l] = addrs
    BY <1>1, PutReservedEffect
  <2>2. CASE l = k
    BY <2>1, <2>2
  <2>3. CASE l # k
    BY <2>1, <2>3
  <2>. QED  BY <2>2, <2>3
<1>2. ASSUME NEW l \in Key, syncWorkloadReservedIP(l) \/ removeWorkloadReservedIP(l)
      PROVE  \/ status'[s].reserved[k] = status[s].reserved[k]
             \/ status'[s].reserved[k] = {}
             \/ /\ work[k].w.subnet = s
                /\ status'[s].reserved[k] = Elements(work[k].w.ips)
  BY <1>1, <1>2, Zenon DEF syncWorkloadReservedIP, removeWorkloadReservedIP
<1>3. ASSUME NEW l \in Key, Pods(l)
      PROVE  status'[s].reserved[k] = status[s].reserved[k]
  BY <1>3, PodsEffect, Zenon
<1>4. (\E l \in Key : Reserves(l) \/ Pods(l)) \/ status' = status
  BY Actions, Frames, Zenon
<1>. QED  BY <1>2, <1>3, <1>4, Zenon DEF Reserves

(* What the webhook has let pass for a workload for which it is in reach: the
   labels are not those of a request that changes them (Submit, kubectl apply). *)
Admitted(k, t) == \/ t.subnet = NoSubnet
                  \/ /\ validateAnnotationIP(t) /\ validateAnnotationMac(t)
                     /\ validateIPsInReserved(k, t)
LEMMA RequestWritten ==
    ASSUME TypeInv, [Next]_vars, NEW k \in Validated, request'[k].exists
    PROVE  request'[k] = request[k] \/ Admitted(k, request'[k].tmpl)
<1>1. request \in [Key -> Stored] /\ k \in Key
  BY Zenon DEF TypeInv, ObjectsOK, Validated
<1>2. ASSUME NEW l \in Key, NEW t, NEW labels, Submit(l, t, labels)
      PROVE  request'[k] = request[k] \/ Admitted(k, request'[k].tmpl)
  <2>. DEFINE r == [exists |-> TRUE, deleting |-> FALSE, tmpl |-> t, labels |-> labels]
  <2>1. request' = [request EXCEPT ![l] = r]
    BY <1>2, Zenon DEF Submit
  <2>2. r.tmpl = t
    BY Zenon
  <2>. HIDE DEF r
  <2>3. CASE l # k
    BY <1>1, <2>1, <2>3, Zenon
  <2>4. CASE l = k
    <3>1. request'[k].tmpl = t
      BY <1>1, <2>1, <2>2, <2>4, Zenon
    <3>2. k \notin WebhookIgnored /\ k \notin Replacing
      BY Zenon DEF Validated
    <3>3. validateWorkload(k, t, labels) /\ ~isUpdatingWorkloadSubnetLabel(k, labels)
      BY <1>2, <2>4, <3>2, Zenon DEF Submit, isUpdatingWorkloadSubnetLabel
    <3>4. Admitted(k, t)
      BY <3>3, Zenon DEF validateWorkload, Admitted
    <3>. QED  BY <3>1, <3>4
  <2>. QED  BY <2>3, <2>4
<1>3. ASSUME NEW l \in Key, Store(l)
      PROVE  request'[k] = request[k]
  <2>1. request' = [request EXCEPT ![l] = NoObject]
    BY <1>3, Zenon DEF Store
  <2>2. ~NoObject.exists
    BY DEF NoObject
  <2>. QED  BY <1>1, <2>1, <2>2, Zenon
<1>4. (\E l \in Key : Submitted(l) \/ Store(l)) \/ request' = request
  BY Actions, Frames, Zenon
<1>. QED  BY <1>2, <1>3, <1>4, Zenon DEF Submitted

(* The template of a stored workload is the one it had or the one of the request. *)
LEMMA WorkloadsWritten ==
    ASSUME TypeInv, [Next]_vars, NEW k \in Key, workloads'[k].exists
    PROVE  \/ workloads[k].exists /\ workloads'[k].tmpl = workloads[k].tmpl
           \/ request[k].exists /\ workloads'[k].tmpl = request[k].tmpl
<1>. DEFINE Goal == \/ workloads[k].exists /\ workloads'[k].tmpl = workloads[k].tmpl
                    \/ request[k].exists /\ workloads'[k].tmpl = request[k].tmpl
<1>1. workloads \in [Key -> Stored]
  BY Zenon DEF TypeInv, ObjectsOK
<1>2. ASSUME NEW o \in Object, NEW x, NEW y
      PROVE  /\ [o EXCEPT !.labels = x].tmpl = o.tmpl
             /\ [o EXCEPT !.deleting = x].tmpl = o.tmpl
             /\ [o EXCEPT !.tmpl = x, !.labels = y].tmpl = x
  BY Zenon DEF Object
<1>3. ~NoObject.exists
  BY DEF NoObject
<1>4. ASSUME NEW l \in Key, NEW new, workloads' = [workloads EXCEPT ![l] = new]
      PROVE  workloads'[k] = IF l = k THEN new ELSE workloads[k]
  BY <1>1, <1>4
<1>5. ASSUME NEW l \in Key, Store(l) PROVE Goal
  <2>. DEFINE o == workloads[l]
              labels == IF l \in Replacing THEN request[l].labels ELSE o.labels
              edited == [o EXCEPT !.tmpl = request[l].tmpl, !.labels = labels]
              new == IF ~o.exists THEN request[l] ELSE IF o.deleting THEN o ELSE edited
  <2>1. workloads' = [workloads EXCEPT ![l] = new] /\ request[l].exists
    BY <1>5, Zenon DEF Store
  <2>2. o.exists => o \in Object
    BY <1>1, StoredType, Zenon
  <2>. HIDE DEF labels
  <2>3. o.exists => edited.tmpl = request[l].tmpl
    BY <1>2, <2>2
  <2>. HIDE DEF edited, o
  <2>4. new.tmpl = request[l].tmpl \/ (o.exists /\ new = o)
    BY <2>3, Zenon
  <2>. HIDE DEF new
  <2>5. workloads'[k] = IF l = k THEN new ELSE workloads[k]
    BY <1>4, <2>1, Zenon
  <2>6. CASE l = k
    BY <2>1, <2>4, <2>5, <2>6, Zenon DEF o
  <2>7. CASE l # k
    BY <2>5, <2>7, Zenon
  <2>. QED  BY <2>6, <2>7
<1>6. ASSUME NEW l \in Key, Delete(l) PROVE Goal
  <2>1. \/ workloads' = [workloads EXCEPT ![l] = [workloads[l] EXCEPT !.deleting = TRUE]]
        \/ workloads' = [workloads EXCEPT ![l] = NoObject]
    BY <1>6, Zenon DEF Delete
  <2>2. workloads[l].exists /\ workloads[l] \in Object
    BY <1>1, <1>6, StoredType, Zenon DEF Delete
  <2>3. [workloads[l] EXCEPT !.deleting = TRUE].tmpl = workloads[l].tmpl
    BY <1>2, <2>2
  <2>. DEFINE marked == [workloads[l] EXCEPT !.deleting = TRUE]
  <2>. HIDE DEF marked
  <2>4. CASE workloads' = [workloads EXCEPT ![l] = marked]
    <3>1. workloads'[k] = IF l = k THEN marked ELSE workloads[k]
      BY <1>4, <2>4, Zenon
    <3>2. CASE l = k
      <4>1. workloads'[k].tmpl = workloads[k].tmpl /\ workloads[k].exists
        BY <2>2, <2>3, <3>1, <3>2, Zenon DEF marked
      <4>. QED  BY <4>1, Zenon
    <3>3. CASE l # k
      BY <3>1, <3>3, Zenon
    <3>. QED  BY <3>2, <3>3
  <2>5. CASE workloads' = [workloads EXCEPT ![l] = NoObject]
    BY <1>3, <1>4, <2>5, Zenon
  <2>. QED  BY <2>1, <2>4, <2>5, Zenon DEF marked
<1>7. ASSUME NEW l \in Key, Collect(l) PROVE Goal
  <2>1. workloads' = [workloads EXCEPT ![l] = NoObject]
    BY <1>7, Zenon DEF Collect
  <2>. QED  BY <1>3, <1>4, <2>1, Zenon
<1>8. CASE UNCHANGED workloads
  BY <1>8, Zenon
<1>9. ASSUME NEW l \in Key, syncWorkload(l) PROVE Goal
  <2>. DEFINE labels == getTemplateFlatNetworkLabel(GetTemplateObjectMeta(l, cache[l]))
  <2>1. \/ workloads' = workloads
        \/ /\ workloads[l].exists
           /\ workloads' = [workloads EXCEPT ![l] = [workloads[l] EXCEPT !.labels = labels]]
    BY <1>9, Zenon DEF syncWorkload
  <2>. HIDE DEF labels
  <2>2. workloads[l].exists => workloads[l] \in Object
    BY <1>1, StoredType, Zenon
  <2>3. workloads[l].exists =>
            [workloads[l] EXCEPT !.labels = labels].tmpl = workloads[l].tmpl
    BY <1>2, <2>2
  <2>. QED  BY <1>4, <1>8, <2>1, <2>3, Zenon
<1>10. \/ \E l \in Key : Store(l) \/ Delete(l) \/ Collect(l) \/ syncWorkload(l)
       \/ workloads' = workloads
  BY Actions, Frames, Zenon
<1>. QED  BY <1>5, <1>6, <1>7, <1>8, <1>9, <1>10, Zenon

(***************************************************************************)
(* Exclusive addresses.  No inductive invariant beyond the types is        *)
(* needed, because the premise of the property speaks about every copy of  *)
(* a template that is on its way: an address comes into the request of a   *)
(* workload by way of the webhook, from there into the store, the cache,   *)
(* the worker and the reservations, one step at a time.                    *)
(***************************************************************************)
LEMMA StaysUnwanted ==
    ASSUME TypeInv, [Next]_vars, NEW k \in Key, NEW j \in Validated \ {k}, NEW s \in Subnet,
           NEW a, a \in status[s].reserved[k], ~Wants(j, s, a)
    PROVE  ~Wants(j, s, a)'
<1>. USE DEF Wants
<1>1. j \in Key
  BY Zenon DEF Validated
<1>2. ~(workloads'[j].exists /\ Lists(workloads'[j].tmpl, s, a))
  BY <1>1, WorkloadsWritten, Zenon
<1>3. ~(request'[j].exists /\ Lists(request'[j].tmpl, s, a))
  <2>1. ASSUME NEW t, Admitted(j, t) PROVE ~Lists(t, s, a)
    <3>1. CASE t.subnet = NoSubnet
      BY <3>1, NameAssumption, Zenon DEF Lists
    <3>2. CASE validateIPsInReserved(j, t)
      <4>1. Owner(j) = j
        BY Zenon DEF Validated
      <4>2. \A i \in Key \ {j} : status[t.subnet].reserved[i] \cap Elements(t.ips) = {}
        BY <3>2, <4>1, Zenon DEF validateIPsInReserved
      <4>. QED  BY <4>2, Zenon DEF Lists
    <3>. QED  BY <2>1, <3>1, <3>2, Zenon DEF Admitted
  <2>. QED  BY <2>1, RequestWritten, Zenon
<1>4. ~(cache'[j].exists /\ Lists(cache'[j].tmpl, s, a))
  BY <1>1, CacheWritten, Zenon
<1>5. ~Lists(work'[j].w, s, a)
  <2>1. ~Lists(NoAnnotations, s, a)
    <3>1. NoAnnotations.subnet = NoSubnet
      BY Zenon DEF NoAnnotations
    <3>. QED  BY <3>1, NameAssumption, Zenon DEF Lists
  <2>. QED  BY <1>1, <2>1, TakenFromCache, Zenon
<1>6. a \notin status'[s].reserved[j]
  <2>1. a \notin status[s].reserved[j] /\ ~Lists(work[j].w, s, a)
    BY Zenon
  <2>2. \/ status'[s].reserved[j] = status[s].reserved[j]
        \/ status'[s].reserved[j] = {}
        \/ work[j].w.subnet = s /\ status'[s].reserved[j] = Elements(work[j].w.ips)
    BY <1>1, ReservedWritten, Zenon
  <2>3. CASE status'[s].reserved[j] = status[s].reserved[j]
    BY <2>1, <2>3, Zenon
  <2>4. CASE status'[s].reserved[j] = {}
    BY <2>4, Zenon
  <2>5. CASE work[j].w.subnet = s /\ status'[s].reserved[j] = Elements(work[j].w.ips)
    BY <2>1, <2>5, Zenon DEF Lists
  <2>. QED  BY <2>2, <2>3, <2>4, <2>5, Zenon
<1>. QED  BY <1>2, <1>3, <1>4, <1>5, <1>6, Zenon

(* For any workloads and subnets: as long as a workload keeps an address reserved
   that no other validated workload has asked for, none of them comes to ask for
   it (validateIPsInReserved sees the stored reservation, and everything that the
   handlers write was admitted before). *)
THEOREM StaysExclusiveProperty == Spec => StaysExclusive
<1>1. TypeInv /\ [Next]_vars =>
          \A k \in Key, s \in Subnet, a \in Addr :
              Exclusive(k, s, a) /\ a \in status'[s].reserved[k] => Exclusive(k, s, a)'
  BY StaysUnwanted, Zenon DEF Exclusive
<1>. QED  BY <1>1, TypeInvariant, PTL DEF Spec, StaysExclusive

(***************************************************************************)
(* Edits.  The webhook refuses a template for what is wrong with it or for *)
(* what others have; the first was looked at when the template was stored, *)
(* which is the invariant.                                                 *)
(***************************************************************************)
WellFormed(t) == t.subnet = NoSubnet \/ (validateAnnotationIP(t) /\ validateAnnotationMac(t))
WellFormedInv ==
    \A k \in Validated : /\ workloads[k].exists => WellFormed(workloads[k].tmpl)
                         /\ request[k].exists => WellFormed(request[k].tmpl)

LEMMA WellFormedInit == Init => WellFormedInv
<1>1. ~NoObject.exists
  BY DEF NoObject
<1>. QED  BY <1>1, Zenon DEF Init, WellFormedInv, Validated

LEMMA WellFormedStep == TypeInv /\ WellFormedInv /\ [Next]_vars => WellFormedInv'
<1>. SUFFICES ASSUME TypeInv, WellFormedInv, [Next]_vars, NEW k \in Validated
              PROVE  /\ workloads'[k].exists => WellFormed(workloads'[k].tmpl)
                     /\ request'[k].exists => WellFormed(request'[k].tmpl)
  BY Zenon DEF WellFormedInv, WellFormed, validateAnnotationIP, validateAnnotationMac, Validated
<1>1. k \in Key
  BY Zenon DEF Validated
<1>2. workloads'[k].exists => WellFormed(workloads'[k].tmpl)
  BY <1>1, WorkloadsWritten, Zenon DEF WellFormedInv
<1>3. \A t : Admitted(k, t) => WellFormed(t)
  BY Zenon DEF Admitted, WellFormed
<1>4. request'[k].exists => WellFormed(request'[k].tmpl)
  BY <1>3, RequestWritten, Zenon DEF WellFormedInv
<1>. QED  BY <1>2, <1>4

LEMMA WellFormedInvariant == Spec => []WellFormedInv
BY TypeInvariant, WellFormedInit, WellFormedStep, PTL DEF Spec

(* validateIPsInUsed and validateMACsInUsed leave out what belongs to the pods of
   the workload, in whatever subnet. *)
LEMMA OnlyOwnUsed ==
    ASSUME NEW k, NEW t, t.subnet \in Subnet,
           \A j \in Key \ Own(k) : \A p \in status[t.subnet].pods[j] :
               p.addr \notin Elements(t.ips) /\ p.mac \notin Elements(t.macs)
    PROVE  validateIPsInUsed(k, t) /\ validateMACsInUsed(k, t)
<1>1. ASSUME NEW j \in Own(k), NEW p \in status[t.subnet].pods[j]
      PROVE  p \in getWorkloadPodFlatNetworkIPs(k)
  BY DEF getWorkloadPodFlatNetworkIPs, Own
<1>2. ASSUME NEW a \in UsedIP(t.subnet), a \in Elements(t.ips)
      PROVE  a \in {p.addr : p \in getWorkloadPodFlatNetworkIPs(k)}
  <2>1. PICK j \in Key : \E p \in status[t.subnet].pods[j] : a = p.addr
    BY Zenon DEF UsedIP
  <2>. QED  BY <1>1, <1>2, <2>1, Zenon
<1>3. ASSUME NEW m \in UsedMAC(t.subnet), m \in Elements(t.macs)
      PROVE  m \in {p.mac : p \in getWorkloadPodFlatNetworkIPs(k)}
  <2>1. PICK j \in Key : \E p \in status[t.subnet].pods[j] : m = p.mac
    BY Zenon DEF UsedMAC
  <2>. QED  BY <1>1, <1>3, <2>1, Zenon
<1>. QED  BY <1>2, <1>3, Zenon DEF validateIPsInUsed, validateMACsInUsed

(* For any workloads, subnets and pods: the webhook does not refuse a workload
   that was validated when it was stored because of its own reservation, or
   because of its own pods, in this subnet or in the one it comes from. *)
THEOREM EditIsAdmittedInvariant == Spec => []EditIsAdmitted
<1>1. TypeInv /\ WellFormedInv => EditIsAdmitted
  <2>. SUFFICES ASSUME TypeInv, WellFormedInv, NEW k \in Validated,
                       workloads[k].exists, workloads[k].tmpl.subnet # NoSubnet,
                       \A j \in Key \ {k} : status[workloads[k].tmpl.subnet].reserved[j]
                                                \cap Elements(workloads[k].tmpl.ips) = {},
                       \A j \in Key \ Own(k) :
                           \A p \in status[workloads[k].tmpl.subnet].pods[j] :
                               /\ p.addr \notin Elements(workloads[k].tmpl.ips)
                               /\ p.mac \notin Elements(workloads[k].tmpl.macs)
                PROVE  validateWorkload(k, workloads[k].tmpl, workloads[k].labels)
    BY Zenon DEF EditIsAdmitted
  <2>. DEFINE t == workloads[k].tmpl
  <2>1. t.subnet \in Subnet
    <3>1. t \in Templates
      BY StoredType, Zenon DEF TypeInv, ObjectsOK, Validated
    <3>. QED  BY <3>1, TemplateType, Zenon
  <2>2. validateAnnotationIP(t) /\ validateAnnotationMac(t)
    BY Zenon DEF WellFormedInv, WellFormed
  <2>3. validateIPsInReserved(k, t)
    BY Zenon DEF validateIPsInReserved
  <2>4. validateIPsInUsed(k, t) /\ validateMACsInUsed(k, t)
    BY <2>1, OnlyOwnUsed, Zenon
  <2>. QED  BY <2>2, <2>3, <2>4, Zenon DEF validateWorkload
<1>. QED  BY <1>1, TypeInvariant, WellFormedInvariant, PTL
=============================================================================
