----------------------- MODULE SubnetAdmissionProofs -----------------------
(***************************************************************************)
(* Proofs about module SubnetAdmission, for any number of subnets, any     *)
(* specs that users may write and any width of addresses: its variables    *)
(* have their types, and where the webhook is in reach an Active subnet    *)
(* has a valid spec.                                                       *)
(***************************************************************************)
EXTENDS SubnetAdmission, TLAPS

(***************************************************************************)
(* The network of an address.                                              *)
(***************************************************************************)

LEMMA MaskArithmetic ==
    ASSUME NEW x \in Int, NEW m \in Nat \ {0}
    PROVE  /\ (x - (x % m)) \in Int
           /\ (x - (x % m)) % m = 0
           /\ (x - (x % m)) - ((x - (x % m)) % m) = x - (x % m)
<1>1. (x - (x % m)) % m = 0
  OBVIOUS
<1>2. (x - (x % m)) \in Int
  OBVIOUS
<1>. QED  BY <1>1, <1>2

(* Masking twice is masking once (net.IP.Mask). *)
LEMMA MaskIdempotent ==
    ASSUME NEW ip \in Addr, NEW bits \in 0 .. W
    PROVE  Mask(ip, bits) \in Int /\ Mask(Mask(ip, bits), bits) = Mask(ip, bits)
<1>. DEFINE m == 2^bits
<1>1. m \in Nat \ {0}
  BY PowerPositive
<1>2. ip \in Int
  BY WidthPositive DEF Addr
<1>. HIDE DEF m
<1>3. /\ (ip - (ip % m)) \in Int
      /\ (ip - (ip % m)) - ((ip - (ip % m)) % m) = ip - (ip % m)
  BY <1>1, <1>2, MaskArithmetic
<1>. QED  BY <1>3, Zenon DEF Mask, m

(* The network of an address is an address. *)
LEMMA MaskType ==
    ASSUME NEW ip \in Addr, NEW bits \in 0 .. W
    PROVE  Mask(ip, bits) \in Addr
<1>1. 2^bits \in Nat \ {0} /\ 2^W \in Nat \ {0} /\ W \in Nat
  BY PowerPositive, WidthPositive
<1>2. ip % 2^bits \in Nat /\ ip % 2^bits <= ip
  <2>. DEFINE m == 2^bits
  <2>1. m \in Nat \ {0} /\ ip \in Nat
    BY <1>1 DEF Addr
  <2>. HIDE DEF m
  <2>2. ip % m \in Nat /\ ip % m <= ip
    BY <2>1
  <2>. QED  BY <2>2 DEF m
<1>. QED  BY <1>1, <1>2 DEF Mask, Addr

Written == Specs \cup {Normal(s) : s \in Specs}
CIDR == [ip : Addr, bits : 0 .. W]
Masked(c) == [c EXCEPT !.ip = Network(c)]

LEMMA SpecTypes ==
    ASSUME NEW s \in Specs
    PROVE  s \in SubnetSpecs
<1>1. PICK n \in Name : s \in SpecsOf(n)
  BY DEF Specs
<1>. QED  BY <1>1, SpecAssumption, Zenon

(* What normalizing the CIDR does to a spec. *)
LEMMA NormalSpec ==
    ASSUME NEW s \in SubnetSpecs
    PROVE  /\ Normal(s) \in SubnetSpecs
           /\ Normal(s).cidr = Masked(s.cidr)
           /\ Normal(s).flatMode = s.flatMode /\ Normal(s).gateway = s.gateway
           /\ Normal(s).ranges = s.ranges /\ Normal(s).vias = s.vias
           /\ LabelsOf(Normal(s)) = LabelsOf(s)
<1>1. s.cidr \in CIDR
  BY Zenon DEF SubnetSpecs, CIDR
<1>2. Network(s.cidr) \in Addr
  BY <1>1, MaskType, Zenon DEF Network, CIDR
<1>3. Masked(s.cidr) \in CIDR
  BY <1>1, <1>2, Zenon DEF CIDR, Masked
<1>4. ASSUME NEW c \in CIDR
      PROVE  /\ [s EXCEPT !.cidr = c] \in SubnetSpecs
             /\ [s EXCEPT !.cidr = c].cidr = c
             /\ [s EXCEPT !.cidr = c].flatMode = s.flatMode
             /\ [s EXCEPT !.cidr = c].gateway = s.gateway
             /\ [s EXCEPT !.cidr = c].ranges = s.ranges
             /\ [s EXCEPT !.cidr = c].vias = s.vias
             /\ [s EXCEPT !.cidr = c].master = s.master
             /\ [s EXCEPT !.cidr = c].vlan = s.vlan
             /\ [s EXCEPT !.cidr = c].mode = s.mode
  BY Zenon DEF SubnetSpecs, CIDR
<1>5. Normal(s) = [s EXCEPT !.cidr = Masked(s.cidr)]
  BY Zenon DEF Normal, Masked
<1>. DEFINE c == Masked(s.cidr)
<1>6. c \in CIDR /\ Normal(s) = [s EXCEPT !.cidr = c] /\ c = Masked(s.cidr)
  BY <1>3, <1>5
<1>. HIDE DEF c
<1>8. LabelsOf(Normal(s)) = LabelsOf(s)
  <2>1. /\ Normal(s).master = s.master /\ Normal(s).vlan = s.vlan
        /\ Normal(s).mode = s.mode /\ Normal(s).flatMode = s.flatMode
    BY <1>4, <1>6
  <2>. QED  BY <2>1, Zenon DEF LabelsOf
<1>9. Normal(s) \in SubnetSpecs /\ Normal(s).cidr = c
  BY <1>4, <1>6, Zenon
<1>10. /\ Normal(s).flatMode = s.flatMode /\ Normal(s).gateway = s.gateway
       /\ Normal(s).ranges = s.ranges /\ Normal(s).vias = s.vias
  BY <1>4, <1>6, Zenon
<1>. QED  BY <1>6, <1>8, <1>9, <1>10, Zenon

LEMMA NormalCIDR ==
    ASSUME NEW c \in CIDR
    PROVE  /\ Masked(c) \in CIDR /\ Masked(c).ip = Network(c)
           /\ Network(Masked(c)) = Network(c)
           /\ \A ip : IPInNetwork(ip, Masked(c)) <=> IPInNetwork(ip, c)
<1>1. Network(c) \in Addr /\ c.ip \in Addr /\ c.bits \in 0 .. W
  BY MaskType, Zenon DEF Network, CIDR
<1>2. Masked(c) \in CIDR /\ Masked(c).bits = c.bits /\ Masked(c).ip = Network(c)
  BY <1>1, Zenon DEF CIDR, Masked
<1>3. Mask(Network(c), c.bits) = Network(c)
  BY <1>1, MaskIdempotent, Zenon DEF Network
<1>4. Network(Masked(c)) = Network(c)
  BY <1>2, <1>3, Zenon DEF Network
<1>. QED  BY <1>2, <1>4, Zenon DEF IPInNetwork

(* handleSubnet and the webhook agree before and after the CIDR is normalized. *)
LEMMA NormalIsValid ==
    ASSUME NEW s \in SubnetSpecs
    PROVE  ValidateSubnet(Normal(s)) <=> ValidateSubnet(s)
<1>1. s.cidr \in CIDR
  BY Zenon DEF SubnetSpecs, CIDR
<1>2. \A ip : IPInNetwork(ip, Normal(s).cidr) <=> IPInNetwork(ip, s.cidr)
  <2>1. Normal(s).cidr = Masked(s.cidr)
    BY NormalSpec
  <2>2. \A ip : IPInNetwork(ip, Masked(s.cidr)) <=> IPInNetwork(ip, s.cidr)
    BY <1>1, NormalCIDR
  <2>. QED  BY <2>1, <2>2
<1>3. isValidGateway(s.gateway, Normal(s).cidr) <=> isValidGateway(s.gateway, s.cidr)
  BY <1>2, Zenon DEF isValidGateway
<1>4. isValidRanges(s.ranges, Normal(s).cidr) <=> isValidRanges(s.ranges, s.cidr)
  BY <1>2, Zenon DEF isValidRanges
<1>5. isValidRoutes(Normal(s).cidr, s.vias) <=> isValidRoutes(s.cidr, s.vias)
  BY <1>2, Zenon DEF isValidRoutes
<1>. QED  BY <1>3, <1>4, <1>5, NormalSpec, Zenon DEF ValidateSubnet

(* Normalizing twice is normalizing once. *)
LEMMA NormalIdempotent ==
    ASSUME NEW s \in SubnetSpecs
    PROVE  Normal(Normal(s)) = Normal(s)
<1>1. s.cidr \in CIDR
  BY Zenon DEF SubnetSpecs, CIDR
<1>2. Normal(s) \in SubnetSpecs /\ Network(Normal(s).cidr) = Network(s.cidr)
  BY <1>1, NormalSpec, NormalCIDR, Zenon
<1>3. Normal(s).cidr \in CIDR /\ Normal(s).cidr.ip = Network(s.cidr)
  BY <1>1, NormalSpec, NormalCIDR, Zenon
<1>4. ASSUME NEW c \in CIDR PROVE [c EXCEPT !.ip = c.ip] = c
  BY DEF CIDR
<1>5. Masked(Normal(s).cidr) = Normal(s).cidr
  BY <1>2, <1>3, <1>4, Zenon DEF Masked
<1>6. ASSUME NEW t \in SubnetSpecs PROVE [t EXCEPT !.cidr = t.cidr] = t
  BY DEF SubnetSpecs
<1>7. Normal(Normal(s)) = [Normal(s) EXCEPT !.cidr = Masked(Normal(s).cidr)]
  BY Zenon DEF Normal, Masked
<1>. QED  BY <1>2, <1>5, <1>6, <1>7

LEMMA WrittenTypes ==
    ASSUME NEW s \in Written
    PROVE  s \in SubnetSpecs /\ Normal(s) \in Written /\ LabelsOf(s) \in {LabelsOf(t) : t \in Specs}
<1>1. CASE s \in Specs
  BY <1>1, SpecTypes, Zenon DEF Written
<1>2. ASSUME NEW t \in Specs, s = Normal(t)
      PROVE  s \in SubnetSpecs /\ Normal(s) \in Written
             /\ LabelsOf(s) \in {LabelsOf(r) : r \in Specs}
  <2>1. t \in SubnetSpecs
    BY SpecTypes
  <2>2. s \in SubnetSpecs /\ Normal(s) = s /\ LabelsOf(s) = LabelsOf(t)
    BY <1>2, <2>1, NormalSpec, NormalIdempotent
  <2>. QED  BY <2>2, Zenon
<1>. QED  BY <1>1, <1>2, Zenon DEF Written

(***************************************************************************)
(* Type correctness, with the one fact it needs about a worker: the object *)
(* it is about to send exists.                                             *)
(***************************************************************************)
Worker == [pc : PC, obj : Objects, base : Objects]
Requests == [exists : {TRUE}, spec : Specs] \cup {NoObject}
SubnetsOK == subnets \in [Name -> Objects] /\ cache \in [Name -> Objects]
RequestsOK == request \in [Name -> Requests] /\ edits \in 0 .. MaxEdits
WorkOK == /\ work \in [Name -> Worker]
          /\ \A n \in Name : work[n].pc \in {"put", "again", "status"} => work[n].base.exists
TypeInv == SubnetsOK /\ RequestsOK /\ WorkOK

LEMMA TypeInvIsTypeOK == TypeInv => TypeOK
BY Zenon DEF TypeInv, TypeOK, SubnetsOK, RequestsOK, WorkOK, Worker, Requests

LEMMA ObjectTypes ==
    /\ FlatNetworkSubnet = [exists : {TRUE}, phase : {"", "Active", "Failed"},
                            deleting : BOOLEAN, spec : Written,
                            labels : {NoLabels} \cup {LabelsOf(s) : s \in Specs}]
    /\ ~NoObject.exists
    /\ \A o \in Objects : o.exists => o \in FlatNetworkSubnet
    /\ NoObject \in Objects
<1>1. ~NoObject.exists
  BY DEF NoObject
<1>. QED  BY <1>1, Zenon DEF FlatNetworkSubnet, Written, Objects

LEMMA IdleType == Idle \in Worker /\ Idle.pc = "idle"
BY ObjectTypes DEF Idle, Worker, PC

(* Writing fields of a subnet. *)
LEMMA WithPhase ==
    ASSUME NEW o \in FlatNetworkSubnet, NEW phase \in {"", "Active", "Failed"}
    PROVE  /\ [o EXCEPT !.phase = phase] \in FlatNetworkSubnet
           /\ [o EXCEPT !.phase = phase].spec = o.spec
           /\ [o EXCEPT !.phase = phase].exists
BY ObjectTypes, Zenon

LEMMA WithDeleting ==
    ASSUME NEW o \in FlatNetworkSubnet
    PROVE  /\ [o EXCEPT !.deleting = TRUE] \in FlatNetworkSubnet
           /\ [o EXCEPT !.deleting = TRUE].spec = o.spec
BY ObjectTypes, Zenon

LEMMA WithSpec ==
    ASSUME NEW o \in FlatNetworkSubnet, NEW s \in Specs
    PROVE  /\ [o EXCEPT !.spec = s] \in FlatNetworkSubnet
           /\ [o EXCEPT !.spec = s].spec = s
<1>1. s \in Written
  BY Zenon DEF Written
<1>. QED  BY <1>1, ObjectTypes, Zenon

LEMMA LabelledType ==
    ASSUME NEW o \in FlatNetworkSubnet
    PROVE  Labelled(o) \in FlatNetworkSubnet /\ Labelled(o).spec = Normal(o.spec)
           /\ Labelled(o).exists
<1>1. o.spec \in Written
  BY ObjectTypes, Zenon
<1>2. ASSUME NEW s \in Written, NEW l \in {NoLabels} \cup {LabelsOf(t) : t \in Specs}
      PROVE  /\ [o EXCEPT !.labels = l, !.spec = s] \in FlatNetworkSubnet
             /\ [o EXCEPT !.labels = l, !.spec = s].spec = s
             /\ [o EXCEPT !.labels = l, !.spec = s].exists
  <2>1. [o EXCEPT !.labels = l] \in FlatNetworkSubnet
    BY ObjectTypes, Zenon
  <2>2. ASSUME NEW p \in FlatNetworkSubnet
        PROVE  /\ [p EXCEPT !.spec = s] \in FlatNetworkSubnet
               /\ [p EXCEPT !.spec = s].spec = s /\ [p EXCEPT !.spec = s].exists
    BY ObjectTypes, Zenon
  <2>. QED  BY <2>1, <2>2
<1>3. Normal(o.spec) \in Written /\ LabelsOf(o.spec) \in {NoLabels} \cup {LabelsOf(t) : t \in Specs}
  BY <1>1, WrittenTypes, Zenon
<1>. QED  BY <1>2, <1>3, Zenon DEF Labelled

(* What a step may leave as the stored subnet: nothing, the spec that it had, as
   it was or with the CIDR normalized, or the spec of the request. *)
Derived(n, o) ==
    /\ o \in Objects
    /\ o.exists => \/ subnets[n].exists /\ o.spec \in {subnets[n].spec, Normal(subnets[n].spec)}
                   \/ request[n].exists /\ o.spec = request[n].spec
SubnetsDerived == /\ subnets' \in [Name -> Objects]
                  /\ \A n \in Name : Derived(n, subnets'[n])

LEMMA PutDerived ==
    ASSUME SubnetsOK, NEW n \in Name, NEW o, Derived(n, o), subnets' = [subnets EXCEPT ![n] = o]
    PROVE  SubnetsDerived
<1>1. subnets \in [Name -> Objects] /\ o \in Objects
  BY Zenon DEF SubnetsOK, Derived
<1>2. subnets' \in [Name -> Objects]
  BY <1>1, Zenon
<1>3. \A m \in Name : subnets'[m] = IF m = n THEN o ELSE subnets[m]
  BY <1>1
<1>4. \A m \in Name : Derived(m, subnets[m])
  BY <1>1, Zenon DEF Derived
<1>. QED  BY <1>2, <1>3, <1>4, Zenon DEF SubnetsDerived

LEMMA SameDerived ==
    ASSUME SubnetsOK, UNCHANGED subnets
    PROVE  SubnetsDerived
BY Zenon DEF SubnetsOK, SubnetsDerived, Derived

LEMMA NothingDerived == ASSUME NEW n PROVE Derived(n, NoObject)
BY ObjectTypes, Zenon DEF Derived

LEMMA StoreDerived ==
    ASSUME TypeInv, NEW n \in Name, Store(n)
    PROVE  SubnetsDerived
<1>. DEFINE new == [exists |-> TRUE, phase |-> "", deleting |-> FALSE,
                    spec |-> request[n].spec, labels |-> NoLabels]
            edited == [subnets[n] EXCEPT !.spec = request[n].spec]
<1>1. request[n].exists /\ request[n].spec \in Specs
  BY ObjectTypes, Zenon DEF Store, TypeInv, RequestsOK, Requests
<1>2. request[n].spec \in Written
  BY <1>1, Zenon DEF Written
<1>3. new \in FlatNetworkSubnet /\ new.spec = request[n].spec
  BY <1>2, ObjectTypes, Zenon
<1>4. subnets[n].exists => edited \in FlatNetworkSubnet /\ edited.spec = request[n].spec
  <2>1. subnets[n].exists => subnets[n] \in FlatNetworkSubnet
    BY ObjectTypes, Zenon DEF TypeInv, SubnetsOK
  <2>. QED  BY <1>1, <2>1, WithSpec
<1>5. subnets' = [subnets EXCEPT ![n] = IF subnets[n].exists THEN edited ELSE new]
  BY Zenon DEF Store
<1>. HIDE DEF new, edited
<1>6. Derived(n, IF subnets[n].exists THEN edited ELSE new)
  BY <1>1, <1>3, <1>4, Zenon DEF Derived, Objects
<1>. QED  BY <1>5, <1>6, PutDerived DEF TypeInv

LEMMA PhaseDerived ==
    ASSUME TypeInv, NEW n \in Name, NEW phase \in {"", "Active", "Failed"},
           subnets[n].exists, subnets' = [subnets EXCEPT ![n] = [subnets[n] EXCEPT !.phase = phase]]
    PROVE  SubnetsDerived
<1>1. subnets[n] \in FlatNetworkSubnet
  BY ObjectTypes, Zenon DEF TypeInv, SubnetsOK
<1>2. Derived(n, [subnets[n] EXCEPT !.phase = phase])
  BY <1>1, WithPhase, Zenon DEF Derived, Objects
<1>. QED  BY <1>2, PutDerived DEF TypeInv

LEMMA DeleteDerived ==
    ASSUME TypeInv, NEW n \in Name, Delete(n)
    PROVE  SubnetsDerived
<1>1. subnets[n].exists /\ subnets[n] \in FlatNetworkSubnet
  BY ObjectTypes, Zenon DEF TypeInv, SubnetsOK, Delete
<1>2. Derived(n, [subnets[n] EXCEPT !.deleting = TRUE])
  BY <1>1, WithDeleting, Zenon DEF Derived, Objects
<1>3. subnets' = [subnets EXCEPT ![n] = [subnets[n] EXCEPT !.deleting = TRUE]]
  BY Zenon DEF Delete
<1>. QED  BY <1>2, <1>3, PutDerived DEF TypeInv

(* The update of the labels is based on the stored subnet, or refused. *)
LEMMA PutLabelsDerived ==
    ASSUME TypeInv, NEW n \in Name, PutLabels(n)
    PROVE  SubnetsDerived
<1>1. CASE UNCHANGED subnets
  BY <1>1, SameDerived DEF TypeInv
<1>2. CASE subnets[n] = work[n].base /\ subnets' = [subnets EXCEPT ![n] = Labelled(work[n].base)]
  <2>1. work[n].pc \in {"put", "again", "status"}
    BY Zenon DEF PutLabels, At
  <2>2. subnets[n].exists /\ subnets[n] \in FlatNetworkSubnet
    BY <1>2, <2>1, ObjectTypes, Zenon DEF TypeInv, WorkOK, SubnetsOK
  <2>3. Derived(n, Labelled(subnets[n]))
    BY <2>2, LabelledType, Zenon DEF Derived, Objects
  <2>. QED  BY <1>2, <2>3, PutDerived DEF TypeInv
<1>. QED  BY <1>1, <1>2, Zenon DEF PutLabels

LEMMA SetActiveDerived ==
    ASSUME TypeInv, NEW n \in Name, SetActive(n)
    PROVE  SubnetsDerived
<1>1. CASE UNCHANGED subnets
  BY <1>1, SameDerived DEF TypeInv
<1>2. CASE /\ subnets[n] = work[n].base
           /\ subnets' = [subnets EXCEPT ![n].phase = "Active"]
  <2>1. work[n].pc \in {"put", "again", "status"}
    BY Zenon DEF SetActive, At
  <2>2. subnets[n].exists
    BY <1>2, <2>1, Zenon DEF TypeInv, WorkOK
  <2>. QED  BY <1>2, <2>2, PhaseDerived
<1>. QED  BY <1>1, <1>2, Zenon DEF SetActive

LEMMA RecordFailureDerived ==
    ASSUME TypeInv, NEW n \in Name, RecordFailure(n)
    PROVE  SubnetsDerived
<1>1. CASE UNCHANGED subnets
  BY <1>1, SameDerived DEF TypeInv
<1>2. CASE subnets[n].exists /\ subnets' = [subnets EXCEPT ![n].phase = "Failed"]
  BY <1>2, PhaseDerived
<1>. QED  BY <1>1, <1>2, Zenon DEF RecordFailure

LEMMA RemoveDerived ==
    ASSUME TypeInv, NEW n \in Name, handleSubnetRemove(n)
    PROVE  SubnetsDerived
<1>1. subnets[n].exists /\ subnets' = [subnets EXCEPT ![n] = [subnets[n] EXCEPT !.phase = ""]]
  BY Zenon DEF handleSubnetRemove
<1>. QED  BY <1>1, PhaseDerived

LEMMA RemoveFinalizerDerived ==
    ASSUME TypeInv, NEW n \in Name, RemoveFinalizer(n)
    PROVE  SubnetsDerived
<1>1. CASE UNCHANGED subnets
  BY <1>1, SameDerived DEF TypeInv
<1>2. CASE subnets' = [subnets EXCEPT ![n] = NoObject]
  BY <1>2, NothingDerived, PutDerived DEF TypeInv
<1>3. subnets' = [subnets EXCEPT ![n] = IF subnets[n] = work[n].base THEN NoObject ELSE subnets[n]]
  BY Zenon DEF RemoveFinalizer
<1>4. subnets \in [Name -> Objects]
  BY Zenon DEF TypeInv, SubnetsOK
<1>5. subnets = [subnets EXCEPT ![n] = subnets[n]]
  BY <1>4
<1>. QED  BY <1>1, <1>2, <1>3, <1>5

LEMMA NextDerived ==
    ASSUME TypeInv, [Next]_vars
    PROVE  SubnetsDerived
<1>1. ASSUME UNCHANGED subnets PROVE SubnetsDerived
  BY <1>1, SameDerived DEF TypeInv
<1>2. ASSUME NEW n \in Name, User(n) \/ Store(n) \/ SyncCache(n)
      PROVE  SubnetsDerived
  BY <1>1, <1>2, DeleteDerived, StoreDerived, Zenon DEF User, Submit, SyncCache
<1>3. ASSUME NEW n \in Name, Handler(n)
      PROVE  SubnetsDerived
  BY <1>1, <1>3, PutLabelsDerived, SetActiveDerived, RecordFailureDerived, RemoveDerived,
     RemoveFinalizerDerived, Zenon
  DEF Handler, handleSubnet, SendLabels, PutAgain
<1>. QED  BY <1>1, <1>2, <1>3, Zenon DEF Next, vars

(* The workers. *)
Ready(w) == w \in Worker /\ (w.pc \in {"put", "again", "status"} => w.base.exists)

LEMMA PutWork ==
    ASSUME WorkOK, NEW n \in Name, NEW w, Ready(w), work' = [work EXCEPT ![n] = w]
    PROVE  WorkOK'
<1>1. work \in [Name -> Worker] /\ w \in Worker
  BY Zenon DEF WorkOK, Ready
<1>2. work' \in [Name -> Worker]
  BY <1>1, Zenon
<1>3. \A m \in Name : work'[m] = IF m = n THEN w ELSE work[m]
  BY <1>1
<1>. QED  BY <1>2, <1>3, Zenon DEF WorkOK, Ready

LEMMA DoneWork ==
    ASSUME WorkOK, NEW n \in Name, Done(n)
    PROVE  WorkOK'
<1>1. Ready(Idle)
  BY IdleType DEF Ready
<1>. QED  BY <1>1, PutWork DEF Done

LEMMA GotoWork ==
    ASSUME WorkOK, NEW n \in Name, NEW l \in {"label", "fail"}, Goto(n, l)
    PROVE  WorkOK'
<1>1. work[n] \in Worker
  BY Zenon DEF WorkOK
<1>2. l \in PC /\ l \notin {"put", "again", "status"}
  BY DEF PC
<1>3. [work[n] EXCEPT !.pc = l] \in Worker /\ [work[n] EXCEPT !.pc = l].pc = l
  BY <1>1, <1>2, Zenon DEF Worker
<1>4. Ready([work[n] EXCEPT !.pc = l])
  BY <1>2, <1>3 DEF Ready
<1>5. work' = [work EXCEPT ![n] = [work[n] EXCEPT !.pc = l]]
  BY Zenon DEF Goto
<1>. QED  BY <1>4, <1>5, PutWork

(* A worker that goes on with another base, which exists. *)
LEMMA BaseWork ==
    ASSUME WorkOK, NEW n \in Name, NEW l \in PC, NEW base \in Objects, base.exists,
           work' = [work EXCEPT ![n].pc = l, ![n].base = base]
    PROVE  WorkOK'
<1>. DEFINE w == [work[n] EXCEPT !.pc = l, !.base = base]
<1>1. work \in [Name -> Worker] /\ work[n] \in Worker
  BY Zenon DEF WorkOK
<1>2. [work[n] EXCEPT !.pc = l] \in Worker
  BY <1>1, Zenon DEF Worker
<1>3. ASSUME NEW v \in Worker
      PROVE  [v EXCEPT !.base = base] \in Worker /\ [v EXCEPT !.base = base].base = base
  BY Zenon DEF Worker
<1>4. w \in Worker /\ w.base = base
  BY <1>2, <1>3
<1>5. work' = [work EXCEPT ![n] = w]
  BY <1>1
<1>. HIDE DEF w
<1>6. Ready(w)
  BY <1>4, Zenon DEF Ready
<1>. QED  BY <1>5, <1>6, PutWork

LEMMA FreshWork ==
    ASSUME NEW l \in {"fail", "label", "unfinalize"}, NEW obj \in Objects, NEW base \in Objects
    PROVE  Ready([pc |-> l, obj |-> obj, base |-> base])
<1>1. l \in PC /\ l \notin {"put", "again", "status"}
  BY DEF PC
<1>2. [pc |-> l, obj |-> obj, base |-> base] \in Worker
  BY <1>1, Zenon DEF Worker
<1>3. [pc |-> l, obj |-> obj, base |-> base].pc = l
  OBVIOUS
<1>. QED  BY <1>1, <1>2, <1>3 DEF Ready

LEMMA HandlerWork ==
    ASSUME TypeInv, NEW n \in Name, Handler(n)
    PROVE  WorkOK'
<1>. USE DEF TypeInv
<1>0. cache[n] \in Objects /\ subnets[n] \in Objects /\ NoObject \in Objects
      /\ work[n] \in Worker
  BY ObjectTypes, Zenon DEF SubnetsOK, WorkOK
<1>1. CASE handleSubnet(n)
  <2>1. \/ work' = [work EXCEPT ![n] = [pc |-> "fail", obj |-> cache[n], base |-> NoObject]]
        \/ work' = [work EXCEPT ![n] = [pc |-> "label", obj |-> cache[n], base |-> NoObject]]
    BY <1>1, Zenon DEF handleSubnet
  <2>2. /\ Ready([pc |-> "fail", obj |-> cache[n], base |-> NoObject])
        /\ Ready([pc |-> "label", obj |-> cache[n], base |-> NoObject])
    BY <1>0, FreshWork
  <2>. QED  BY <2>1, <2>2, PutWork
<1>2. CASE SendLabels(n)
  <2>1. \/ Goto(n, "fail")
        \/ cache[n].exists /\ work' = [work EXCEPT ![n].pc = "put", ![n].base = cache[n]]
    BY <1>2, Zenon DEF SendLabels
  <2>2. "put" \in PC
    BY DEF PC
  <2>. QED  BY <1>0, <2>1, <2>2, GotoWork, BaseWork
<1>3. CASE PutLabels(n)
  <2>. DEFINE new == Labelled(work[n].base)
  <2>1. work[n].base.exists
    BY <1>3, Zenon DEF PutLabels, At, WorkOK
  <2>2. work[n].base \in FlatNetworkSubnet
    BY <1>0, <2>1, ObjectTypes, Zenon DEF Worker
  <2>3. new \in Objects /\ new.exists
    BY <2>2, LabelledType, Zenon DEF Objects
  <2>4. \/ Done(n) \/ Goto(n, "label") \/ Goto(n, "fail")
        \/ work' = [work EXCEPT ![n].pc = IF work[n].obj.phase = "Active" THEN "again"
                                          ELSE "status", ![n].base = new]
    BY <1>3, Zenon DEF PutLabels
  <2>. HIDE DEF new
  <2>5. (IF work[n].obj.phase = "Active" THEN "again" ELSE "status") \in PC
    BY DEF PC
  <2>. QED  BY <2>3, <2>4, <2>5, DoneWork, GotoWork, BaseWork
<1>4. CASE PutAgain(n)
  <2>1. Done(n) \/ Goto(n, "label") \/ Goto(n, "fail")
    BY <1>4, Zenon DEF PutAgain
  <2>. QED  BY <2>1, DoneWork, GotoWork
<1>5. CASE SetActive(n)
  <2>1. Done(n) \/ Goto(n, "fail")
    BY <1>5, Zenon DEF SetActive
  <2>. QED  BY <2>1, DoneWork, GotoWork
<1>6. CASE RecordFailure(n) \/ RemoveFinalizer(n)
  BY <1>6, DoneWork, Zenon DEF RecordFailure, RemoveFinalizer
<1>7. CASE handleSubnetRemove(n)
  <2>1. cache[n] \in FlatNetworkSubnet
    BY <1>0, <1>7, ObjectTypes, Zenon DEF handleSubnetRemove
  <2>2. [cache[n] EXCEPT !.phase = ""] \in Objects
    BY <2>1, WithPhase, Zenon DEF Objects
  <2>3. Ready([pc |-> "unfinalize", obj |-> cache[n], base |-> [cache[n] EXCEPT !.phase = ""]])
    BY <1>0, <2>2, FreshWork
  <2>4. work' = [work EXCEPT ![n] = [pc |-> "unfinalize", obj |-> cache[n],
                                     base |-> [cache[n] EXCEPT !.phase = ""]]]
    BY <1>7, Zenon DEF handleSubnetRemove
  <2>. QED  BY <2>3, <2>4, PutWork
<1>. QED  BY <1>1, <1>2, <1>3, <1>4, <1>5, <1>6, <1>7 DEF Handler

LEMMA TypeInit == Init => TypeInv
<1>. SUFFICES ASSUME Init PROVE TypeInv
  OBVIOUS
<1>1. SubnetsOK
  BY ObjectTypes, Zenon DEF Init, SubnetsOK
<1>2. RequestsOK
  <2>1. 0 \in 0 .. MaxEdits
    BY NameAssumption
  <2>. QED  BY <2>1, Zenon DEF Init, RequestsOK, Requests
<1>3. WorkOK
  <2>1. Ready(Idle)
    BY IdleType DEF Ready
  <2>. QED  BY <2>1, Zenon DEF Init, WorkOK, Ready
<1>. QED  BY <1>1, <1>2, <1>3 DEF TypeInv

LEMMA SubmitRequest ==
    ASSUME RequestsOK, NEW n \in Name, NEW spec \in SpecsOf(n), Submit(n, spec)
    PROVE  RequestsOK'
<1>1. spec \in Specs
  BY DEF Specs
<1>2. [exists |-> TRUE, spec |-> spec] \in Requests
  BY <1>1, Zenon DEF Requests
<1>3. request' \in [Name -> Requests]
  BY <1>2, Zenon DEF Submit, RequestsOK
<1>4. edits' \in 0 .. MaxEdits
  <2>1. edits < MaxEdits /\ edits' = edits + 1 /\ edits \in 0 .. MaxEdits
    BY Zenon DEF Submit, RequestsOK
  <2>. QED  BY <2>1, NameAssumption
<1>. QED  BY <1>3, <1>4, Zenon DEF RequestsOK

LEMMA TypeStep == TypeInv /\ [Next]_vars => TypeInv'
<1>. SUFFICES ASSUME TypeInv, [Next]_vars PROVE TypeInv'
  OBVIOUS
<1>. USE DEF TypeInv
<1>1. SubnetsOK'
  <2>1. subnets' \in [Name -> Objects]
    BY NextDerived, Zenon DEF SubnetsDerived
  <2>2. cache' \in [Name -> Objects]
    <3>1. ASSUME NEW n \in Name, SyncCache(n)
          PROVE  cache' \in [Name -> Objects]
      BY <3>1, Zenon DEF SyncCache, SubnetsOK
    <3>2. CASE UNCHANGED cache
      BY <3>2, Zenon DEF SubnetsOK
    <3>. QED
      BY <3>1, <3>2, Zenon
      DEF Next, User, Submit, Delete, Store, Handler, handleSubnet, SendLabels, PutLabels,
          PutAgain, SetActive, RecordFailure, handleSubnetRemove, RemoveFinalizer, vars
  <2>. QED  BY <2>1, <2>2 DEF SubnetsOK
<1>2. RequestsOK'
  <2>1. ASSUME NEW n \in Name, User(n)
        PROVE  RequestsOK'
    <3>1. CASE Delete(n)
      <4>1. /\ edits < MaxEdits /\ edits' = edits + 1 /\ edits \in 0 .. MaxEdits
            /\ request' = request
        BY <3>1, Zenon DEF Delete, RequestsOK
      <4>2. edits' \in 0 .. MaxEdits
        BY <4>1, NameAssumption
      <4>. QED  BY <4>1, <4>2, Zenon DEF RequestsOK
    <3>. QED  BY <2>1, <3>1, SubmitRequest, Zenon DEF User
  <2>2. ASSUME NEW n \in Name, Store(n)
        PROVE  RequestsOK'
    <3>1. NoObject \in Requests
      BY Zenon DEF Requests
    <3>. QED  BY <2>2, <3>1, Zenon DEF Store, RequestsOK
  <2>3. CASE UNCHANGED <<request, edits>>
    BY <2>3, Zenon DEF RequestsOK
  <2>. QED
    BY <2>1, <2>2, <2>3, Zenon
    DEF Next, SyncCache, Handler, handleSubnet, SendLabels, PutLabels, PutAgain, SetActive,
        RecordFailure, handleSubnetRemove, RemoveFinalizer, vars
<1>3. WorkOK'
  <2>1. CASE UNCHANGED work
    BY <2>1, Zenon DEF WorkOK
  <2>. QED
    BY <2>1, HandlerWork, Zenon DEF Next, User, Submit, Delete, Store, SyncCache, vars
<1>. QED  BY <1>1, <1>2, <1>3

LEMMA TypeInvariant == Spec => []TypeInv
BY TypeInit, TypeStep, PTL DEF Spec

(* The variables have their types in every reachable state; in particular the
   handler stores nothing but what a user wrote, with the CIDR normalized. *)
THEOREM TypeCorrect == Spec => []TypeOK
BY TypeInvariant, TypeInvIsTypeOK, PTL

(***************************************************************************)
(* Validity.  onSubnetUpdate does not validate the spec of an Active       *)
(* subnet, so that no spec may get past the webhook: neither the one in a  *)
(* request nor the one stored, and normalizing the CIDR keeps it valid.    *)
(***************************************************************************)
ValidInv ==
    \A n \in Name \ WebhookIgnored :
        /\ request[n].exists => ValidateSubnet(request[n].spec)
        /\ subnets[n].exists => ValidateSubnet(subnets[n].spec)

LEMMA ValidInit == Init => ValidInv
BY ObjectTypes, Zenon DEF Init, ValidInv

LEMMA RequestIsValid ==
    ASSUME TypeInv, ValidInv, [Next]_vars, NEW n \in Name \ WebhookIgnored, request'[n].exists
    PROVE  ValidateSubnet(request'[n].spec)
<1>1. request \in [Name -> Requests]
  BY Zenon DEF TypeInv, RequestsOK
<1>2. ASSUME NEW m \in Name, NEW spec, Submit(m, spec)
      PROVE  ValidateSubnet(request'[n].spec)
  <2>1. request' = [request EXCEPT ![m] = [exists |-> TRUE, spec |-> spec]]
    BY <1>2, Zenon DEF Submit
  <2>2. CASE m # n
    <3>1. request'[n] = request[n]
      BY <1>1, <2>1, <2>2, Zenon
    <3>. QED  BY <3>1, Zenon DEF ValidInv
  <2>3. CASE m = n
    <3>1. request'[n].spec = spec
      BY <1>1, <2>1, <2>3
    <3>2. ValidateSubnet(spec)
      BY <1>2, <2>3, Zenon DEF Submit, Admits, validateFlatNetworkSubnet
    <3>. QED  BY <3>1, <3>2
  <2>. QED  BY <2>2, <2>3
<1>3. ASSUME NEW m \in Name, Store(m)
      PROVE  request'[n] = request[n]
  BY <1>1, <1>3, ObjectTypes, Zenon DEF Store
<1>4. CASE request'[n] = request[n]
  BY <1>4, Zenon DEF ValidInv
<1>. QED
  BY <1>2, <1>3, <1>4, Zenon
  DEF Next, User, Delete, SyncCache, Handler, handleSubnet, SendLabels, PutLabels, PutAgain,
      SetActive, RecordFailure, handleSubnetRemove, RemoveFinalizer, vars

LEMMA SubnetIsValid ==
    ASSUME TypeInv, ValidInv, [Next]_vars, NEW n \in Name \ WebhookIgnored, subnets'[n].exists
    PROVE  ValidateSubnet(subnets'[n].spec)
<1>1. Derived(n, subnets'[n])
  BY NextDerived, Zenon DEF SubnetsDerived
<1>2. CASE subnets[n].exists /\ subnets'[n].spec \in {subnets[n].spec, Normal(subnets[n].spec)}
  <2>1. ValidateSubnet(subnets[n].spec)
    BY <1>2, Zenon DEF ValidInv
  <2>2. subnets[n] \in FlatNetworkSubnet
    BY <1>2, ObjectTypes, Zenon DEF TypeInv, SubnetsOK
  <2>3. subnets[n].spec \in SubnetSpecs
    BY <2>2, ObjectTypes, WrittenTypes, Zenon
  <2>4. ValidateSubnet(Normal(subnets[n].spec))
    BY <2>1, <2>3, NormalIsValid
  <2>. QED  BY <1>2, <2>1, <2>4
<1>3. CASE request[n].exists /\ subnets'[n].spec = request[n].spec
  BY <1>3, Zenon DEF ValidInv
<1>. QED  BY <1>1, <1>2, <1>3, Zenon DEF Derived

LEMMA ValidStep == TypeInv /\ ValidInv /\ [Next]_vars => ValidInv'
<1>. SUFFICES ASSUME TypeInv, ValidInv, [Next]_vars, NEW n \in Name \ WebhookIgnored
              PROVE  /\ request'[n].exists => ValidateSubnet(request'[n].spec)
                     /\ subnets'[n].exists => ValidateSubnet(subnets'[n].spec)
  BY Zenon DEF ValidInv, ValidateSubnet, isValidGateway, isValidRanges, isValidRoutes,
               IPInNetwork, Network, Mask
<1>. QED  BY RequestIsValid, SubnetIsValid

(* For any specs, names and width of addresses: where the webhook is in reach an
   Active subnet has a valid spec, although onSubnetUpdate does not validate it
   and the label update changes its CIDR (handleSubnet, updateSubnetLabel). *)
THEOREM ActiveIsValidInvariant == Spec => []ActiveIsValid
<1>1. ValidInv => ActiveIsValid
  BY Zenon DEF ValidInv, ActiveIsValid, Active
<1>2. Spec => []ValidInv
  BY TypeInvariant, ValidInit, ValidStep, PTL DEF Spec
<1>. QED  BY <1>1, <1>2, PTL
=============================================================================
