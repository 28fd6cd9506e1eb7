---------------------- MODULE FlatNetworkServiceProofs ----------------------
(***************************************************************************)
(* Proofs about module FlatNetworkService, for any specs of the user's     *)
(* service, any number of pods, any order of the backends of the ingress   *)
(* and any bounds: its variables have their types, and the controller does *)
(* not give its own flat-network services a flat-network service.          *)
(***************************************************************************)
EXTENDS FlatNetworkService, TLAPS

Nets == {"", NetAttatchDefName, rancherFlatNetworkCNI}
Uids == 0 .. MaxEvents + 1
Ports == 0 .. MaxPort

(***************************************************************************)
(* Type correctness.                                                       *)
(***************************************************************************)
LEMMA ServiceType ==
    Service = [exists : BOOLEAN, uid : Uids, owner : Uids, net : Nets, kind : ServiceKind,
               sel : BOOLEAN, headless : BOOLEAN, port : Ports, target : Ports]
BY Zenon DEF Service, Uids, Nets, Ports

LEMMA Bounds == 0 \in Uids /\ 0 \in Ports /\ MaxEvents + 1 \in Uids /\ 0 \in 0 .. MaxEvents
BY BoundAssumption DEF Uids, Ports

LEMMA Constants ==
    /\ "" \in Nets /\ NetAttatchDefName \in Nets /\ rancherFlatNetworkCNI \in Nets
    /\ "default" \in ServiceKind
    /\ 0 \in Name
BY DEF Nets, ServiceKind, Name

LEMMA NoServiceType == NoService \in Service
BY ServiceType, Bounds, Constants, Zenon DEF NoService

LEMMA FromSpecType ==
    ASSUME NEW spec \in Specs, NEW uid \in Uids, NEW net \in Nets
    PROVE  FromSpec(spec, uid, net) \in Service
<1>1. spec \in [kind : ServiceKind, sel : BOOLEAN, headless : BOOLEAN,
                port : Ports, target : Ports]
  BY SpecAssumption, Zenon DEF Ports
<1>. QED  BY <1>1, ServiceType, Bounds, Zenon DEF FromSpec

(* Writing one field of a service. *)
LEMMA WithNetType ==
    ASSUME NEW o \in Service, NEW net \in Nets
    PROVE  [o EXCEPT !.net = net] \in Service
BY ServiceType, Zenon

LEMMA WithUidType ==
    ASSUME NEW o \in Service, NEW uid \in Uids
    PROVE  [o EXCEPT !.uid = uid] \in Service
BY ServiceType, Zenon

LEMMA ExpectedType ==
    ASSUME NEW o \in Service, Valid(newFlatNetworkService(o))
    PROVE  newFlatNetworkService(o) \in Service
<1>1. /\ o.port \in Ports /\ o.target \in Ports /\ o.uid \in Uids
      /\ o.sel \in BOOLEAN /\ o.headless \in BOOLEAN
  BY ServiceType, Zenon
<1>2. (IF o.headless THEN o.port + 1 ELSE o.port) \in Ports
  BY <1>1, BoundAssumption DEF newFlatNetworkService, Valid, Ports
<1>3. (IF o.headless THEN o.target + 1 ELSE o.target) \in Ports
  BY <1>1, BoundAssumption DEF newFlatNetworkService, Valid, Ports
<1>4. ASSUME NEW port \in Ports, NEW target \in Ports
      PROVE  [exists |-> TRUE, uid |-> 0, owner |-> o.uid, net |-> NetAttatchDefName,
              kind |-> "default", sel |-> o.sel, headless |-> TRUE,
              port |-> port, target |-> target] \in Service
  BY <1>1, ServiceType, Bounds, Constants, Zenon
<1>. QED  BY <1>2, <1>3, <1>4, Zenon DEF newFlatNetworkService

(* The conjuncts of TypeOK, by what changes together. *)
ServicesOK == /\ services \in [Name -> Service] /\ svcCache \in [Name -> Service]
              /\ svcQueue \subseteq Name /\ young \subseteq Name
PodsOK == pods \in [Pod -> PodKind] /\ podCache \in [Pod -> PodKind]
IngressOK ==
    /\ ingress \in {"none", "on", "off"} /\ ingQueue \in BOOLEAN
    /\ ingWork \in [path : 0 .. Len(Backends), v : {"none", "on", "off"}]
HistoryOK == drifted \in BOOLEAN /\ missed \in BOOLEAN /\ swallowed \in BOOLEAN
             /\ events \in 0 .. MaxEvents
TypeInv == ServicesOK /\ PodsOK /\ IngressOK /\ HistoryOK

LEMMA TypeInvIsTypeOK == TypeInv <=> TypeOK
BY Zenon DEF TypeInv, TypeOK, ServicesOK, PodsOK, IngressOK, HistoryOK

LEMMA PutType ==
    ASSUME ServicesOK, NEW n \in Name, NEW o \in Service, Put(n, o)
    PROVE  services' \in [Name -> Service]
BY Zenon DEF ServicesOK, Put

LEMMA TypeInit == Init => TypeInv
<1>. SUFFICES ASSUME Init PROVE TypeInv
  OBVIOUS
<1>1. services \in [Name -> Service]
  <2>1. PICK o \in {NoService} \cup {FromSpec(spec, MaxEvents + 1, "") : spec \in Specs} :
            services = [n \in Name |-> IF n = 0 THEN o ELSE NoService]
    BY DEF Init
  <2>3. o \in Service
    BY Bounds, Constants, NoServiceType, FromSpecType, Zenon
  <2>. QED  BY <2>1, <2>3, NoServiceType, Zenon
<1>2. ServicesOK
  BY <1>1, Zenon DEF Init, ServicesOK
<1>3. PodsOK
  BY PodAssumption, Zenon DEF Init, PodsOK
<1>4. IngressOK
  <2>1. Len(Backends) \in Nat
    BY BackendAssumption
  <2>2. 0 \in 0 .. Len(Backends)
    BY <2>1
  <2>. QED  BY <2>2, Zenon DEF Init, IngressOK, NoWork
<1>5. HistoryOK
  BY Bounds, Zenon DEF Init, HistoryOK
<1>. QED  BY <1>2, <1>3, <1>4, <1>5 DEF TypeInv

(* the variables of syncService; the others do not change *)
LEMMA HandleFlatType ==
    ASSUME ServicesOK, HistoryOK, NEW n \in Name, handleFlatNetworkService(n)
    PROVE  services' \in [Name -> Service] /\ svcQueue' \subseteq Name /\ missed' \in BOOLEAN
<1>1. services' \in [Name -> Service]
  BY NoServiceType, PutType, Zenon DEF ServicesOK, handleFlatNetworkService
<1>. QED  BY <1>1, Zenon DEF ServicesOK, HistoryOK, handleFlatNetworkService

LEMMA CreateType ==
    ASSUME ServicesOK, HistoryOK, NEW n \in 0 .. 1, NEW o \in Service,
           createFlatNetworkService(n, newFlatNetworkService(o))
    PROVE  services' \in [Name -> Service] /\ svcQueue' \subseteq Name /\ missed' \in BOOLEAN
<1>1. n + 1 \in Name
  BY DEF Name
<1>2. events + 1 \in Uids
  BY BoundAssumption DEF HistoryOK, Uids
<1>3. services' \in [Name -> Service]
  BY <1>1, <1>2, ExpectedType, WithUidType, PutType, Zenon
  DEF ServicesOK, createFlatNetworkService
<1>. QED  BY <1>3, Zenon DEF ServicesOK, HistoryOK, createFlatNetworkService

LEMMA UpdateType ==
    ASSUME ServicesOK, HistoryOK, NEW n \in 0 .. 1, NEW o \in Service,
           updateFlatNetworkService(n, newFlatNetworkService(o))
    PROVE  services' \in [Name -> Service] /\ svcQueue' \subseteq Name /\ missed' \in BOOLEAN
<1>1. n + 1 \in Name
  BY DEF Name
<1>2. services[n + 1].uid \in Uids
  BY <1>1, ServiceType, Zenon DEF ServicesOK
<1>3. services' \in [Name -> Service]
  BY <1>1, <1>2, ExpectedType, WithUidType, PutType, Zenon
  DEF ServicesOK, updateFlatNetworkService
<1>. QED  BY <1>1, <1>3, Zenon DEF ServicesOK, HistoryOK, updateFlatNetworkService

LEMMA HandleDefaultType ==
    ASSUME ServicesOK, HistoryOK, NEW n \in 0 .. 1, handleDefaultService(n)
    PROVE  services' \in [Name -> Service] /\ svcQueue' \subseteq Name /\ missed' \in BOOLEAN
<1>1. svcCache[n] \in Service
  <2>1. n \in Name
    BY DEF Name
  <2>. QED  BY <2>1, Zenon DEF ServicesOK
<1>2. CASE UNCHANGED <<services, missed>> /\ (svcQueue' = svcQueue \/ svcQueue' = svcQueue \ {n})
  BY <1>2, Zenon DEF ServicesOK, HistoryOK
<1>3. CASE createFlatNetworkService(n, newFlatNetworkService(svcCache[n]))
  BY <1>1, <1>3, CreateType, Zenon
<1>4. CASE updateFlatNetworkService(n, newFlatNetworkService(svcCache[n]))
  BY <1>1, <1>4, UpdateType, Zenon
<1>. QED  BY <1>2, <1>3, <1>4, Zenon DEF handleDefaultService

LEMMA SyncServiceHandlerType ==
    ASSUME TypeInv, NEW n \in Name, syncService(n)
    PROVE  TypeInv'
<1>. USE DEF TypeInv
<1>1. services' \in [Name -> Service] /\ svcQueue' \subseteq Name /\ missed' \in BOOLEAN
  <2>1. CASE UNCHANGED <<services, missed>> /\ svcQueue' = svcQueue \ {n}
    BY <2>1, Zenon DEF ServicesOK, HistoryOK
  <2>2. CASE handleFlatNetworkService(n)
    BY <2>2, HandleFlatType, Zenon
  <2>3. CASE n < 2 /\ handleDefaultService(n)
    <3>1. n \in 0 .. 1
      BY <2>3 DEF Name
    <3>. QED  BY <2>3, <3>1, HandleDefaultType, Zenon
  <2>. QED  BY <2>1, <2>2, <2>3, Zenon DEF syncService
<1>2. UNCHANGED <<svcCache, young, drifted, ingVars, podVars, events>>
  BY Zenon DEF syncService
<1>. QED
  BY <1>1, <1>2, Zenon DEF ServicesOK, PodsOK, IngressOK, HistoryOK, ingVars, podVars

LEMMA SyncIngressType ==
    ASSUME TypeInv, syncIngress
    PROVE  TypeInv'
<1>. DEFINE idle == ingWork.path = 0
            i == IF idle THEN 1 ELSE ingWork.path
            v == IF idle THEN ingress ELSE ingWork.v
            n == Backends[i]
            o == svcCache[n]
            done == IF i = Len(Backends) THEN NoWork ELSE [path |-> i + 1, v |-> v]
            Work == [path : 0 .. Len(Backends), v : {"none", "on", "off"}]
<1>. USE DEF TypeInv
<1>1. Len(Backends) \in Nat /\ Len(Backends) > 0
  BY BackendAssumption
<1>2. v \in {"none", "on", "off"} /\ i \in 1 .. Len(Backends)
  BY <1>1 DEF IngressOK
<1>3. n \in 0 .. 1
  BY <1>2, BackendAssumption
<1>4. n \in Name
  BY <1>3 DEF Name
<1>5. done \in Work /\ NoWork \in Work
  <2>. HIDE DEF i, v
  <2>1. 0 \in 0 .. Len(Backends)
    BY <1>1
  <2>2. i # Len(Backends) => i + 1 \in 0 .. Len(Backends)
    BY <1>1, <1>2
  <2>. QED  BY <1>2, <2>1, <2>2, Zenon DEF NoWork
<1>6. annotation(v) \in Nets
  BY Constants, Zenon DEF annotation
<1>7. [o EXCEPT !.net = annotation(v)] \in Service
  BY <1>4, <1>6, WithNetType, Zenon DEF ServicesOK
<1>. HIDE DEF idle, i, v, n, o, done, Work
<1>8. services' \in [Name -> Service]
  <2>1. UNCHANGED services \/ Put(n, [o EXCEPT !.net = annotation(v)])
    BY Zenon DEF syncIngress, idle, i, v, n, o
  <2>. QED  BY <1>4, <1>7, <2>1, PutType, Zenon DEF ServicesOK
<1>9. ingWork' \in Work
  <2>1. ingWork' = NoWork \/ ingWork' = done
    BY Zenon DEF syncIngress, idle, i, v, n, o, done
  <2>. QED  BY <1>5, <2>1
<1>10. ingQueue' \in BOOLEAN
  <2>1. \/ ingQueue' = ((ingQueue /\ ~idle) \/ v # "none")
        \/ ingQueue' = (ingQueue /\ ~idle)
    BY Zenon DEF syncIngress, idle, v
  <2>. QED  BY <2>1, Zenon DEF IngressOK
<1>11. swallowed' \in BOOLEAN
  <2>1. UNCHANGED swallowed \/ swallowed' = TRUE \/ swallowed' = (swallowed \/ services[n].net # o.net)
    BY Zenon DEF syncIngress, idle, i, n, o
  <2>. QED  BY <2>1, Zenon DEF HistoryOK
<1>12. UNCHANGED <<svcCache, svcQueue, young, drifted, missed, ingress, podVars, events>>
  BY Zenon DEF syncIngress
<1>. QED
  BY <1>8, <1>9, <1>10, <1>11, <1>12, Zenon
  DEF ServicesOK, PodsOK, IngressOK, HistoryOK, podVars, Work

LEMMA EventsType ==
    ASSUME TypeInv, events < MaxEvents, events' = events + 1
    PROVE  events' \in 0 .. MaxEvents /\ events + 1 \in Uids
BY BoundAssumption DEF TypeInv, HistoryOK, Uids

LEMMA EditServiceType ==
    ASSUME TypeInv, events < MaxEvents, events' = events + 1,
           NEW spec \in Specs, EditService(spec)
    PROVE  TypeInv'
<1>. USE DEF TypeInv
<1>1. services[0].net \in Nets /\ services[0].uid \in Uids
  BY Constants, ServiceType, Zenon DEF ServicesOK
<1>2. (IF services[0].exists THEN services[0].uid ELSE events + 1) \in Uids
  BY <1>1, EventsType, Zenon
<1>3. services' \in [Name -> Service]
  BY <1>1, <1>2, Constants, FromSpecType, PutType, Zenon DEF EditService
<1>4. young' \subseteq Name
  <2>1. young' = young \/ young' = young \cup {0}
    BY Zenon DEF EditService
  <2>. QED  BY <2>1, Constants, Zenon DEF ServicesOK
<1>5. UNCHANGED <<svcCache, svcQueue, drifted, missed, ingVars, podVars>>
  BY Zenon DEF EditService
<1>. QED
  BY <1>3, <1>4, <1>5, EventsType, Zenon
  DEF ServicesOK, PodsOK, IngressOK, HistoryOK, ingVars, podVars

LEMMA DeleteServiceType ==
    ASSUME TypeInv, events < MaxEvents, events' = events + 1, DeleteService
    PROVE  TypeInv'
<1>. USE DEF TypeInv
<1>1. services' \in [Name -> Service]
  BY Constants, NoServiceType, PutType, Zenon DEF DeleteService
<1>. QED
  BY <1>1, EventsType, Zenon
  DEF DeleteService, ServicesOK, PodsOK, IngressOK, HistoryOK, podVars

LEMMA DriftServiceType ==
    ASSUME TypeInv, events < MaxEvents, events' = events + 1, DriftService
    PROVE  TypeInv'
<1>. USE DEF TypeInv
<1>1. 1 \in Name
  BY DEF Name
<1>2. services' \in [Name -> Service]
  BY <1>1, Constants, NoServiceType, WithNetType, PutType, Zenon DEF DriftService, ServicesOK
<1>. QED
  BY <1>2, EventsType, Zenon
  DEF DriftService, ServicesOK, PodsOK, IngressOK, HistoryOK, ingVars, podVars

LEMMA UserType ==
    ASSUME TypeInv, User
    PROVE  TypeInv'
<1>. USE DEF TypeInv
<1>1. events < MaxEvents /\ events' = events + 1
  BY Zenon DEF User
<1>2. ASSUME NEW spec \in Specs, EditService(spec) PROVE TypeInv'
  BY <1>1, <1>2, EditServiceType, Zenon
<1>3. CASE DeleteService
  BY <1>1, <1>3, DeleteServiceType, Zenon
<1>4. CASE DriftService
  BY <1>1, <1>4, DriftServiceType, Zenon
<1>5. ASSUME NEW v \in {"none", "on", "off"}, EditIngress(v) PROVE TypeInv'
  BY <1>1, <1>5, EventsType, Zenon
  DEF EditIngress, ServicesOK, PodsOK, IngressOK, HistoryOK, svcVars, podVars
<1>6. ASSUME NEW p \in Pod, NEW kind \in PodKind, ChangePod(p, kind) PROVE TypeInv'
  BY <1>1, <1>6, EventsType, Zenon
  DEF ChangePod, ServicesOK, PodsOK, IngressOK, HistoryOK, svcVars, ingVars
<1>. QED  BY <1>2, <1>3, <1>4, <1>5, <1>6, Zenon DEF User

LEMMA TypeStep == TypeInv /\ [Next]_vars => TypeInv'
<1>. SUFFICES ASSUME TypeInv, [Next]_vars PROVE TypeInv'
  OBVIOUS
<1>. USE DEF TypeInv
<1>1. CASE User
  BY <1>1, UserType, Zenon
<1>2. ASSUME NEW n \in Name, syncService(n) PROVE TypeInv'
  BY <1>2, SyncServiceHandlerType, Zenon
<1>3. ASSUME NEW n \in Name, SyncService(n) PROVE TypeInv'
  BY <1>3, Zenon
  DEF SyncService, ServicesOK, PodsOK, IngressOK, HistoryOK, ingVars, podVars
<1>4. ASSUME NEW n \in Name, Age(n) PROVE TypeInv'
  BY <1>4, Zenon DEF Age, ServicesOK, PodsOK, IngressOK, HistoryOK, ingVars, podVars
<1>5. ASSUME NEW n \in Name, Collect(n) PROVE TypeInv'
  <2>1. services' \in [Name -> Service]
    BY <1>5, NoServiceType, PutType, Zenon DEF Collect
  <2>. QED
    BY <1>5, <2>1, Zenon
    DEF Collect, ServicesOK, PodsOK, IngressOK, HistoryOK, ingVars, podVars
<1>6. CASE syncIngress
  BY <1>6, SyncIngressType, Zenon
<1>7. ASSUME NEW p \in Pod, SyncPod(p) PROVE TypeInv'
  BY <1>7, Zenon DEF SyncPod, ServicesOK, PodsOK, IngressOK, HistoryOK, svcVars, ingVars
<1>8. CASE UNCHANGED vars
  BY <1>8, Zenon
  DEF vars, svcVars, ingVars, podVars, ServicesOK, PodsOK, IngressOK, HistoryOK
<1>. QED
  BY <1>1, <1>2, <1>3, <1>4, <1>5, <1>6, <1>7, <1>8, Zenon DEF Next

LEMMA TypeInvariant == Spec => []TypeInv
BY TypeInit, TypeStep, PTL DEF Spec

(* The variables have their types in every reachable state; in particular no
   service is stored with a port that does not exist, although the controller
   moves the ports of a headless service by one. *)
THEOREM TypeCorrect == Spec => []TypeOK
BY TypeInvariant, TypeInvIsTypeOK, PTL

(***************************************************************************)
(* Service of service.  The controller creates service 2 when the copy it  *)
(* has of service 1 is not a flat-network service; so that copy, and the   *)
(* stored service it was taken from, have to be recognisable as long as no *)
(* user wrote to service 1.  The ingress controller reads the same copy    *)
(* before it replaces the annotation.                                      *)
(***************************************************************************)
Recognised(view) ==
    /\ view[1].exists => IsFlatNetworkService(1, view[1])
    /\ ~view[2].exists
RecognisedInv == ~drifted => Recognised(services) /\ Recognised(svcCache)

LEMMA Names == 0 \in Name /\ 1 \in Name /\ 2 \in Name /\ 0 # 1 /\ 0 # 2 /\ 1 # 2
BY DEF Name

(* What a write to the store leaves recognisable. *)
LEMMA PutRecognised ==
    ASSUME ServicesOK, Recognised(services), NEW n \in Name, NEW o \in Service, Put(n, o),
           n = 1 /\ o.exists => IsFlatNetworkService(1, o),
           n = 2 => ~o.exists
    PROVE  Recognised(services')
<1>1. services' = [services EXCEPT ![n] = o] /\ services \in [Name -> Service]
  BY Zenon DEF Put, ServicesOK
<1>2. CASE n = 0
  BY <1>1, <1>2, Names, Zenon DEF Recognised
<1>3. CASE n = 1
  BY <1>1, <1>3, Names, Zenon DEF Recognised
<1>4. CASE n = 2
  BY <1>1, <1>4, Names, Zenon DEF Recognised
<1>. QED  BY <1>2, <1>3, <1>4 DEF Name

LEMMA PutNothingRecognised ==
    ASSUME ServicesOK, Recognised(services), NEW n \in Name, Put(n, NoService)
    PROVE  Recognised(services')
<1>1. ~NoService.exists
  BY DEF NoService
<1>. QED  BY <1>1, NoServiceType, PutRecognised, Zenon

(* What newFlatNetworkService returns, under whatever uid, is recognised. *)
LEMMA ExpectedRecognised ==
    ASSUME NEW o \in Service, NEW uid, Valid(newFlatNetworkService(o))
    PROVE  IsFlatNetworkService(1, [newFlatNetworkService(o) EXCEPT !.uid = uid])
<1>1. newFlatNetworkService(o) \in Service
  BY ExpectedType
<1>2. newFlatNetworkService(o).headless /\ newFlatNetworkService(o).net = NetAttatchDefName
  BY Zenon DEF newFlatNetworkService
<1>3. ASSUME NEW s \in Service
      PROVE  /\ [s EXCEPT !.uid = uid].headless = s.headless
             /\ [s EXCEPT !.uid = uid].net = s.net
  BY ServiceType, Zenon
<1>. QED  BY <1>1, <1>2, <1>3, 1 > 0, Zenon DEF IsFlatNetworkService

LEMMA RecognisedInit == Init => RecognisedInv
<1>. SUFFICES ASSUME Init PROVE Recognised(services)
  BY DEF Init, RecognisedInv
<1>1. services[1] = NoService /\ services[2] = NoService
  BY Names, Zenon DEF Init
<1>2. ~NoService.exists
  BY DEF NoService
<1>. QED  BY <1>1, <1>2, Zenon DEF Recognised

(* While no user wrote to service 1, what the handler takes for an ordinary
   service is the user's own: all it writes is service 1. *)
LEMMA HandleDefaultRecognised ==
    ASSUME TypeInv, NEW n \in Name, n < 2, svcCache[n].exists,
           ~IsFlatNetworkService(n, svcCache[n]),
           Recognised(services), Recognised(svcCache), handleDefaultService(n)
    PROVE  Recognised(services')
<1>. USE DEF TypeInv
<1>1. n = 0
  BY DEF Recognised, Name
<1>2. 0 + 1 = 1
  OBVIOUS
<1>3. svcCache[0] \in Service /\ services[1] \in Service
  BY Names, Zenon DEF ServicesOK
<1>4. services[1].uid \in Uids
  BY <1>3, ServiceType, Zenon
<1>5. events + 1 \in Uids
  BY BoundAssumption DEF HistoryOK, Uids
<1>. DEFINE new == newFlatNetworkService(svcCache[0])
<1>6. ASSUME NEW uid \in Uids, Valid(new), Put(1, [new EXCEPT !.uid = uid])
      PROVE  Recognised(services')
  <2>1. [new EXCEPT !.uid = uid] \in Service
    BY <1>3, <1>6, ExpectedType, WithUidType, Zenon
  <2>2. IsFlatNetworkService(1, [new EXCEPT !.uid = uid])
    BY <1>3, <1>6, ExpectedRecognised, Zenon
  <2>. QED  BY <1>6, <2>1, <2>2, Names, PutRecognised, Zenon
<1>7. CASE createFlatNetworkService(0, new)
  <2>1. UNCHANGED services \/ (Valid(new) /\ Put(1, [new EXCEPT !.uid = events + 1]))
    BY <1>2, <1>7, Zenon DEF createFlatNetworkService
  <2>. QED  BY <1>5, <1>6, <2>1, Zenon DEF Recognised
<1>8. CASE updateFlatNetworkService(0, new)
  <2>1. Valid(new) /\ Put(1, [new EXCEPT !.uid = services[1].uid])
    BY <1>2, <1>8, Zenon DEF updateFlatNetworkService
  <2>. QED  BY <1>4, <1>6, <2>1, Zenon
<1>9. CASE UNCHANGED services
  BY <1>9, Zenon DEF Recognised
<1>. QED  BY <1>1, <1>7, <1>8, <1>9, Zenon DEF handleDefaultService

LEMMA SyncServiceHandlerRecognised ==
    ASSUME TypeInv, NEW n \in Name, syncService(n),
           Recognised(services), Recognised(svcCache)
    PROVE  Recognised(services')
<1>1. CASE UNCHANGED services
  BY <1>1, Zenon DEF Recognised
<1>2. CASE handleFlatNetworkService(n)
  BY <1>1, <1>2, PutNothingRecognised, Zenon DEF handleFlatNetworkService, TypeInv
<1>3. CASE /\ svcCache[n].exists /\ ~IsFlatNetworkService(n, svcCache[n])
           /\ n < 2 /\ handleDefaultService(n)
  BY <1>3, HandleDefaultRecognised, Zenon
<1>. QED  BY <1>1, <1>2, <1>3, Zenon DEF syncService

(* The ingress controller leaves a service alone that it recognises in its copy,
   which is the stored one when the update succeeds. *)
LEMMA SyncIngressRecognised ==
    ASSUME TypeInv, syncIngress, Recognised(services), Recognised(svcCache)
    PROVE  Recognised(services')
<1>. DEFINE i == IF ingWork.path = 0 THEN 1 ELSE ingWork.path
            v == IF ingWork.path = 0 THEN ingress ELSE ingWork.v
            n == Backends[i]
            o == svcCache[n]
            new == [o EXCEPT !.net = annotation(v)]
<1>1. CASE UNCHANGED services
  BY <1>1, Zenon DEF Recognised
<1>2. CASE Put(n, new) /\ o.exists /\ ~annotatedElsewhere(n, o)
  <2>1. i \in 1 .. Len(Backends)
    BY BackendAssumption DEF TypeInv, IngressOK
  <2>2. n \in {0, 1}
    BY <2>1, BackendAssumption
  <2>. HIDE DEF i, v
  <2>3. n # 1
    BY <1>2, Zenon DEF annotatedElsewhere, Recognised
  <2>4. n = 0
    BY <2>2, <2>3
  <2>5. annotation(v) \in Nets
    BY Constants, Zenon DEF annotation
  <2>6. new \in Service
    BY <2>4, <2>5, Names, WithNetType, Zenon DEF TypeInv, ServicesOK
  <2>. HIDE DEF new
  <2>. QED  BY <1>2, <2>4, <2>6, Names, PutRecognised, Zenon DEF TypeInv
<1>. QED  BY <1>1, <1>2, Zenon DEF syncIngress

LEMMA UserRecognised ==
    ASSUME TypeInv, User, Recognised(services), ~drifted'
    PROVE  Recognised(services') /\ UNCHANGED svcCache
<1>. USE DEF TypeInv
<1>1. events < MaxEvents /\ events' = events + 1
  BY Zenon DEF User
<1>2. ASSUME NEW spec \in Specs, EditService(spec)
      PROVE  Recognised(services') /\ UNCHANGED svcCache
  <2>1. services' = [services EXCEPT ![0] =
            FromSpec(spec, IF services[0].exists THEN services[0].uid ELSE events + 1,
                     services[0].net)]
    BY <1>2, Zenon DEF EditService, Put
  <2>2. services'[1] = services[1] /\ services'[2] = services[2]
    BY <2>1, Names, Zenon DEF ServicesOK
  <2>3. Recognised(services')
    BY <2>2, Zenon DEF Recognised
  <2>. QED  BY <1>2, <2>3, Zenon DEF EditService
<1>3. CASE DeleteService
  BY <1>3, Names, PutNothingRecognised, Zenon DEF DeleteService
<1>4. ~DriftService
  BY Zenon DEF DriftService
<1>5. ASSUME NEW v \in {"none", "on", "off"}, EditIngress(v)
      PROVE  Recognised(services') /\ UNCHANGED svcCache
  BY <1>5, Zenon DEF EditIngress, svcVars, Recognised
<1>6. ASSUME NEW p \in Pod, NEW kind \in PodKind, ChangePod(p, kind)
      PROVE  Recognised(services') /\ UNCHANGED svcCache
  BY <1>6, Zenon DEF ChangePod, svcVars, Recognised
<1>. QED  BY <1>2, <1>3, <1>4, <1>5, <1>6, Zenon DEF User

LEMMA RecognisedStep == TypeInv /\ RecognisedInv /\ [Next]_vars => RecognisedInv'
<1>. SUFFICES ASSUME TypeInv, RecognisedInv, [Next]_vars, ~drifted'
              PROVE  Recognised(services') /\ Recognised(svcCache')
  BY Zenon DEF RecognisedInv
<1>1. ~drifted
  <2>1. CASE User
    <3>1. CASE DriftService
      BY <3>1, Zenon DEF DriftService
    <3>. QED
      BY <2>1, <3>1, Zenon
      DEF User, EditService, DeleteService, EditIngress, ChangePod, svcVars
  <2>2. CASE UNCHANGED drifted
    BY <2>2, Zenon
  <2>. QED
    BY <2>1, <2>2, Zenon
    DEF Next, syncService, SyncService, Age, Collect, syncIngress, SyncPod, vars, svcVars
<1>2. Recognised(services) /\ Recognised(svcCache)
  BY <1>1, Zenon DEF RecognisedInv
<1>3. UNCHANGED svcCache => Recognised(svcCache')
  BY <1>2, Zenon DEF Recognised
<1>4. UNCHANGED services => Recognised(services')
  BY <1>2, Zenon DEF Recognised
<1>5. CASE User
  BY <1>2, <1>3, <1>5, UserRecognised, Zenon
<1>6. ASSUME NEW n \in Name, syncService(n)
      PROVE  Recognised(services') /\ Recognised(svcCache')
  BY <1>2, <1>3, <1>6, SyncServiceHandlerRecognised, Zenon DEF syncService
<1>7. ASSUME NEW n \in Name, SyncService(n)
      PROVE  Recognised(services') /\ Recognised(svcCache')
  <2>1. svcCache \in [Name -> Service] /\ svcCache' = [svcCache EXCEPT ![n] = services[n]]
    BY <1>7, Zenon DEF SyncService, TypeInv, ServicesOK
  <2>2. \A m \in Name : svcCache'[m] = svcCache[m] \/ svcCache'[m] = services[m]
    BY <2>1, Zenon
  <2>3. Recognised(svcCache')
    BY <1>2, <2>2, Names, Zenon DEF Recognised
  <2>. QED  BY <1>4, <1>7, <2>3, Zenon DEF SyncService
<1>8. ASSUME NEW n \in Name, Collect(n)
      PROVE  Recognised(services') /\ Recognised(svcCache')
  BY <1>2, <1>3, <1>8, PutNothingRecognised, Zenon DEF Collect, TypeInv
<1>9. CASE syncIngress
  BY <1>2, <1>3, <1>9, SyncIngressRecognised, Zenon DEF syncIngress
<1>10. CASE UNCHANGED <<services, svcCache>>
  BY <1>3, <1>4, <1>10, Zenon
<1>. QED
  BY <1>5, <1>6, <1>7, <1>8, <1>9, <1>10, Zenon DEF Next, Age, SyncPod, vars, svcVars

(* For any specs, pods and backends: service 2 does not come into being unless a
   user wrote to service 1 (syncService and syncIngress recognise what
   newFlatNetworkService made). *)
THEOREM NoServiceOfServiceInvariant == Spec => []NoServiceOfService
<1>1. RecognisedInv => NoServiceOfService
  BY Zenon DEF RecognisedInv, Recognised, NoServiceOfService
<1>2. Spec => []RecognisedInv
  BY TypeInvariant, RecognisedInit, RecognisedStep, PTL DEF Spec
<1>. QED  BY <1>1, <1>2, PTL
=============================================================================
