--------------------------- MODULE MigratorProofs ---------------------------
(***************************************************************************)
(* Proofs about Migrator, for any workloads, subnets, services and options *)
(* and any number of commands and events: type correctness, and that a     *)
(* migration which ends well is complete, a migrated template names a      *)
(* subnet that exists, no command undoes what users have edited, and clean *)
(* takes no address from a pod that it knew of.                            *)
(*                                                                         *)
(* None of these is inductive.  The invariant says what the phases that    *)
(* are over have achieved, item by item, but for what is left to do and    *)
(* what users have written since; and that what was listed is still what   *)
(* there is.                                                               *)
(***************************************************************************)
EXTENDS Migrator, TLAPS

Migrating == tool.cmd = "migrate" /\ tool.phase > 0
Phase == Phases("migrate")[tool.phase]

(* what the list of subnets, and of workloads, still has to say *)
SubnetsListed == Migrating /\ tool.phase = 1 => \A s \in Subnet \cap tool.todo : copy.specs[s] # None
WorkloadsListed ==
    Migrating => \A k \in Key \cap tool.todo :
        Phase = Kind(k) /\ k \notin touched
            => workloads[k].exists /\ copy.anns[k] = workloads[k].ann

(* what the phases so far have done *)
SubnetsDone ==
    Migrating => \A s \in Subnet \ touched :
        v1[s] # None => v2[s] # None \/ (tool.phase = 1 /\ s \in tool.todo)
WorkloadsDone ==
    Migrating => \A k \in Key \ touched : \A i \in 1 .. tool.phase :
        Phases("migrate")[i] = Kind(k) /\ Kind(k) # "CronJob"
            => \/ ~isMacvlanV1Enabled(workloads[k].ann)
               \/ Phase = Kind(k) /\ k \in tool.todo
ServicesDone ==
    Migrating /\ Phase = "services" =>
        \A n \in V1Services : <<n, "v2">> \in svcs \/ n \in tool.todo

(* no template without a workload, and nothing is finished while a command runs *)
Absent == \A k \in Key : ~workloads[k].exists => workloads[k] = NoWorkload
Running == tool # Idle => ~finished

MigrateInv == /\ SubnetsListed /\ WorkloadsListed /\ SubnetsDone /\ WorkloadsDone
              /\ ServicesDone /\ Absent /\ Running /\ MigrationIsComplete

(* Addresses need their CRD, and those that clean has not seen are late. *)
CleanInv == /\ "ip" \notin crds => ips = {}
            /\ tool.cmd = "clean" /\ tool.phase > 0 => ips \subseteq late

(* Services are restored as they were listed. *)
RestoreInv == tool.cmd = "restore" /\ tool.phase = 4 => tool.todo \subseteq Svc

-----------------------------------------------------------------------------
(* The phases of migrate: subnets, then the kinds, then services. *)
LEMMA MigratePhases ==
    LET P == Phases("migrate") IN
    /\ Len(P) \in Nat /\ Len(P) >= 1 /\ P[1] = "subnets"
    /\ \A i \in 1 .. Len(P) : P[i] = "subnets" => i = 1
    /\ \A i \in DOMAIN Kinds : i + 1 \in 1 .. Len(P) /\ P[i + 1] = Kinds[i]
    /\ Services /\ Kinds # <<>> => P[Len(P)] = "services"
<1> DEFINE T == WorkloadKinds \cup {"unknown", "subnets", "services"}
           S == IF Services /\ Kinds # <<>> THEN <<"services">> ELSE <<>>
           Q == <<"subnets">> \o Kinds
           P == Phases("migrate")
<1>1. /\ Kinds \in Seq(T) /\ Len(Kinds) \in Nat /\ DOMAIN Kinds = 1 .. Len(Kinds)
      /\ \A i \in 1 .. Len(Kinds) : Kinds[i] # "subnets"
  <2> DEFINE K == WorkloadKinds \cup {"unknown"}
  <2>1. K \subseteq T /\ "subnets" \notin K
    BY DEF WorkloadKinds
  <2> HIDE DEF K, T
  <2>2. Kinds \in Seq(K)
    BY KindAssumption DEF K
  <2> QED
    BY <2>1, <2>2
<1>2. /\ Q \in Seq(T) /\ Len(Q) = Len(Kinds) + 1 /\ Q[1] = "subnets"
      /\ \A i \in 1 .. Len(Kinds) : Q[i + 1] = Kinds[i]
  <2>1. "subnets" \in T
    OBVIOUS
  <2> HIDE DEF T
  <2> QED
    BY <1>1, <2>1
<1>3. \A i \in 2 .. Len(Q) : Q[i] # "subnets"
  <2> SUFFICES ASSUME NEW i \in 2 .. Len(Q) PROVE Q[i] # "subnets"
    OBVIOUS
  <2>1. i - 1 \in 1 .. Len(Kinds) /\ (i - 1) + 1 = i
    BY <1>1, <1>2
  <2> QED
    BY <2>1, <1>1, <1>2
<1>4. P = Q \o S
  BY DEF Phases
<1>c. "services" \in T
  OBVIOUS
<1> HIDE DEF Q, P, T
<1>5. CASE Services /\ Kinds # <<>>
  <2>1. /\ P = Q \o <<"services">> /\ Len(P) = Len(Q) + 1 /\ P[Len(Q) + 1] = "services"
        /\ \A i \in 1 .. Len(Q) : P[i] = Q[i]
    BY <1>2, <1>4, <1>5, <1>c
  <2> QED
    BY <2>1, <1>1, <1>2, <1>3 DEF P
<1>6. CASE ~(Services /\ Kinds # <<>>)
  <2>1. P = Q
    BY <1>2, <1>4, <1>6
  <2> QED
    BY <2>1, <1>1, <1>2, <1>3, <1>6 DEF P
<1> QED
  BY <1>5, <1>6

(* The phases of the other commands. *)
LEMMA OtherPhases ==
    /\ Phases("clean") = <<"ips", "v1", "ipCRD", "subnetCRD">>
    /\ Phases("backup") = <<"v1", "v2", "services">>
    /\ Phases("restore") = <<"crd", "v1", "v2", "services">>
BY DEF Phases

-----------------------------------------------------------------------------
(* The command that runs, as TypeOK has it, and what the steps of a phase do to it. *)
ToolOK ==
    /\ tool \in [cmd : Commands \cup {"idle"}, phase : Nat, todo : SUBSET Items]
    /\ IF tool.cmd = "idle" THEN tool = Idle ELSE tool.phase <= Len(Phases(tool.cmd))

LEMMA PhasesAreFinite ==
    ASSUME NEW cmd \in Commands
    PROVE  Len(Phases(cmd)) \in Nat
<1>1. cmd \in {"migrate", "clean", "backup", "restore"}
  BY OptionAssumption
<1> QED
  BY <1>1, MigratePhases, OtherPhases

LEMMA Listing ==
    ASSUME ToolOK, NEW cmd, cmd # "idle", NEW phase, NextIs(cmd, phase),
           NEW items \in SUBSET Items, List(items)
    PROVE  /\ tool' = [cmd |-> cmd, phase |-> tool.phase + 1, todo |-> items]
           /\ ToolOK' /\ tool # Idle /\ tool'.cmd = cmd
           /\ Phases(cmd)[tool.phase + 1] = phase
<1>1. cmd \in Commands /\ tool.cmd = cmd /\ tool.phase < Len(Phases(cmd))
  BY DEF NextIs, ToolOK
<1>2. tool' = [cmd |-> cmd, phase |-> tool.phase + 1, todo |-> items]
  BY <1>1, Zenon DEF List, ToolOK
<1> QED
  BY <1>1, <1>2, PhasesAreFinite DEF ToolOK, NextIs, Idle

LEMMA Stopping ==
    ASSUME Stop
    PROVE  /\ tool' = Idle /\ ToolOK'
           /\ tool'.cmd = "idle" /\ tool'.phase = 0 /\ tool'.todo = {}
BY DEF Stop, ToolOK, Idle

LEMMA Doing ==
    ASSUME ToolOK, NEW x \in tool.todo, Did(x)
    PROVE  /\ tool' = [cmd |-> tool.cmd, phase |-> tool.phase, todo |-> tool.todo \ {x}]
           /\ tool'.cmd = tool.cmd /\ tool'.phase = tool.phase /\ tool'.todo = tool.todo \ {x}
           /\ ToolOK' /\ tool # Idle
<1>1. tool # Idle
  BY DEF Idle
<1>2. tool' = [cmd |-> tool.cmd, phase |-> tool.phase, todo |-> tool.todo \ {x}]
  BY Zenon DEF Did, ToolOK
<1>3. tool'.cmd = tool.cmd /\ tool'.phase = tool.phase /\ tool'.todo = tool.todo \ {x}
  BY <1>2, Zenon
<1>4. ToolOK'
  <2>1. tool \in [cmd : Commands \cup {"idle"}, phase : Nat, todo : SUBSET Items]
    BY Zenon DEF ToolOK
  <2>2. /\ tool.cmd \in Commands \cup {"idle"} /\ tool.phase \in Nat
        /\ tool.todo \ {x} \in SUBSET Items
    BY <2>1
  <2>3. tool' \in [cmd : Commands \cup {"idle"}, phase : Nat, todo : SUBSET Items]
    BY <1>2, <2>2, Zenon
  <2>4. tool.cmd # "idle" /\ tool.phase <= Len(Phases(tool.cmd))
    BY <1>1, Zenon DEF ToolOK
  <2> QED
    BY <1>3, <2>3, <2>4, Zenon DEF ToolOK
<1> QED
  BY <1>1, <1>2, <1>3, <1>4, Zenon

(* A step of the tool keeps its command, or stops it. *)
LEMMA CommandKept ==
    ASSUME ToolOK,
           \/ Stop
           \/ \E items : List(items)
           \/ \E x : Did(x)
    PROVE  tool'.cmd \in {tool.cmd, "idle"}
<1>1. ASSUME NEW items, List(items) PROVE tool'.cmd = tool.cmd
  BY <1>1, Zenon DEF List, ToolOK
<1>2. ASSUME NEW x, Did(x) PROVE tool'.cmd = tool.cmd
  BY <1>2 DEF Did, ToolOK
<1>3. ASSUME Stop PROVE tool'.cmd = "idle"
  BY <1>3 DEF Stop, Idle
<1> QED
  BY <1>1, <1>2, <1>3

(* Where a phase stands in its command. *)
LEMMA Positions ==
    ASSUME ToolOK, NEW cmd, NEW phase, NextIs(cmd, phase)
    PROVE  /\ cmd = "restore" /\ phase = "services" => tool.phase = 3
           /\ cmd = "restore" /\ phase # "services" => tool.phase # 3
           /\ cmd = "migrate" /\ phase = "subnets" => tool.phase = 0
           /\ cmd = "migrate" /\ phase # "subnets" => tool.phase > 0
<1>1. tool.phase \in Nat /\ tool.phase < Len(Phases(cmd)) /\ Phases(cmd)[tool.phase + 1] = phase
  BY DEF ToolOK, NextIs
<1>2. CASE cmd = "restore"
  <2>1. tool.phase \in 0 .. 3
    BY <1>1, <1>2, OtherPhases
  <2> QED
    BY <1>1, <1>2, <2>1, OtherPhases
<1>3. CASE cmd = "migrate"
  <2>1. tool.phase + 1 \in 1 .. Len(Phases("migrate"))
    BY <1>1, <1>3, MigratePhases
  <2> QED
    BY <1>1, <1>3, <2>1, MigratePhases
<1> QED
  BY <1>2, <1>3

-----------------------------------------------------------------------------
(* Conversions: what they make has the types of V2, and is not nothing. *)
LEMMA Conversion ==
    ASSUME NEW spec \in V1Spec
    PROVE  /\ Convertible(spec) => newFlatNetworkSubnet(spec) \in V2Spec
           /\ spec # None => newFlatNetworkSubnet(spec) # None
           /\ listV1Resources(spec) \in {None, Spec("", "")}
<1>1. CASE spec \in SpecsWith({"", "ip", "junk"})
  BY <1>1 DEF SpecsWith, Convertible, newFlatNetworkSubnet, ParseIP, Spec, V2Spec, None,
              listV1Resources
<1>2. CASE spec = None
  BY <1>2 DEF newFlatNetworkSubnet, ParseIP, Spec, V2Spec, None, listV1Resources
<1>3. Spec("", "") \in SpecsWith({"", "ip", "junk"})
  BY DEF Spec, SpecsWith
<1> QED
  BY <1>1, <1>2, <1>3, SpecAssumption DEF V1Spec

LEMMA Annotating ==
    ASSUME NEW a \in Annotations
    PROVE  /\ updateAnnotation(a) \in Annotations
           /\ updateAnnotation(a).v2 = a.v1 /\ updateAnnotation(a).other = a.other
           /\ ~isMacvlanV1Enabled(updateAnnotation(a))
BY DEF Annotations, updateAnnotation, isMacvlanV1Enabled

LEMMA Templates ==
    /\ Plain \in Annotations /\ ~isMacvlanV1Enabled(Plain)
    /\ NoWorkload \in Workload
    /\ \A s \in Subnet, n \in Networks \cup {V1Attachment} :
          /\ V1Workload(s, n) \in Workload
          /\ V1Workload(s, n).exists /\ V1Workload(s, n).ann.v2 = ""
<1>1. Plain \in Annotations /\ ~isMacvlanV1Enabled(Plain)
  BY DEF Annotations, Plain, isMacvlanV1Enabled
<1>2. NoWorkload \in Workload
  BY <1>1, Zenon DEF NoWorkload, Workload
<1>3. ASSUME NEW a \in Annotations, NEW s \in Subnet, NEW n \in Networks \cup {V1Attachment}
      PROVE  /\ [a EXCEPT !.v1 = s, !.networks = n] \in Annotations
             /\ [a EXCEPT !.v1 = s, !.networks = n].v2 = a.v2
  BY DEF Annotations
<1>4. ASSUME NEW a \in Annotations
      PROVE  /\ [exists |-> TRUE, ann |-> a, v1Labels |-> TRUE] \in Workload
             /\ [exists |-> TRUE, ann |-> a, v1Labels |-> TRUE].exists
             /\ [exists |-> TRUE, ann |-> a, v1Labels |-> TRUE].ann = a
  BY Zenon DEF Workload
<1>5. ASSUME NEW s \in Subnet, NEW n \in Networks \cup {V1Attachment}
      PROVE  /\ V1Workload(s, n) \in Workload
             /\ V1Workload(s, n).exists /\ V1Workload(s, n).ann.v2 = ""
  <2> DEFINE a == [Plain EXCEPT !.v1 = s, !.networks = n]
  <2>1. a \in Annotations /\ a.v2 = Plain.v2
    BY <1>1, <1>3, Zenon
  <2>2. V1Workload(s, n) = [exists |-> TRUE, ann |-> a, v1Labels |-> TRUE]
    BY DEF V1Workload
  <2> HIDE DEF a
  <2>3. a.v2 = ""
    BY <2>1 DEF Plain
  <2>4. V1Workload(s, n) \in Workload
    BY <2>1, <2>2, <1>4
  <2>5. V1Workload(s, n).exists /\ V1Workload(s, n).ann = a
    BY <2>1, <2>2, <1>4
  <2> QED
    BY <2>3, <2>4, <2>5, Zenon
<1> QED
  BY <1>1, <1>2, <1>5, Zenon

LEMMA Editing ==
    ASSUME NEW w \in Workload
    PROVE  /\ [w EXCEPT !.ann.other = 1] \in Workload
           /\ [w EXCEPT !.ann.other = 1].exists = w.exists
           /\ [w EXCEPT !.ann.other = 1].ann.v2 = w.ann.v2
<1>1. ASSUME NEW a \in Annotations, NEW n \in 0 .. 1
      PROVE  /\ [a EXCEPT !.other = n] \in Annotations
             /\ [a EXCEPT !.other = n].v2 = a.v2
  BY DEF Annotations
<1>2. ASSUME NEW b \in Annotations
      PROVE  /\ [w EXCEPT !.ann = b] \in Workload
             /\ [w EXCEPT !.ann = b].exists = w.exists
             /\ [w EXCEPT !.ann = b].ann = b
  BY DEF Workload
<1>3. 1 \in 0 .. 1 /\ w.ann \in Annotations
  BY DEF Workload
<1>4. /\ [w.ann EXCEPT !.other = 1] \in Annotations
      /\ [w.ann EXCEPT !.other = 1].v2 = w.ann.v2
  BY <1>1, <1>3, Zenon
<1> QED
  BY <1>2, <1>4, Zenon

LEMMA ServicePairs ==
    ASSUME NEW n \in Svc
    PROVE  <<n, "v1">> \in Svc \X {"v1", "v2"} /\ <<n, "v2">> \in Svc \X {"v1", "v2"}
OBVIOUS

TypeInv == TypeOK /\ RestoreInv

LEMMA InitTypeInv ==
    ASSUME Init
    PROVE  TypeInv
<1>1. ToolOK /\ RestoreInv
  BY DEF Init, ToolOK, Idle, RestoreInv
<1>2. workloads \in [Key -> Workload]
  <2> SUFFICES ASSUME NEW k \in Key
               PROVE  workloads[k] \in Workload
    BY DEF Init
  <2>1. workloads[k] \in {NoWorkload} \cup {V1Workload(s, V1Attachment) : s \in Subnet}
    BY DEF Init
  <2> QED
    BY <2>1, Templates
<1>3. /\ v1 \in [Subnet -> V1Spec] /\ v2 \in [Subnet -> V2Spec]
      /\ copy \in [specs : [Subnet -> V1Spec], anns : [Key -> Annotations]]
      /\ file \in [v1 : [Subnet -> {None, Spec("", "")}], v2 : [Subnet -> V2Spec],
                   svcs : SUBSET Svc, crd : BOOLEAN]
  BY Templates DEF Init, V1Spec, V2Spec, NoCopy, NoFile
<1>4. svcs \subseteq Svc \X {"v1", "v2"} /\ ips \subseteq Key
  BY DEF Init
<1>5. starts \in 0 .. MaxStarts /\ events \in 0 .. MaxEvents
  BY BoundAssumption DEF Init
<1> QED
  BY <1>1, <1>2, <1>3, <1>4, <1>5 DEF Init, TypeInv, TypeOK, ToolOK

LEMMA NextTypeInv ==
    ASSUME TypeInv, [Next]_vars
    PROVE  TypeInv'
<1> USE DEF TypeInv
<1>a. ToolOK
  BY DEF TypeOK, ToolOK
<1>b. /\ copy \in [specs : [Subnet -> V1Spec], anns : [Key -> Annotations]]
      /\ workloads \in [Key -> Workload]
      /\ v1 \in [Subnet -> V1Spec] /\ v2 \in [Subnet -> V2Spec]
  BY DEF TypeOK
<1>1. ASSUME NEW cmd \in Commands, Start(cmd) PROVE TypeInv'
  <2>1. tool' = [cmd |-> cmd, phase |-> 0, todo |-> {}]
    BY <1>1 DEF Start, Idle
  <2>2. ToolOK' /\ RestoreInv'
    <3>1. cmd # "idle" /\ Len(Phases(cmd)) \in Nat
      BY PhasesAreFinite, OptionAssumption
    <3> QED
      BY <2>1, <3>1 DEF ToolOK, RestoreInv
  <2>3. starts' \in 0 .. MaxStarts
    <3>1. starts \in 0 .. MaxStarts /\ starts < MaxStarts /\ starts' = starts + 1
      BY <1>1, Zenon DEF TypeOK, Start
    <3> QED
      BY <3>1, BoundAssumption
  <2>4. /\ file' \in [v1 : [Subnet -> {None, Spec("", "")}], v2 : [Subnet -> V2Spec],
                      svcs : SUBSET Svc, crd : BOOLEAN]
        /\ copy' \in [specs : [Subnet -> V1Spec], anns : [Key -> Annotations]]
    BY <1>1, Templates DEF TypeOK, Start, NoFile, NoCopy, V1Spec, V2Spec
  <2> QED
    BY <1>1, <2>2, <2>3, <2>4 DEF TypeOK, ToolOK, Start
<1>2. CASE Abort
  <2>1. ToolOK' /\ RestoreInv'
    BY <1>2, Stopping DEF Abort, Idle, RestoreInv
  <2> QED
    BY <1>2, <2>1 DEF TypeOK, ToolOK, Abort
<1>3. CASE Finish
  <2>1. ToolOK' /\ RestoreInv'
    BY <1>3, Stopping DEF Finish, Idle, RestoreInv
  <2>2. finished' \in BOOLEAN
    BY <1>3, Zenon DEF Finish
  <2> QED
    BY <1>3, <2>1, <2>2 DEF TypeOK, ToolOK, Finish
<1>4. CASE migrateSubnets
  <2>1. CASE "subnet" \in crds
    <3>1. Existing(v1) \in SUBSET Items
      BY DEF Existing, Items
    <3>2. ToolOK' /\ RestoreInv'
      <4>1. NextIs("migrate", "subnets") /\ List(Existing(v1))
        BY <1>4, <2>1, Zenon DEF migrateSubnets
      <4>2. ToolOK' /\ tool'.cmd = "migrate"
        BY <1>a, <3>1, <4>1, Listing, Zenon
      <4> QED
        BY <4>2 DEF RestoreInv
    <3>3. copy' \in [specs : [Subnet -> V1Spec], anns : [Key -> Annotations]]
      BY <1>4, <1>b, <2>1 DEF migrateSubnets
    <3> QED
      BY <1>4, <2>1, <3>2, <3>3 DEF TypeOK, ToolOK, migrateSubnets
  <2>2. CASE "subnet" \notin crds
    <3>1. ToolOK' /\ RestoreInv'
      BY <1>4, <2>2, Stopping DEF migrateSubnets, Idle, RestoreInv
    <3> QED
      BY <1>4, <2>2, <3>1 DEF TypeOK, ToolOK, migrateSubnets
  <2> QED
    BY <2>1, <2>2
<1>5. ASSUME NEW s \in Subnet, migrateSubnetList(s) PROVE TypeInv'
  <2>1. CASE Convertible(copy.specs[s])
    <3>1. ToolOK' /\ RestoreInv'
      <4>1. s \in tool.todo /\ Did(s) /\ tool.cmd = "migrate"
        BY <1>5, <2>1, Zenon DEF migrateSubnetList, At
      <4>2. ToolOK' /\ tool'.cmd = "migrate"
        BY <1>a, <4>1, Doing, Zenon
      <4> QED
        BY <4>2, Zenon DEF RestoreInv
    <3>2. v2' \in [Subnet -> V2Spec]
      <4>1. newFlatNetworkSubnet(copy.specs[s]) \in V2Spec
        BY <1>b, <2>1, Conversion
      <4> QED
        BY <1>5, <1>b, <2>1, <4>1 DEF migrateSubnetList, create
    <3> QED
      BY <1>5, <3>1, <3>2 DEF TypeOK, ToolOK, migrateSubnetList
  <2>2. CASE ~Convertible(copy.specs[s])
    <3>1. ToolOK' /\ RestoreInv'
      BY <1>5, <2>2, Stopping, Zenon DEF migrateSubnetList, RestoreInv
    <3> QED
      BY <1>5, <2>2, <3>1 DEF TypeOK, ToolOK, migrateSubnetList
  <2> QED
    BY <2>1, <2>2
<1>6. ASSUME NEW i \in DOMAIN Kinds, migrateWorkload(Kinds[i]) PROVE TypeInv'
  <2> DEFINE items == {k \in Key : workloads[k].exists /\ Kind(k) = Kinds[i]}
  <2>1. items \in SUBSET Items
    BY DEF Items
  <2>2. ToolOK' /\ RestoreInv'
    <3>1. NextIs("migrate", Kinds[i]) /\ List(items)
      BY <1>6, Zenon DEF migrateWorkload
    <3> HIDE DEF items
    <3>2. ToolOK' /\ tool'.cmd = "migrate"
      BY <1>a, <2>1, <3>1, Listing, Zenon
    <3> QED
      BY <3>2 DEF RestoreInv
  <2>3. copy' = [specs |-> [s \in Subnet |-> None],
                 anns |-> [k \in Key |-> IF k \in items THEN workloads[k].ann ELSE Plain]]
    BY <1>6 DEF migrateWorkload, NoCopy
  <2>4. copy' \in [specs : [Subnet -> V1Spec], anns : [Key -> Annotations]]
    BY <2>3, <1>b, Templates DEF V1Spec, Workload
  <2> QED
    BY <1>6, <2>2, <2>4 DEF TypeOK, ToolOK, migrateWorkload
<1>7. ASSUME NEW k \in Key, processPodTemplateAnnotation(k) PROVE TypeInv'
  <2> DEFINE a == GetTemplateObjectMeta(k, copy.anns[k])
  <2>1. a \in Annotations
    BY <1>b, Templates DEF GetTemplateObjectMeta
  <2>2. updateAnnotation(a) \in Annotations
    BY <2>1, Annotating
  <2> HIDE DEF a
  <2>3. ToolOK' /\ RestoreInv'
    <3>1. k \in tool.todo /\ (Did(k) \/ Stop)
      BY <1>7 DEF processPodTemplateAnnotation, updateWorkload
    <3> QED
      BY <1>a, <3>1, Doing, Stopping DEF RestoreInv, Idle
  <2>4. workloads' \in [Key -> Workload]
    <3>1. \/ workloads' = [workloads EXCEPT ![k].ann = updateAnnotation(a), ![k].v1Labels = FALSE]
          \/ workloads' = workloads
      BY <1>7 DEF processPodTemplateAnnotation, updateWorkload, a
    <3> QED
      BY <1>b, <2>2, <3>1 DEF Workload
  <2> QED
    BY <1>7, <2>3, <2>4 DEF TypeOK, ToolOK, processPodTemplateAnnotation
<1>8. CASE migrateService
  <2>1. V1Services \in SUBSET Items
    BY DEF V1Services, Items
  <2>2. ToolOK' /\ RestoreInv'
    <3>1. NextIs("migrate", "services") /\ List(V1Services)
      BY <1>8, Zenon DEF migrateService
    <3>2. ToolOK' /\ tool'.cmd = "migrate"
      BY <1>a, <2>1, <3>1, Listing, Zenon
    <3> QED
      BY <3>2 DEF RestoreInv
  <2> QED
    BY <1>8, <2>2 DEF TypeOK, ToolOK, migrateService
<1>9. ASSUME NEW n \in Svc, migrateServiceList(n) PROVE TypeInv'
  <2>1. ToolOK' /\ RestoreInv'
    BY <1>9, <1>a, Doing DEF migrateServiceList, RestoreInv
  <2>2. svcs' \subseteq Svc \X {"v1", "v2"}
    <3>1. svcs \subseteq Svc \X {"v1", "v2"} /\ svcs' = svcs \cup {<<n, "v2">>}
      BY <1>9, Zenon DEF TypeOK, migrateServiceList
    <3> QED
      BY <3>1, ServicePairs
  <2> QED
    BY <1>9, <2>1, <2>2 DEF TypeOK, ToolOK, migrateServiceList
<1>10. CASE Clean
  <2>1. ToolOK' /\ RestoreInv'
    <3>1. tool.cmd = "clean"
      BY <1>10 DEF Clean
    <3>2. \/ Stop
          \/ \E items \in SUBSET Items : \E phase : NextIs("clean", phase) /\ List(items)
          \/ \E x \in tool.todo : Did(x)
      <4>1. {} \in SUBSET Items /\ Existing(v1) \in SUBSET Items
        BY DEF Existing, Items
      <4> QED
        BY <1>10, <4>1 DEF Clean, cleanIPs, deleteV1Subnet, deleteV1CRD
    <3>3. CASE Stop
      BY <3>3, Stopping DEF RestoreInv
    <3>4. ASSUME NEW items \in SUBSET Items, NEW phase, NextIs("clean", phase), List(items)
          PROVE  ToolOK' /\ RestoreInv'
      <4>1. tool'.cmd = "clean" /\ ToolOK'
        BY <1>a, <3>4, Listing, Zenon
      <4> QED
        BY <4>1 DEF RestoreInv
    <3>5. ASSUME NEW x \in tool.todo, Did(x) PROVE ToolOK' /\ RestoreInv'
      <4>1. tool'.cmd = "clean" /\ ToolOK'
        BY <1>a, <3>1, <3>5, Doing
      <4> QED
        BY <4>1 DEF RestoreInv
    <3> QED
      BY <3>2, <3>3, <3>4, <3>5, Zenon
  <2>2. /\ v1' \in [Subnet -> V1Spec] /\ crds' \subseteq {"ip", "subnet"}
        /\ ips' \subseteq Key /\ late' \subseteq Key
    <3>1. v1' \in [Subnet -> V1Spec]
      BY <1>10 DEF TypeOK, Clean, deleteV1Subnet, deleteV1CRD, V1Spec
    <3>2. crds' \subseteq {"ip", "subnet"}
      BY <1>10 DEF TypeOK, Clean, deleteV1CRD
    <3>3. ips' \subseteq Key /\ late' \subseteq Key
      BY <1>10 DEF TypeOK, Clean, deleteV1CRD
    <3> QED
      BY <3>1, <3>2, <3>3
  <2> QED
    BY <1>10, <2>1, <2>2 DEF TypeOK, ToolOK, Clean
<1>11. CASE Backup
  <2>1. ToolOK' /\ RestoreInv'
    <3>1. \E phase : NextIs("backup", phase) /\ List({})
      BY <1>11 DEF Backup, BackupV1, BackupV2, BackupV1Service
    <3>2. {} \in SUBSET Items
      OBVIOUS
    <3> QED
      <4>1. ToolOK' /\ tool'.cmd = "backup"
        BY <1>a, <3>1, <3>2, Listing, Zenon
      <4> QED
        BY <4>1 DEF RestoreInv
  <2>2. file' \in [v1 : [Subnet -> {None, Spec("", "")}], v2 : [Subnet -> V2Spec],
                   svcs : SUBSET Svc, crd : BOOLEAN]
    <3>1. file \in [v1 : [Subnet -> {None, Spec("", "")}], v2 : [Subnet -> V2Spec],
                    svcs : SUBSET Svc, crd : BOOLEAN]
      BY DEF TypeOK
    <3>2. CASE BackupV1
      <4>1. [s \in Subnet |-> listV1Resources(v1[s])] \in [Subnet -> {None, Spec("", "")}]
        BY <1>b, Conversion
      <4>2. ("subnet" \in crds) \in BOOLEAN
        OBVIOUS
      <4>3. ASSUME NEW b \in BOOLEAN, NEW m \in [Subnet -> {None, Spec("", "")}]
            PROVE  [file EXCEPT !.crd = b, !.v1 = m]
                       \in [v1 : [Subnet -> {None, Spec("", "")}], v2 : [Subnet -> V2Spec],
                           svcs : SUBSET Svc, crd : BOOLEAN]
        BY <3>1
      <4> QED
        BY <3>2, <4>1, <4>2, <4>3, Zenon DEF BackupV1
    <3>3. CASE BackupV2
      BY <1>b, <3>1, <3>3 DEF BackupV2
    <3>4. CASE BackupV1Service
      BY <3>1, <3>4 DEF BackupV1Service, V1Services
    <3> QED
      BY <1>11, <3>2, <3>3, <3>4 DEF Backup
  <2> QED
    BY <1>11, <2>1, <2>2 DEF TypeOK, ToolOK, Backup
<1>12. CASE Restore
  <2>1. /\ file.v1 \in [Subnet -> {None, Spec("", "")}] /\ file.v2 \in [Subnet -> V2Spec]
        /\ file.svcs \subseteq Svc /\ svcs \subseteq Svc \X {"v1", "v2"}
        /\ crds \subseteq {"ip", "subnet"}
    BY DEF TypeOK
  <2>2. ToolOK' /\ RestoreInv'
    <3>1. tool.cmd = "restore"
      BY <1>12 DEF Restore
    <3>2. \/ \E items \in SUBSET Items : \E phase :
                /\ NextIs("restore", phase) /\ List(items)
                /\ phase = "services" => items \subseteq Svc
          \/ \E x \in tool.todo : Did(x)
      <4>1. /\ {} \in SUBSET Items /\ Existing(file.v1) \in SUBSET Items
            /\ Existing(file.v2) \in SUBSET Items /\ file.svcs \in SUBSET Items
        BY <2>1 DEF Existing, Items
      <4>2. "crd" # "services" /\ "v1" # "services" /\ "v2" # "services"
        OBVIOUS
      <4> QED
        BY <1>12, <2>1, <4>1, <4>2, Zenon DEF Restore
    <3>3. ASSUME NEW items \in SUBSET Items, NEW phase, NextIs("restore", phase), List(items),
                 phase = "services" => items \subseteq Svc
          PROVE  ToolOK' /\ RestoreInv'
      <4>1. /\ tool' = [cmd |-> "restore", phase |-> tool.phase + 1, todo |-> items]
            /\ ToolOK'
        BY <1>a, <3>3, Listing, Zenon
      <4>2. tool.phase \in Nat /\ (tool.phase = 3 => phase = "services")
        BY <1>a, <3>3, Positions DEF ToolOK
      <4> QED
        BY <3>3, <4>1, <4>2 DEF RestoreInv
    <3>4. ASSUME NEW x \in tool.todo, Did(x) PROVE ToolOK' /\ RestoreInv'
      BY <1>a, <3>4, Doing DEF RestoreInv
    <3> QED
      BY <3>2, <3>3, <3>4
  <2>3. svcs' \subseteq Svc \X {"v1", "v2"}
    <3>1. \/ svcs' = svcs
          \/ At("restore", "services") /\ \E n \in tool.todo : svcs' = svcs \cup {<<n, "v1">>}
      BY <1>12, Zenon DEF Restore
    <3>2. At("restore", "services") => tool.todo \subseteq Svc
      <4>1. At("restore", "services") => tool.cmd = "restore" /\ tool.phase \in 1 .. 4
                                         /\ Phases("restore")[tool.phase] = "services"
        BY <1>a, OtherPhases DEF At, ToolOK
      <4> QED
        BY <4>1, OtherPhases DEF RestoreInv
    <3>3. \A n \in tool.todo : At("restore", "services") => <<n, "v1">> \in Svc \X {"v1", "v2"}
      BY <3>2, ServicePairs
    <3> DEFINE pairs == Svc \X {"v1", "v2"}
    <3> HIDE DEF pairs
    <3> QED
      BY <2>1, <3>1, <3>3, Zenon DEF pairs
  <2>4. v1' \in [Subnet -> V1Spec]
    <3>1. \/ v1' = v1
          \/ \E s \in tool.todo : v1' = [v1 EXCEPT ![s] = IF @ = None THEN file.v1[s] ELSE @]
      BY <1>12, Zenon DEF Restore
    <3> QED
      BY <1>b, <2>1, <3>1 DEF V1Spec
  <2>5. v2' \in [Subnet -> V2Spec]
    <3>1. v2' = v2 \/ \E s \in tool.todo : create(s, file.v2[s])
      BY <1>12, Zenon DEF Restore
    <3> QED
      BY <1>b, <2>1, <3>1 DEF create
  <2>6. crds' \subseteq {"ip", "subnet"}
    BY <1>12, <2>1 DEF Restore
  <2> QED
    BY <1>12, <2>2, <2>3, <2>4, <2>5, <2>6, Zenon DEF TypeOK, ToolOK, Restore
<1>13. CASE User
  <2>1. ToolOK' /\ RestoreInv' /\ UNCHANGED <<file, copy, finished, starts>>
    BY <1>13, <1>a DEF User, toolVars, ToolOK, RestoreInv
  <2>2. events' \in 0 .. MaxEvents
    <3>1. events \in 0 .. MaxEvents /\ events < MaxEvents /\ events' = events + 1
      BY <1>13, Zenon DEF TypeOK, User
    <3> QED
      BY <3>1, BoundAssumption
  <2>3. ASSUME NEW k \in Key, EditWorkload(k) PROVE TypeInv'
    <3>1. \E w \in Workload : PutWorkload(k, w)
      <4>1. [workloads[k] EXCEPT !.ann.other = 1] \in Workload
        BY <1>b, Editing, Zenon
      <4>2. \A t \in Subnet, n \in Networks :
                V1Workload(t, n) \in Workload
        BY Templates
      <4>3. NoWorkload \in Workload
        BY Templates
      <4>4. \/ PutWorkload(k, NoWorkload)
            \/ \E t \in Subnet : \E n \in Networks : PutWorkload(k, V1Workload(t, n))
            \/ PutWorkload(k, [workloads[k] EXCEPT !.ann.other = 1])
        BY <2>3, Zenon DEF EditWorkload
      <4> QED
        BY <4>1, <4>2, <4>3, <4>4, Zenon
    <3>2. /\ workloads' \in [Key -> Workload]
          /\ touched' \subseteq Key \cup Subnet
          /\ UNCHANGED <<v1, v2, crds, ips, svcs, late>>
      <4>1. PICK w \in Workload : PutWorkload(k, w)
        BY <3>1
      <4> QED
        BY <4>1, <1>b DEF PutWorkload, TypeOK
    <3> QED
      BY <2>1, <2>2, <3>2 DEF TypeOK, ToolOK
  <2>4. ASSUME NEW k \in Key, EditIPs(k) PROVE TypeInv'
    <3>1. /\ ips' \subseteq Key /\ late' \subseteq Key
          /\ UNCHANGED <<v1, v2, crds, workloads, svcs, touched>>
      BY <2>4 DEF EditIPs, TypeOK
    <3> QED
      BY <2>1, <2>2, <3>1 DEF TypeOK, ToolOK
  <2>5. ASSUME NEW s \in Subnet, EditSubnet(s) PROVE TypeInv'
    <3>1. touched' \subseteq Key \cup Subnet /\ UNCHANGED <<crds, ips, workloads, svcs, late>>
      BY <2>5 DEF EditSubnet, TypeOK
    <3>2. v1' \in [Subnet -> V1Spec]
      <4>1. v1' = v1 \/ \E spec \in V1Specs \cup {None} : v1' = [v1 EXCEPT ![s] = spec]
        BY <2>5 DEF EditSubnet
      <4> QED
        BY <1>b, <4>1 DEF V1Spec
    <3>3. v2' \in [Subnet -> V2Spec]
      <4>1. \/ v2' = v2 \/ v2' = [v2 EXCEPT ![s] = None]
            \/ v2[s] # None /\ v2' = [v2 EXCEPT ![s].edited = TRUE]
        BY <2>5 DEF EditSubnet
      <4>2. v2[s] # None => [v2[s] EXCEPT !.edited = TRUE] \in V2Spec
        BY <1>b DEF V2Spec
      <4>3. None \in V2Spec
        BY DEF V2Spec
      <4> QED
        BY <1>b, <4>1, <4>2, <4>3, Zenon
    <3> QED
      BY <2>1, <2>2, <3>1, <3>2, <3>3 DEF TypeOK, ToolOK
  <2> QED
    BY <1>13, <2>3, <2>4, <2>5 DEF User
<1>14. CASE UNCHANGED vars
  BY <1>14 DEF vars, toolVars, TypeOK, RestoreInv
<1> QED
  BY <1>1, <1>2, <1>3, <1>4, <1>5, <1>6, <1>7, <1>8, <1>9, <1>10, <1>11, <1>12, <1>13, <1>14
     DEF Next

(* Type correctness of the cluster and of the command that runs: whatever is listed,
   converted, broken off or restored, annotations, subnets and services have the form
   that migrator.go gives them, and a command is in one of its phases. *)
THEOREM TypeCorrect == MigratorSpec => []TypeOK
<1>1. Init => TypeInv
  BY InitTypeInv
<1>2. TypeInv /\ [Next]_vars => TypeInv'
  BY NextTypeInv
<1>3. TypeInv => TypeOK
  BY DEF TypeInv
<1> QED
  BY <1>1, <1>2, <1>3, PTL DEF MigratorSpec

-----------------------------------------------------------------------------
LEMMA KindsApart ==
    \A k \in Key : Kind(k) # "subnets" /\ Kind(k) # "services"
BY KindAssumption DEF WorkloadKinds

(* Where migrate is when it handles an item, or makes the next list. *)
LEMMA Handling ==
    ASSUME ToolOK, NEW phase, At("migrate", phase)
    PROVE  /\ Migrating /\ Phase = phase /\ tool # Idle
           /\ tool.phase \in 1 .. Len(Phases("migrate")) /\ tool.phase \in Nat
           /\ phase = "subnets" => tool.phase = 1
           /\ phase # "subnets" => tool.phase > 1
<1>1. /\ tool.cmd = "migrate" /\ tool.phase \in Nat \ {0} /\ Phases("migrate")[tool.phase] = phase
      /\ tool.phase <= Len(Phases("migrate"))
  BY DEF ToolOK, At
<1>2. tool # Idle
  BY <1>1 DEF Idle
<1> QED
  BY <1>1, <1>2, MigratePhases DEF Migrating, Phase

LEMMA ListingNext ==
    ASSUME ToolOK, NEW phase, NextIs("migrate", phase), NEW items \in SUBSET Items, List(items)
    PROVE  /\ Migrating' /\ Phase' = phase /\ tool # Idle /\ ToolOK'
           /\ tool.phase \in Nat /\ tool'.phase = tool.phase + 1 /\ tool'.todo = items
           /\ tool.todo = {} /\ tool.cmd = "migrate"
           /\ phase = "subnets" => tool.phase = 0
           /\ phase # "subnets" => tool.phase > 0 /\ Migrating
<1>1. /\ tool' = [cmd |-> "migrate", phase |-> tool.phase + 1, todo |-> items]
      /\ ToolOK' /\ tool # Idle /\ Phases("migrate")[tool.phase + 1] = phase
  BY Listing, Zenon
<1>2. tool.phase \in Nat /\ tool.todo = {} /\ tool.cmd = "migrate"
  BY DEF NextIs, ToolOK
<1>3. tool'.cmd = "migrate" /\ tool'.phase = tool.phase + 1 /\ tool'.todo = items
  BY <1>1, Zenon
<1>4. Migrating'
  BY <1>2, <1>3 DEF Migrating
<1>5. Phase' = phase
  BY <1>1, <1>3, Zenon DEF Phase
<1> QED
  BY <1>1, <1>2, <1>3, <1>4, <1>5, Positions DEF Migrating

(* When migrate does not run, and has not just ended well, there is little to keep. *)
LEMMA NotMigrating ==
    ASSUME MigrateInv, ~Migrating', ~finished', UNCHANGED workloads
    PROVE  MigrateInv'
BY DEF MigrateInv, SubnetsListed, WorkloadsListed, SubnetsDone, WorkloadsDone, ServicesDone,
       Absent, Running, MigrationIsComplete

LEMMA InitMigrateInv ==
    ASSUME Init
    PROVE  MigrateInv
<1>1. ~Migrating /\ tool = Idle /\ finished = FALSE
  BY DEF Init, Migrating, Idle
<1>2. Absent
  <2> SUFFICES ASSUME NEW k \in Key, ~workloads[k].exists PROVE workloads[k] = NoWorkload
    BY DEF Absent
  <2>1. workloads[k] \in {NoWorkload} \cup {V1Workload(s, V1Attachment) : s \in Subnet}
    BY DEF Init
  <2> QED
    BY <2>1, Templates
<1> QED
  BY <1>1, <1>2 DEF MigrateInv, SubnetsListed, WorkloadsListed, SubnetsDone, WorkloadsDone,
                    ServicesDone, Running, MigrationIsComplete

(* After the phase of the subnets no subnet of V1 is without its FlatNetworkSubnet. *)
LEMMA SubnetsAreDone ==
    ASSUME MigrateInv, Migrating, tool.phase > 1, tool.phase \in Nat
    PROVE  \A s \in Subnet \ touched : v1[s] # None => v2[s] # None
<1>1. tool.phase # 1
  OBVIOUS
<1> QED
  BY <1>1, Zenon DEF MigrateInv, SubnetsDone

(* The list of subnets: nothing is done yet, and everything is listed. *)
LEMMA MigrateSubnetsInv ==
    ASSUME TypeOK, MigrateInv, migrateSubnets
    PROVE  MigrateInv'
<1>a. ToolOK /\ v1 \in [Subnet -> V1Spec]
      /\ copy \in [specs : [Subnet -> V1Spec], anns : [Key -> Annotations]]
  BY DEF TypeOK, ToolOK
<1>b. tool # Idle
  BY DEF migrateSubnets, NextIs, Idle
<1>c. ~finished /\ ~finished' /\ UNCHANGED <<v1, v2, workloads, svcs>>
  BY <1>b DEF MigrateInv, Running, migrateSubnets
<1>1. CASE "subnet" \in crds
  <2>1. /\ Existing(v1) \in SUBSET Items /\ List(Existing(v1)) /\ NextIs("migrate", "subnets")
        /\ copy' = [copy EXCEPT !.specs = v1]
    BY <1>1 DEF migrateSubnets, Existing, Items
  <2>2. Phase' = "subnets" /\ tool'.phase = 1 /\ tool'.todo = Existing(v1)
    BY <1>a, <2>1, ListingNext
  <2>3. SubnetsListed' /\ SubnetsDone'
    BY <1>a, <1>c, <2>1, <2>2 DEF SubnetsListed, SubnetsDone, Existing
  <2>4. WorkloadsListed'
    BY <2>2, KindsApart DEF WorkloadsListed
  <2>5. WorkloadsDone'
    <3>1. \A i \in 1 .. tool'.phase : Phases("migrate")[i] = "subnets"
      BY <2>2, MigratePhases
    <3> QED
      BY <3>1, KindsApart, Zenon DEF WorkloadsDone
  <2>6. ServicesDone'
    BY <2>2 DEF ServicesDone
  <2> QED
    BY <1>c, <2>3, <2>4, <2>5, <2>6 DEF MigrateInv, Absent, Running, MigrationIsComplete
<1>2. CASE "subnet" \notin crds
  <2>1. ~Migrating'
    BY <1>2, Stopping DEF migrateSubnets, Migrating, Idle
  <2> QED
    BY <1>c, <2>1, NotMigrating
<1> QED
  BY <1>1, <1>2

(* A subnet of the list: it exists then, whether it did before or not. *)
LEMMA MigrateSubnetListInv ==
    ASSUME TypeOK, MigrateInv, NEW s \in Subnet, migrateSubnetList(s)
    PROVE  MigrateInv'
<1>a. ToolOK /\ copy.specs \in [Subnet -> V1Spec] /\ v2 \in [Subnet -> V2Spec]
  BY DEF TypeOK, ToolOK
<1>b. At("migrate", "subnets") /\ s \in tool.todo
      /\ UNCHANGED <<v1, workloads, svcs, copy, finished, touched>>
  BY DEF migrateSubnetList
<1>c. Migrating /\ Phase = "subnets" /\ tool # Idle /\ tool.phase = 1
  BY <1>a, <1>b, Handling
<1>d. ~finished /\ ~finished'
  BY <1>b, <1>c DEF MigrateInv, Running
<1>1. CASE Convertible(copy.specs[s])
  <2>1. Did(s) /\ v2' = [v2 EXCEPT ![s] = IF @ = None THEN newFlatNetworkSubnet(copy.specs[s]) ELSE @]
    BY <1>1, Zenon DEF migrateSubnetList, create
  <2>2. tool'.phase = 1 /\ tool'.todo = tool.todo \ {s} /\ Phase' = "subnets"
    <3>1. tool' = [cmd |-> tool.cmd, phase |-> tool.phase, todo |-> tool.todo \ {s}]
      BY <1>a, <1>b, <2>1, Doing
    <3>2. Phases("migrate")[tool'.phase] = Phases("migrate")[tool.phase]
      BY <3>1
    <3> QED
      BY <1>c, <3>1, <3>2 DEF Phase
  <2>3. copy.specs[s] # None
    BY <1>b, <1>c DEF MigrateInv, SubnetsListed
  <2>4. newFlatNetworkSubnet(copy.specs[s]) # None
    BY <1>a, <2>3, Conversion
  <2>5. \A t \in Subnet : v2'[t] = None => v2[t] = None /\ t # s
    BY <1>a, <2>1, <2>4
  <2>6. SubnetsListed' /\ SubnetsDone'
    BY <1>b, <1>c, <2>2, <2>5 DEF MigrateInv, SubnetsListed, SubnetsDone
  <2>7. WorkloadsListed' /\ WorkloadsDone' /\ ServicesDone'
    <3>1. \A i \in 1 .. tool'.phase : Phases("migrate")[i] = "subnets"
      BY <2>2, MigratePhases
    <3>2. WorkloadsListed'
      BY <2>2, KindsApart DEF WorkloadsListed
    <3>3. WorkloadsDone'
      BY <3>1, KindsApart, Zenon DEF WorkloadsDone
    <3>4. ServicesDone'
      BY <2>2 DEF ServicesDone
    <3> QED
      BY <3>2, <3>3, <3>4
  <2> QED
    BY <1>b, <1>d, <2>6, <2>7, Zenon DEF MigrateInv, Absent, Running, MigrationIsComplete
<1>2. CASE ~Convertible(copy.specs[s])
  <2>1. ~Migrating'
    BY <1>2, Stopping, Zenon DEF migrateSubnetList, Migrating
  <2> QED
    BY <1>b, <1>d, <2>1, NotMigrating
<1> QED
  BY <1>1, <1>2

(* The list of workloads of a kind: those that do not exist have no template, and what
   users have written of other kinds still counts. *)
LEMMA MigrateWorkloadInv ==
    ASSUME TypeOK, MigrateInv, NEW i \in DOMAIN Kinds, migrateWorkload(Kinds[i])
    PROVE  MigrateInv'
<1> DEFINE kind == Kinds[i]
           items == {k \in Key : workloads[k].exists /\ Kind(k) = kind}
<1>a. ToolOK
  BY DEF TypeOK, ToolOK
<1>b. /\ NextIs("migrate", kind) /\ List(items)
      /\ copy' = [NoCopy EXCEPT !.anns =
                      [k \in Key |-> IF k \in items THEN workloads[k].ann ELSE Plain]]
      /\ touched' = touched \ {k \in Key : Kind(k) = kind}
      /\ UNCHANGED <<v1, v2, workloads, svcs, finished>>
  BY DEF migrateWorkload
<1>c. items \in SUBSET Items
  BY DEF Items
<1>d. kind # "subnets" /\ kind # "services"
  <2>1. kind \in WorkloadKinds \cup {"unknown"}
    <3> DEFINE K == WorkloadKinds \cup {"unknown"}
    <3> HIDE DEF K
    <3>1. Kinds \in Seq(K)
      BY KindAssumption DEF K
    <3> QED
      BY <3>1 DEF K
  <2> QED
    BY <2>1 DEF WorkloadKinds
<1> HIDE DEF kind, items
<1>1. /\ Migrating' /\ Migrating /\ Phase' = kind /\ tool # Idle
      /\ tool.phase \in Nat /\ tool.phase > 0 /\ tool'.phase = tool.phase + 1
      /\ tool'.todo = items /\ tool.todo = {}
  BY <1>a, <1>b, <1>c, <1>d, ListingNext
<1>2. ~finished /\ ~finished'
  BY <1>b, <1>1 DEF MigrateInv, Running
<1>3. SubnetsListed'
  BY <1>1 DEF SubnetsListed
<1>4. WorkloadsListed'
  <2>1. \A k \in Key \cap items : workloads[k].exists /\ copy'.anns[k] = workloads[k].ann
    BY <1>b DEF NoCopy, items
  <2> QED
    BY <1>b, <1>1, <2>1 DEF WorkloadsListed
<1>5. SubnetsDone'
  <2>1. Subnet \ touched' \subseteq Subnet \ touched
    BY <1>b, NameAssumption
  <2> QED
    BY <1>b, <1>1, <2>1 DEF MigrateInv, SubnetsDone
<1>6. WorkloadsDone'
  <2> SUFFICES ASSUME NEW k \in Key \ touched', NEW j \in 1 .. tool'.phase,
                      Phases("migrate")[j] = Kind(k), Kind(k) # "CronJob"
               PROVE  \/ ~isMacvlanV1Enabled(workloads'[k].ann)
                      \/ Phase' = Kind(k) /\ k \in tool'.todo
    BY DEF WorkloadsDone
  <2>1. CASE Kind(k) = kind
    <3>1. ~workloads[k].exists => ~isMacvlanV1Enabled(workloads[k].ann)
      <4>1. ~workloads[k].exists => workloads[k] = NoWorkload
        BY DEF MigrateInv, Absent
      <4>2. NoWorkload.ann = Plain
        BY DEF NoWorkload
      <4> QED
        BY <4>1, <4>2, Templates
    <3> QED
      BY <1>b, <1>1, <2>1, <3>1 DEF items
  <2>2. CASE Kind(k) # kind
    <3>1. j \in 1 .. tool.phase
      <4>1. Phases("migrate")[tool'.phase] = kind
        BY <1>1 DEF Phase
      <4>2. j # tool'.phase
        BY <2>2, <4>1
      <4> QED
        BY <1>1, <4>2
    <3>2. k \in Key \ touched
      BY <1>b, <2>2
    <3> QED
      BY <1>b, <1>1, <3>1, <3>2 DEF MigrateInv, WorkloadsDone
  <2> QED
    BY <2>1, <2>2
<1>7. ServicesDone'
  BY <1>1, <1>d DEF ServicesDone
<1> QED
  BY <1>b, <1>2, <1>3, <1>4, <1>5, <1>6, <1>7
     DEF MigrateInv, Absent, Running, MigrationIsComplete

(* A workload of the list: its template is rewritten as it was listed, and if it has no
   annotations of V1 in the list then it has none now. *)
LEMMA ProcessInv ==
    ASSUME TypeOK, MigrateInv, NEW k \in Key, processPodTemplateAnnotation(k)
    PROVE  MigrateInv'
<1> DEFINE a == GetTemplateObjectMeta(k, copy.anns[k])
<1>a. /\ ToolOK /\ copy.anns \in [Key -> Annotations]
      /\ workloads \in [Key -> Workload]
  BY DEF TypeOK, ToolOK
<1>b. At("migrate", Kind(k)) /\ k \in tool.todo
      /\ UNCHANGED <<v1, v2, svcs, copy, finished, touched>>
  BY DEF processPodTemplateAnnotation
<1>c. Migrating /\ Phase = Kind(k) /\ tool # Idle /\ tool.phase \in Nat /\ tool.phase > 1
  <2>1. At("migrate", Kind(k)) /\ Kind(k) # "subnets"
    BY <1>b, KindsApart, Zenon
  <2> QED
    BY <1>a, <2>1, Handling, Zenon
<1>d. ~finished /\ ~finished'
  BY <1>b, <1>c DEF MigrateInv, Running
<1>e. a \in Annotations
  BY <1>a, Templates DEF GetTemplateObjectMeta
<1>f. Kind(k) # "CronJob" => a = copy.anns[k]
  BY DEF GetTemplateObjectMeta
<1>g. /\ updateAnnotation(a) \in Annotations /\ ~isMacvlanV1Enabled(updateAnnotation(a))
  BY <1>e, Annotating
<1> HIDE DEF a
<1>1. ASSUME Did(k),
             \/ workloads' = workloads /\ ~isMacvlanV1Enabled(a)
             \/ /\ workloads[k].exists
                /\ workloads' = [workloads EXCEPT ![k].ann = updateAnnotation(a),
                                                  ![k].v1Labels = FALSE]
      PROVE  MigrateInv'
  <2>1. /\ tool'.phase = tool.phase /\ tool'.todo = tool.todo \ {k} /\ Phase' = Phase /\ Migrating'
        /\ tool'.cmd = tool.cmd
    BY <1>a, <1>b, <1>c, <1>1, Doing DEF Phase, Migrating
  <2>2. /\ \A l \in Key \ {k} : workloads'[l] = workloads[l]
        /\ workloads'[k].exists = workloads[k].exists
        /\ ~workloads[k].exists => workloads'[k] = workloads[k]
    BY <1>a, <1>1 DEF Workload
  <2>3. k \notin touched /\ Kind(k) # "CronJob" => ~isMacvlanV1Enabled(workloads'[k].ann)
    <3>1. CASE workloads' = workloads /\ ~isMacvlanV1Enabled(a)
      BY <1>b, <1>c, <1>f, <3>1 DEF MigrateInv, WorkloadsListed
    <3>2. CASE workloads' = [workloads EXCEPT ![k].ann = updateAnnotation(a),
                                              ![k].v1Labels = FALSE]
      BY <1>a, <1>g, <3>2
    <3> QED
      BY <1>1, <3>1, <3>2
  <2>4. SubnetsListed' /\ SubnetsDone' /\ ServicesDone'
    <3>1. SubnetsListed'
      BY <1>b, <1>c, <2>1, KindsApart DEF MigrateInv, SubnetsListed
    <3>2. SubnetsDone'
      <4>1. \A s \in Subnet \ touched : v1[s] # None => v2[s] # None
        BY <1>c, SubnetsAreDone, Zenon
      <4> QED
        BY <1>b, <4>1, Zenon DEF SubnetsDone
    <3>3. ServicesDone'
      BY <1>b, <1>c, <2>1, KindsApart DEF MigrateInv, ServicesDone
    <3> QED
      BY <3>1, <3>2, <3>3
  <2>5. WorkloadsListed'
    BY <1>b, <1>c, <2>1, <2>2 DEF MigrateInv, WorkloadsListed
  <2>6. WorkloadsDone'
    <3> SUFFICES ASSUME NEW l \in Key \ touched', NEW j \in 1 .. tool'.phase,
                        Phases("migrate")[j] = Kind(l), Kind(l) # "CronJob"
                 PROVE  \/ ~isMacvlanV1Enabled(workloads'[l].ann)
                        \/ Phase' = Kind(l) /\ l \in tool'.todo
      BY DEF WorkloadsDone
    <3>1. CASE l = k
      BY <1>b, <2>3, <3>1
    <3>2. CASE l # k
      BY <1>b, <1>c, <2>1, <2>2, <3>2 DEF MigrateInv, WorkloadsDone
    <3> QED
      BY <3>1, <3>2
  <2>7. Absent'
    BY <2>2 DEF MigrateInv, Absent
  <2> QED
    BY <1>d, <2>4, <2>5, <2>6, <2>7 DEF MigrateInv, Running, MigrationIsComplete
<1>2. ASSUME Stop, UNCHANGED workloads PROVE MigrateInv'
  <2>1. ~Migrating'
    BY <1>2, Stopping DEF Migrating, Idle
  <2> QED
    BY <1>d, <1>2, <2>1, NotMigrating
<1> QED
  BY <1>1, <1>2 DEF processPodTemplateAnnotation, updateWorkload, a

(* The list of services, and a service of it. *)
LEMMA MigrateServiceInv ==
    ASSUME TypeOK, MigrateInv, migrateService
    PROVE  MigrateInv'
<1>a. ToolOK
  BY DEF TypeOK, ToolOK
<1>b. /\ NextIs("migrate", "services") /\ List(V1Services)
      /\ UNCHANGED <<v1, v2, workloads, svcs, copy, finished, touched>>
  BY DEF migrateService
<1>c. V1Services \in SUBSET Items
  BY DEF V1Services, Items
<1>1. /\ Migrating' /\ Migrating /\ Phase' = "services" /\ tool # Idle
      /\ tool.phase \in Nat /\ tool.phase > 0 /\ tool'.phase = tool.phase + 1
      /\ tool'.todo = V1Services /\ tool.todo = {}
  BY <1>a, <1>b, <1>c, ListingNext
<1>2. ~finished /\ ~finished'
  BY <1>b, <1>1 DEF MigrateInv, Running
<1>3. SubnetsListed' /\ WorkloadsListed'
  <2>1. SubnetsListed'
    BY <1>1 DEF SubnetsListed
  <2>2. WorkloadsListed'
    BY <1>1, KindsApart DEF WorkloadsListed
  <2> QED
    BY <2>1, <2>2
<1>4. SubnetsDone'
  BY <1>b, <1>1 DEF MigrateInv, SubnetsDone
<1>5. WorkloadsDone'
  <2> SUFFICES ASSUME NEW k \in Key \ touched', NEW j \in 1 .. tool'.phase,
                      Phases("migrate")[j] = Kind(k), Kind(k) # "CronJob"
               PROVE  ~isMacvlanV1Enabled(workloads'[k].ann)
    BY DEF WorkloadsDone
  <2>1. Phases("migrate")[tool'.phase] = "services"
    BY <1>1 DEF Phase
  <2>2. j # tool'.phase
    BY <2>1, KindsApart
  <2>3. j \in 1 .. tool.phase
    BY <1>1, <2>2
  <2> QED
    BY <1>b, <1>1, <2>3 DEF MigrateInv, WorkloadsDone
<1>6. ServicesDone'
  BY <1>b, <1>1 DEF ServicesDone, V1Services
<1> QED
  BY <1>b, <1>2, <1>3, <1>4, <1>5, <1>6
     DEF MigrateInv, Absent, Running, MigrationIsComplete

LEMMA MigrateServiceListInv ==
    ASSUME TypeOK, MigrateInv, NEW n \in Svc, migrateServiceList(n)
    PROVE  MigrateInv'
<1>a. ToolOK
  BY DEF TypeOK, ToolOK
<1>b. /\ At("migrate", "services") /\ n \in tool.todo /\ Did(n)
      /\ svcs' = svcs \cup {<<n, "v2">>}
      /\ UNCHANGED <<v1, v2, workloads, copy, finished, touched>>
  BY DEF migrateServiceList
<1>c. Migrating /\ Phase = "services" /\ tool # Idle /\ tool.phase \in Nat /\ tool.phase > 1
  <2>1. At("migrate", "services") /\ "services" # "subnets"
    BY <1>b
  <2> QED
    BY <1>a, <2>1, Handling, Zenon
<1>1. tool'.phase = tool.phase /\ tool'.todo = tool.todo \ {n} /\ Phase' = Phase /\ Migrating'
  BY <1>a, <1>b, <1>c, Doing, Zenon DEF Phase, Migrating
<1>2. ~finished /\ ~finished'
  BY <1>b, <1>c DEF MigrateInv, Running
<1>3. SubnetsListed' /\ WorkloadsListed'
  <2>1. Phase' = "services" /\ tool'.phase # 1
    BY <1>1, <1>c
  <2>2. SubnetsListed'
    BY <2>1 DEF SubnetsListed
  <2>3. WorkloadsListed'
    BY <2>1, KindsApart DEF WorkloadsListed
  <2> QED
    BY <2>2, <2>3
<1>4. SubnetsDone'
  <2>1. \A s \in Subnet \ touched : v1[s] # None => v2[s] # None
    BY <1>c, SubnetsAreDone, Zenon
  <2> QED
    BY <1>b, <2>1, Zenon DEF SubnetsDone
<1>5. WorkloadsDone'
  BY <1>b, <1>c, <1>1, KindsApart DEF MigrateInv, WorkloadsDone
<1>6. ServicesDone'
  <2>1. V1Services' \subseteq V1Services
    BY <1>b DEF V1Services
  <2> QED
    BY <1>b, <1>c, <1>1, <2>1 DEF MigrateInv, ServicesDone
<1> QED
  BY <1>b, <1>2, <1>3, <1>4, <1>5, <1>6
     DEF MigrateInv, Absent, Running, MigrationIsComplete

(* When the last list is empty, what the phases have done is all there is to do. *)
LEMMA FinishInv ==
    ASSUME TypeOK, MigrateInv, Finish
    PROVE  MigrateInv'
<1>a. ToolOK
  BY DEF TypeOK, ToolOK
<1>b. /\ tool # Idle /\ tool.todo = {} /\ tool.phase = Len(Phases(tool.cmd)) /\ Stop
      /\ UNCHANGED <<v1, v2, workloads, svcs, copy, touched>>
      /\ finished' = (tool.cmd = "migrate")
  BY DEF Finish
<1>c. ~Migrating' /\ tool' = Idle
  BY <1>b, Stopping DEF Migrating, Idle
<1>1. CASE tool.cmd # "migrate"
  BY <1>1, <1>b, <1>c, NotMigrating, Zenon
<1>2. CASE tool.cmd = "migrate"
  <2> DEFINE P == Phases("migrate")
  <2>1. Migrating /\ tool.phase = Len(P) /\ Len(P) \in Nat /\ Len(P) >= 1
    <3>1. tool.phase = Len(P) /\ Len(P) \in Nat /\ Len(P) >= 1
      BY <1>2, <1>b, MigratePhases, Zenon
    <3> QED
      BY <1>2, <3>1 DEF Migrating
  <2>2. \A s \in Subnet \ touched : v1[s] # None => v2[s] # None
    BY <1>b, <2>1 DEF MigrateInv, SubnetsDone
  <2>3. ASSUME NEW k \in Key \ touched, NEW i \in DOMAIN Kinds, Kinds[i] = Kind(k),
               Kind(k) # "CronJob"
        PROVE  ~isMacvlanV1Enabled(workloads[k].ann)
    <3>1. i + 1 \in 1 .. tool.phase /\ P[i + 1] = Kind(k)
      BY <2>1, <2>3, MigratePhases
    <3> QED
      BY <1>b, <2>1, <2>3, <3>1 DEF MigrateInv, WorkloadsDone
  <2>4. Services /\ Kinds # <<>> => \A n \in V1Services : <<n, "v2">> \in svcs
    <3>1. Services /\ Kinds # <<>> => Phase = "services"
      BY <2>1, MigratePhases DEF Phase
    <3> QED
      BY <1>b, <2>1, <3>1 DEF MigrateInv, ServicesDone
  <2>5. V1Services' = V1Services
    BY <1>b DEF V1Services
  <2>6. MigrationIsComplete'
    BY <1>b, <2>2, <2>3, <2>4, <2>5 DEF MigrationIsComplete
  <2> QED
    BY <1>b, <1>c, <2>6 DEF MigrateInv, SubnetsListed, WorkloadsListed, SubnetsDone,
       WorkloadsDone, ServicesDone, Absent, Running
<1> QED
  BY <1>1, <1>2

(* What users do is counted as touched, or is harmless. *)
LEMMA UserInv ==
    ASSUME TypeOK, MigrateInv, User
    PROVE  MigrateInv'
<1>a. UNCHANGED <<tool, copy, finished>>
  BY DEF User, toolVars
<1>b. /\ v1 \in [Subnet -> V1Spec] /\ v2 \in [Subnet -> V2Spec]
      /\ workloads \in [Key -> Workload]
  BY DEF TypeOK
<1>c. (Migrating' <=> Migrating) /\ Phase' = Phase
  BY <1>a DEF Migrating, Phase
<1>1. ASSUME NEW k \in Key, NEW w, PutWorkload(k, w), w.exists \/ w = NoWorkload
      PROVE  MigrateInv'
  <2>1. /\ touched' = touched \cup {k} /\ UNCHANGED <<v1, v2, svcs>>
        /\ workloads' = [workloads EXCEPT ![k] = w]
    BY <1>1 DEF PutWorkload
  <2>2. \A l \in Key : workloads'[l] = IF l = k THEN w ELSE workloads[l]
    BY <1>b, <2>1
  <2>3. SubnetsListed' /\ SubnetsDone'
    BY <1>a, <1>c, <2>1 DEF MigrateInv, SubnetsListed, SubnetsDone
  <2>4. WorkloadsListed' /\ WorkloadsDone'
    <3>1. WorkloadsListed'
      BY <1>a, <1>c, <2>1, <2>2 DEF MigrateInv, WorkloadsListed
    <3>2. WorkloadsDone'
      BY <1>a, <1>c, <2>1, <2>2 DEF MigrateInv, WorkloadsDone
    <3> QED
      BY <3>1, <3>2
  <2>5. ServicesDone'
    BY <1>a, <1>c, <2>1 DEF MigrateInv, ServicesDone, V1Services
  <2>6. Absent' /\ Running'
    BY <1>a, <1>1, <2>2 DEF MigrateInv, Absent, Running
  <2>7. MigrationIsComplete'
    BY <1>a, <2>1, <2>2 DEF MigrateInv, MigrationIsComplete, V1Services
  <2> QED
    BY <2>3, <2>4, <2>5, <2>6, <2>7 DEF MigrateInv
<1>2. ASSUME NEW k \in Key, EditWorkload(k) PROVE MigrateInv'
  <2>1. [workloads[k] EXCEPT !.ann.other = 1].exists = workloads[k].exists
    BY <1>b, Editing
  <2>2. \A s \in Subnet, n \in Networks : V1Workload(s, n).exists
    BY Templates
  <2> QED
    BY <1>1, <1>2, <2>1, <2>2, Zenon DEF EditWorkload
<1>3. ASSUME NEW k \in Key, EditIPs(k) PROVE MigrateInv'
  BY <1>a, <1>c, <1>3, Zenon DEF EditIPs, MigrateInv, SubnetsListed, WorkloadsListed, SubnetsDone,
     WorkloadsDone, ServicesDone, Absent, Running, MigrationIsComplete, V1Services
<1>4. ASSUME NEW s \in Subnet, EditSubnet(s) PROVE MigrateInv'
  <2>1. UNCHANGED <<workloads, svcs>> /\ touched \subseteq touched'
    BY <1>4 DEF EditSubnet
  <2>2. \A t \in Subnet \ touched' : /\ v1'[t] # None => v1[t] # None
                                     /\ v2[t] # None => v2'[t] # None
    <3>1. \A t \in Subnet \ {s} : v1'[t] = v1[t] /\ v2'[t] = v2[t]
      BY <1>b, <1>4 DEF EditSubnet
    <3>2. v2[s] # None => [v2[s] EXCEPT !.edited = TRUE] # None
      <4>1. ASSUME v2[s] # None
            PROVE  v2[s] \in [gateway : {"", "ip"}, ranges : {"", "ip"}, edited : BOOLEAN]
        BY <1>b, <4>1 DEF V2Spec
      <4>2. ASSUME NEW r \in [gateway : {"", "ip"}, ranges : {"", "ip"}, edited : BOOLEAN]
            PROVE  [r EXCEPT !.edited = TRUE].gateway # "none"
        OBVIOUS
      <4> QED
        BY <4>1, <4>2 DEF None
    <3>3. s \in touched' \/ v1'[s] = None \/ v1'[s] = v1[s]
      BY <1>b, <1>4 DEF EditSubnet
    <3>4. s \in touched' \/ (v2[s] # None => v2'[s] # None)
      <4>1. CASE s \in touched' \/ v2' = v2
        BY <4>1
      <4>2. CASE v2[s] # None /\ v2' = [v2 EXCEPT ![s].edited = TRUE]
        <5>1. v2'[s] = [v2[s] EXCEPT !.edited = TRUE]
          BY <1>b, <4>2
        <5> QED
          BY <3>2, <4>2, <5>1
      <4> QED
        BY <1>4, <4>1, <4>2 DEF EditSubnet
    <3> QED
      BY <3>1, <3>3, <3>4
  <2>3. SubnetsListed' /\ SubnetsDone'
    BY <1>a, <1>c, <2>1, <2>2, Zenon DEF MigrateInv, SubnetsListed, SubnetsDone
  <2>4. WorkloadsListed' /\ WorkloadsDone'
    BY <1>a, <1>c, <2>1 DEF MigrateInv, WorkloadsListed, WorkloadsDone
  <2>5. ServicesDone' /\ Absent' /\ Running'
    BY <1>a, <1>c, <2>1 DEF MigrateInv, ServicesDone, V1Services, Absent, Running
  <2>6. MigrationIsComplete'
    BY <1>a, <2>1, <2>2 DEF MigrateInv, MigrationIsComplete, V1Services
  <2> QED
    BY <2>3, <2>4, <2>5, <2>6 DEF MigrateInv
<1> QED
  BY <1>2, <1>3, <1>4 DEF User

LEMMA NextMigrateInv ==
    ASSUME TypeOK, MigrateInv, [Next]_vars
    PROVE  MigrateInv'
<1>a. ToolOK
  BY DEF TypeOK, ToolOK
<1>1. ASSUME NEW cmd \in Commands, Start(cmd) PROVE MigrateInv'
  <2>1. ~Migrating' /\ ~finished' /\ UNCHANGED workloads
    BY <1>1 DEF Start, Idle, Migrating
  <2> QED
    BY <2>1, NotMigrating
<1>2. CASE Abort
  <2>1. ~Migrating' /\ ~finished' /\ UNCHANGED workloads
    <3>1. Stop /\ UNCHANGED workloads /\ finished' = finished /\ tool # Idle
      BY <1>2, Zenon DEF Abort
    <3>2. ~finished
      BY <3>1, Zenon DEF MigrateInv, Running
    <3> QED
      BY <3>1, <3>2, Stopping, Zenon DEF Migrating
  <2> QED
    BY <2>1, NotMigrating
<1>3. ASSUME Clean \/ Backup \/ Restore PROVE MigrateInv'
  <2>1. tool.cmd \in {"clean", "backup", "restore"} /\ UNCHANGED <<finished, workloads>>
    BY <1>3 DEF Clean, Backup, BackupV1, BackupV2, BackupV1Service, Restore, NextIs
  <2>2. ~finished
    BY <2>1 DEF MigrateInv, Running, Idle
  <2>3. tool'.cmd \in {tool.cmd, "idle"}
    <3>1. Stop \/ (\E items : List(items)) \/ \E x : Did(x)
      BY <1>3, Zenon DEF Clean, cleanIPs, deleteV1Subnet, deleteV1CRD, Backup, Restore
    <3> QED
      BY <1>a, <3>1, CommandKept
  <2> QED
    BY <2>1, <2>2, <2>3, NotMigrating DEF Migrating
<1>4. CASE UNCHANGED vars
  BY <1>4, Zenon DEF vars, toolVars, MigrateInv, SubnetsListed, WorkloadsListed, SubnetsDone,
     WorkloadsDone, ServicesDone, Absent, Running, MigrationIsComplete, V1Services, Migrating,
     Phase
<1> QED
  BY <1>1, <1>2, <1>3, <1>4, FinishInv, MigrateSubnetsInv, MigrateSubnetListInv,
     MigrateWorkloadInv, ProcessInv, MigrateServiceInv, MigrateServiceListInv, UserInv
     DEF Next

-----------------------------------------------------------------------------
(* What was listed, what the phases have done, and what is left to do, whatever users
   write between a list and its items. *)
THEOREM MigrateInvariant == MigratorSpec => []MigrateInv
<1>1. Init => MigrateInv
  BY InitMigrateInv
<1>2. TypeOK /\ MigrateInv /\ [Next]_vars => MigrateInv'
  BY NextMigrateInv
<1> QED
  BY <1>1, <1>2, TypeCorrect, PTL DEF MigratorSpec

(* However many runs are broken off, and whatever users do meanwhile: a migration that
   ends well is complete.  The phases have done what WorkloadsDone and its like say, and
   an item leaves its list only when it is done. *)
THEOREM CompleteInvariant == MigratorSpec => []MigrationIsComplete
<1>1. MigrateInv => MigrationIsComplete
  BY DEF MigrateInv
<1> QED
  BY <1>1, MigrateInvariant, PTL

(* A step of users is not one of the tool. *)
LEMMA UsersCount ==
    ASSUME TypeOK, User
    PROVE  ~ByTool
<1>1. events \in 0 .. MaxEvents /\ events' = events + 1
  BY Zenon DEF TypeOK, User
<1> QED
  BY <1>1, BoundAssumption DEF ByTool

(* Only processPodTemplateAnnotation and users write templates. *)
LEMMA TemplatesWritten ==
    ASSUME TypeOK, [Next]_vars
    PROVE  \/ UNCHANGED workloads
           \/ \E k \in Key : processPodTemplateAnnotation(k)
           \/ events' # events /\ \E k \in Key : EditWorkload(k)
<1>1. ASSUME User
      PROVE  \/ UNCHANGED workloads
             \/ events' # events /\ \E k \in Key : EditWorkload(k)
  <2>1. events' # events
    BY <1>1, UsersCount DEF ByTool
  <2>2. ASSUME NEW k \in Key, EditIPs(k) PROVE UNCHANGED workloads
    BY <2>2 DEF EditIPs
  <2>3. ASSUME NEW s \in Subnet, EditSubnet(s) PROVE UNCHANGED workloads
    BY <2>3 DEF EditSubnet
  <2> QED
    BY <1>1, <2>1, <2>2, <2>3 DEF User
<1>2. ASSUME \/ \E cmd \in Commands : Start(cmd)
             \/ Abort \/ Finish \/ migrateSubnets \/ \E s \in Subnet : migrateSubnetList(s)
             \/ \E i \in DOMAIN Kinds : migrateWorkload(Kinds[i])
             \/ migrateService \/ \E n \in Svc : migrateServiceList(n)
             \/ Clean \/ Backup \/ Restore \/ UNCHANGED vars
      PROVE  UNCHANGED workloads
  BY <1>2, Zenon DEF Start, Abort, Finish, migrateSubnets, migrateSubnetList, migrateWorkload,
     migrateService, migrateServiceList, Clean, Backup, Restore, vars
<1> QED
  BY <1>1, <1>2 DEF Next

(* What processPodTemplateAnnotation writes is what was listed, of V2. *)
LEMMA Rewritten ==
    ASSUME TypeOK, NEW k \in Key, processPodTemplateAnnotation(k)
    PROVE  \/ UNCHANGED workloads
           \/ /\ \A l \in Key \ {k} : workloads'[l] = workloads[l]
              /\ workloads'[k].ann.v2 = copy.anns[k].v1
              /\ workloads'[k].ann.other = copy.anns[k].other
<1> DEFINE a == GetTemplateObjectMeta(k, copy.anns[k])
<1>1. /\ copy.anns \in [Key -> Annotations]
      /\ workloads \in [Key -> Workload]
  BY DEF TypeOK
<1>2. /\ a \in Annotations
      /\ isMacvlanV1Enabled(a) => a = copy.anns[k]
  BY <1>1, Templates, Zenon DEF GetTemplateObjectMeta
<1>3. updateAnnotation(a).v2 = a.v1 /\ updateAnnotation(a).other = a.other
  BY <1>2, Annotating
<1> HIDE DEF a
<1>4. \/ UNCHANGED workloads
      \/ /\ isMacvlanV1Enabled(a)
         /\ workloads' = [workloads EXCEPT ![k].ann = updateAnnotation(a), ![k].v1Labels = FALSE]
  BY DEF processPodTemplateAnnotation, updateWorkload, a
<1>5. ASSUME isMacvlanV1Enabled(a),
             workloads' = [workloads EXCEPT ![k].ann = updateAnnotation(a), ![k].v1Labels = FALSE]
      PROVE  /\ \A l \in Key \ {k} : workloads'[l] = workloads[l]
             /\ workloads'[k].ann.v2 = copy.anns[k].v1
             /\ workloads'[k].ann.other = copy.anns[k].other
  <2>1. (\A l \in Key \ {k} : workloads'[l] = workloads[l]) /\ workloads'[k].ann = updateAnnotation(a)
    BY <1>1, <1>5 DEF Workload
  <2> QED
    BY <1>2, <1>3, <1>5, <2>1, Zenon
<1> QED
  BY <1>4, <1>5

(* A template that migrate has rewritten names a FlatNetworkSubnet that exists: the phase
   of the subnets is over, and SubnetsDone holds of it. *)
THEOREM MigratedHasSubnetProperty == MigratorSpec => MigratedHasSubnet
<1>1. TypeOK /\ MigrateInv /\ [Next]_vars
          => \A k \in Key : LET s == workloads'[k].ann.v2
                            IN s \notin {"", workloads[k].ann.v2} =>
                                   v2[s] # None \/ v1[s] = None \/ s \in touched
  <2> SUFFICES ASSUME TypeOK, MigrateInv, [Next]_vars, NEW k \in Key
               PROVE  LET s == workloads'[k].ann.v2
                      IN s \notin {"", workloads[k].ann.v2} =>
                             v2[s] # None \/ v1[s] = None \/ s \in touched
    OBVIOUS
  <2>a. ToolOK /\ copy.anns \in [Key -> Annotations] /\ workloads \in [Key -> Workload]
    BY DEF TypeOK, ToolOK
  <2>1. ASSUME NEW l \in Key, processPodTemplateAnnotation(l)
        PROVE  LET s == workloads'[k].ann.v2
               IN s \notin {"", workloads[k].ann.v2} =>
                      v2[s] # None \/ v1[s] = None \/ s \in touched
    <3>1. Migrating /\ tool.phase > 1 /\ tool.phase \in Nat
      <4>1. At("migrate", Kind(l)) /\ Kind(l) # "subnets"
        BY <2>1, KindsApart, Zenon DEF processPodTemplateAnnotation
      <4>2. tool.phase \in Nat
        BY <2>a DEF ToolOK
      <4> QED
        BY <2>a, <4>1, <4>2, Handling, Zenon
    <3>2. \A s \in Subnet : v2[s] # None \/ v1[s] = None \/ s \in touched
      BY <3>1, SubnetsAreDone, Zenon
    <3>3. copy.anns[k].v1 \in Subnet \cup {""}
      <4>1. copy.anns[k] \in Annotations
        BY <2>a
      <4> QED
        BY <4>1 DEF Annotations
    <3>4. workloads'[k] = workloads[k] \/ workloads'[k].ann.v2 = copy.anns[k].v1
      BY <2>1, Rewritten
    <3> QED
      BY <3>2, <3>3, <3>4
  <2>2. ASSUME NEW l \in Key, EditWorkload(l)
        PROVE  workloads'[k].ann.v2 \in {"", workloads[k].ann.v2}
    <3>1. ASSUME NEW w, PutWorkload(l, w), w.ann.v2 \in {"", workloads[l].ann.v2}
          PROVE  workloads'[k].ann.v2 \in {"", workloads[k].ann.v2}
      <4>1. workloads'[k] = IF l = k THEN w ELSE workloads[k]
        BY <2>a, <3>1 DEF PutWorkload
      <4> QED
        BY <3>1, <4>1
    <3>2. NoWorkload.ann.v2 = ""
      BY DEF NoWorkload, Plain
    <3>3. \A s \in Subnet, n \in Networks : V1Workload(s, n).ann.v2 = ""
      BY Templates
    <3>4. [workloads[l] EXCEPT !.ann.other = 1].ann.v2 = workloads[l].ann.v2
      BY <2>a, Editing, Zenon
    <3> QED
      BY <2>2, <3>1, <3>2, <3>3, <3>4 DEF EditWorkload
  <2> QED
    BY <2>1, <2>2, TemplatesWritten, Zenon
<1> QED
  BY <1>1, TypeCorrect, MigrateInvariant, PTL DEF MigratorSpec, MigratedHasSubnet

(* What a command creates leaves what exists as it is. *)
LEMMA SubnetsWritten ==
    ASSUME TypeOK, [Next]_vars, ByTool, NEW s \in Subnet, v2[s] # None
    PROVE  v2'[s] = v2[s]
<1>a. v2 \in [Subnet -> V2Spec]
  BY DEF TypeOK
<1>1. ~User
  BY UsersCount
<1>2. ASSUME NEW t, NEW spec, create(t, spec) PROVE v2'[s] = v2[s]
  BY <1>a, <1>2 DEF create
<1>3. ASSUME NEW t \in Subnet, migrateSubnetList(t) PROVE v2'[s] = v2[s]
  BY <1>2, <1>3 DEF migrateSubnetList
<1>4. ASSUME Restore PROVE v2'[s] = v2[s]
  <2>1. UNCHANGED v2 \/ \E t \in tool.todo : create(t, file.v2[t])
    BY <1>4, Zenon DEF Restore
  <2> QED
    BY <1>2, <2>1
<1>5. ASSUME \/ \E cmd \in Commands : Start(cmd)
             \/ Abort \/ Finish \/ migrateSubnets
             \/ \E i \in DOMAIN Kinds : migrateWorkload(Kinds[i])
             \/ \E k \in Key : processPodTemplateAnnotation(k)
             \/ migrateService \/ \E n \in Svc : migrateServiceList(n)
             \/ Clean \/ Backup \/ UNCHANGED vars
      PROVE  UNCHANGED v2
  BY <1>5, Zenon DEF Start, Abort, Finish, migrateSubnets, migrateWorkload,
     processPodTemplateAnnotation, migrateService, migrateServiceList, Clean, Backup, vars
<1> QED
  BY <1>1, <1>3, <1>4, <1>5 DEF Next

(* No command undoes what users have edited: subnets are created, never overwritten, and
   WorkloadsListed says that the annotations which updateWorkload writes are the
   latest, unless users have touched the workload since. *)
THEOREM EditsSurviveProperty == MigratorSpec => EditsSurvive
<1>1. TypeOK /\ MigrateInv /\ [Next]_vars =>
          (ByTool => /\ \A s \in Subnet : v2[s] # None => v2'[s] = v2[s]
                     /\ \A k \in Key : workloads'[k].ann.other # workloads[k].ann.other
                                          => k \in touched)
  <2> SUFFICES ASSUME TypeOK, MigrateInv, [Next]_vars, ByTool
               PROVE  /\ \A s \in Subnet : v2[s] # None => v2'[s] = v2[s]
                      /\ \A k \in Key : workloads'[k].ann.other # workloads[k].ann.other
                                           => k \in touched
    OBVIOUS
  <2>1. \A s \in Subnet : v2[s] # None => v2'[s] = v2[s]
    BY SubnetsWritten
  <2>2. ASSUME NEW k \in Key, k \notin touched
        PROVE  workloads'[k].ann.other = workloads[k].ann.other
    <3>1. ASSUME NEW l \in Key, processPodTemplateAnnotation(l)
          PROVE  workloads'[k].ann.other = workloads[k].ann.other
      <4>1. \/ workloads'[k] = workloads[k]
            \/ l = k /\ workloads'[k].ann.other = copy.anns[k].other
        BY <3>1, Rewritten
      <4>2. l = k => copy.anns[k] = workloads[k].ann
        <5>1. ToolOK /\ At("migrate", Kind(l)) /\ l \in tool.todo
          BY <3>1 DEF TypeOK, ToolOK, processPodTemplateAnnotation
        <5>2. Migrating /\ Phase = Kind(l)
          BY <5>1, Handling
        <5> QED
          BY <2>2, <5>1, <5>2 DEF MigrateInv, WorkloadsListed
      <4> QED
        BY <4>1, <4>2
    <3>2. events' = events
      BY DEF ByTool
    <3> QED
      BY <3>1, <3>2, TemplatesWritten
  <2> QED
    BY <2>1, <2>2
<1> QED
  BY <1>1, TypeCorrect, MigrateInvariant, PTL DEF MigratorSpec, EditsSurvive

-----------------------------------------------------------------------------
(* Steps of the other commands do not concern clean, nor do they touch addresses. *)
LEMMA NotCleaning ==
    ASSUME ToolOK, CleanInv, UNCHANGED <<ips, late>>, crds' \in {crds, crds \cup {"subnet"}},
           \/ tool'.cmd # "clean"
           \/ tool'.phase = 0
    PROVE  CleanInv'
<1>1. "ip" \in crds <=> "ip" \in crds'
  OBVIOUS
<1> QED
  BY <1>1 DEF CleanInv

LEMMA CleanStep ==
    ASSUME TypeOK, CleanInv, Clean
    PROVE  CleanInv'
<1>a. ToolOK /\ tool.cmd = "clean"
  BY DEF TypeOK, ToolOK, Clean
<1>b. tool.phase \in Nat
  BY <1>a DEF ToolOK
<1>1. CASE NextIs("clean", "ips") /\ cleanIPs /\ late' = {} /\ UNCHANGED <<v1, crds, ips>>
  <2>1. CASE "ip" \in crds /\ ips # {}
    BY <1>1, <2>1, Stopping DEF cleanIPs, CleanInv, Idle
  <2>2. CASE ~("ip" \in crds /\ ips # {})
    BY <1>1, <2>2 DEF CleanInv
  <2> QED
    BY <2>1, <2>2
<1>2. CASE NextIs("clean", "v1") /\ UNCHANGED <<v1, crds, ips, late>>
  <2>1. tool.phase > 0
    <3>1. Phases("clean")[tool.phase + 1] = "v1"
      BY <1>2 DEF NextIs
    <3> QED
      BY <1>b, <3>1, OtherPhases
  <2> QED
    BY <1>a, <1>2, <2>1 DEF CleanInv
<1>3. CASE At("clean", "v1") /\ UNCHANGED <<crds, ips, late>>
  BY <1>a, <1>3 DEF CleanInv, At
<1>4. CASE deleteV1CRD
  <2>1. CASE NextIs("clean", "ipCRD") /\ ips' = {}
    BY <2>1 DEF CleanInv
  <2>2. CASE NextIs("clean", "subnetCRD") /\ crds' = crds \ {"subnet"} /\ UNCHANGED ips
    <3>1. tool.phase > 0
      <4>1. Phases("clean")[tool.phase + 1] = "subnetCRD"
        BY <2>2 DEF NextIs
      <4> QED
        BY <1>b, <4>1, OtherPhases
    <3>2. UNCHANGED late
      BY <1>4 DEF deleteV1CRD
    <3> QED
      BY <1>a, <2>2, <3>1, <3>2 DEF CleanInv
  <2> QED
    BY <1>4, <2>1, <2>2 DEF deleteV1CRD
<1> QED
  BY <1>1, <1>2, <1>3, <1>4, Zenon DEF Clean

LEMMA NextCleanInv ==
    ASSUME TypeOK, CleanInv, [Next]_vars
    PROVE  CleanInv'
<1>a. ToolOK
  BY DEF TypeOK, ToolOK
<1>1. ASSUME NEW cmd \in Commands, Start(cmd) PROVE CleanInv'
  <2>1. tool'.phase = 0 /\ UNCHANGED <<crds, ips, late>>
    BY <1>1 DEF Start, Idle
  <2> QED
    BY <1>a, <2>1, NotCleaning
<1>2. ASSUME Abort \/ Finish PROVE CleanInv'
  <2>1. tool'.phase = 0 /\ UNCHANGED <<crds, ips, late>>
    BY <1>2, Stopping, Zenon DEF Abort, Finish
  <2> QED
    BY <1>a, <2>1, NotCleaning
<1>3. ASSUME \/ migrateSubnets \/ \E s \in Subnet : migrateSubnetList(s)
             \/ \E i \in DOMAIN Kinds : migrateWorkload(Kinds[i])
             \/ \E k \in Key : processPodTemplateAnnotation(k)
             \/ migrateService \/ \E n \in Svc : migrateServiceList(n)
             \/ Backup \/ Restore
      PROVE  CleanInv'
  <2>1. tool.cmd \in {"migrate", "backup", "restore"}
    BY <1>3, Zenon DEF migrateSubnets, migrateSubnetList, migrateWorkload,
       processPodTemplateAnnotation, migrateService, migrateServiceList, Backup, BackupV1,
       BackupV2, BackupV1Service, Restore, NextIs, At
  <2>2. Stop \/ (\E items : List(items)) \/ \E x : Did(x)
    BY <1>3, Zenon DEF migrateSubnets, migrateSubnetList, migrateWorkload, updateWorkload,
       processPodTemplateAnnotation, migrateService, migrateServiceList, Backup, Restore
  <2>3. tool'.cmd # "clean"
    BY <1>a, <2>1, <2>2, CommandKept
  <2>4. UNCHANGED <<ips, late>>
    BY <1>3, Zenon DEF migrateSubnets, migrateSubnetList, migrateWorkload,
       processPodTemplateAnnotation, migrateService, migrateServiceList, Backup, Restore
  <2>5. crds' \in {crds, crds \cup {"subnet"}}
    BY <1>3, Zenon DEF migrateSubnets, migrateSubnetList, migrateWorkload,
       processPodTemplateAnnotation, migrateService, migrateServiceList, Backup, Restore
  <2> QED
    BY <1>a, <2>3, <2>4, <2>5, NotCleaning
<1>4. CASE User
  <2>1. UNCHANGED <<crds, tool>>
    BY <1>4, Zenon DEF User, EditWorkload, PutWorkload, EditIPs, EditSubnet, toolVars
  <2>2. \/ UNCHANGED <<ips, late>>
        \/ \E k \in Key : "ip" \in crds /\ ips' = ips \cup {k} /\ late' = late \cup {k}
        \/ \E k \in Key : ips' = ips \ {k} /\ UNCHANGED late
    BY <1>4, Zenon DEF User, EditWorkload, PutWorkload, EditIPs, EditSubnet
  <2> QED
    BY <2>1, <2>2 DEF CleanInv
<1>5. CASE UNCHANGED vars
  BY <1>5 DEF vars, toolVars, CleanInv
<1> QED
  BY <1>1, <1>2, <1>3, <1>4, <1>5, CleanStep DEF Next

(* Clean takes no address from a pod that had it when clean looked for such pods: there
   was none then, and every address since is late. *)
THEOREM CleanSparesPodsProperty == MigratorSpec => CleanSparesPods
<1>1. Init => CleanInv
  <2>1. Init => "ip" \in crds /\ tool.cmd # "clean"
    <3>1. Init => crds = {"ip", "subnet"} /\ tool = Idle
      BY Zenon DEF Init
    <3>2. Idle.cmd # "clean"
      BY DEF Idle
    <3> QED
      BY <3>1, <3>2, Zenon
  <2> QED
    BY <2>1, Zenon DEF CleanInv
<1>2. TypeOK /\ CleanInv /\ [Next]_vars => CleanInv'
  BY NextCleanInv
<1>3. TypeOK /\ CleanInv /\ [Next]_vars => (ByTool => ips \ ips' \subseteq late)
  <2> SUFFICES ASSUME TypeOK, CleanInv, [Next]_vars, ByTool PROVE ips \ ips' \subseteq late
    OBVIOUS
  <2>1. ~User
    BY UsersCount
  <2>2. \/ UNCHANGED ips
        \/ tool.cmd = "clean" /\ NextIs("clean", "ipCRD")
    BY <2>1, Zenon DEF Next, vars, Start, Abort, Finish, migrateSubnets, migrateSubnetList,
       migrateWorkload, processPodTemplateAnnotation, migrateService, migrateServiceList,
       Clean, deleteV1CRD, Backup, Restore
  <2>3. ASSUME NextIs("clean", "ipCRD") PROVE tool.phase > 0
    <3>1. Phases("clean")[tool.phase + 1] = "ipCRD" /\ tool.phase \in Nat
      BY <2>3 DEF NextIs, TypeOK
    <3> QED
      BY <3>1, OtherPhases
  <2> QED
    BY <2>2, <2>3 DEF CleanInv
<1> QED
  BY <1>1, <1>2, <1>3, TypeCorrect, PTL DEF MigratorSpec, CleanSparesPods
=============================================================================
