------------------------------ MODULE Migrator ------------------------------
(***************************************************************************)
(* The migrator (migrator/commands and pkg/migrate), a command-line tool   *)
(* that takes a cluster from Macvlan V1 to FlatNetwork V2: migrate, clean, *)
(* backup and restore.  One command runs at a time, while users and their  *)
(* pods go on; it ends at any step when a call fails, the user says no or  *)
(* the process is killed, and is then started again.                       *)
(*                                                                         *)
(* A command is a sequence of phases.  A phase starts with a list, whose   *)
(* items are then processed one by one as they were when listed.           *)
(***************************************************************************)
EXTENDS Naturals, Sequences, FiniteSets

CONSTANTS
    Subnet,      \* names of subnets
    Key,         \* workloads
    Kind(_),     \* their kinds
    Svc,         \* services, without "-macvlan" or "-flat-network"
    Kinds,       \* option --workload, a sequence; "unknown" for what is no kind
    Services,    \* option --migrate-service
    Commands,    \* commands that users run
    V1Specs,     \* specs of V1 subnets: gateway and ranges are "", "ip" or "junk"
    Networks,    \* networks of V1 templates: the attachment of V1, or what users chose
    MaxStarts,   \* bound: commands
    MaxEvents    \* bound: what users and pods do meanwhile

WorkloadKinds == {"Deployment", "DaemonSet", "StatefulSet", "CronJob", "Job"}
SpecsWith(fields) == [gateway : fields, ranges : fields, edited : {FALSE}]

ASSUME KindAssumption == /\ \A k \in Key : Kind(k) \in WorkloadKinds
                         /\ Kinds \in Seq(WorkloadKinds \cup {"unknown"})
(* the names of subnets and the keys of workloads are told apart, in touched *)
ASSUME NameAssumption == "" \notin Subnet /\ Subnet \cap Key = {}
ASSUME SpecAssumption == V1Specs \subseteq SpecsWith({"", "ip", "junk"})
ASSUME OptionAssumption == /\ Commands \subseteq {"migrate", "clean", "backup", "restore"}
                           /\ Services \in BOOLEAN
ASSUME BoundAssumption == MaxStarts \in Nat /\ MaxEvents \in Nat

None == [gateway |-> "none", ranges |-> "none", edited |-> FALSE]
Spec(gateway, ranges) == [gateway |-> gateway, ranges |-> ranges, edited |-> FALSE]

(* annotations of a pod template: its V1 or V2 subnet ("" for none; an address goes with
   it), the networks for multus, and what else users write *)
Plain == [v1 |-> "", v2 |-> "", networks |-> "", other |-> 0]
V1Attachment == "static-macvlan-cni-attach"
V1Workload(s, n) == [exists |-> TRUE, ann |-> [Plain EXCEPT !.v1 = s, !.networks = n],
                     v1Labels |-> TRUE]
NoWorkload == [exists |-> FALSE, ann |-> Plain, v1Labels |-> FALSE]

Idle == [cmd |-> "idle", phase |-> 0, todo |-> {}]
NoFile == [v1 |-> [s \in Subnet |-> None], v2 |-> [s \in Subnet |-> None], svcs |-> {},
           crd |-> FALSE]
NoCopy == [specs |-> [s \in Subnet |-> None], anns |-> [k \in Key |-> Plain]]

VARIABLES
    v1, v2,      \* subnets of both versions
    crds,        \* CRDs of V1: "ip", "subnet"
    ips,         \* MacvlanIPs, of pods of these workloads
    workloads,   \* workloads
    svcs,        \* services, <<name, "v1">> and <<name, "v2">>
    file,        \* the backup
    tool,        \* the command that runs, its phase, and the items that are left
    copy,        \* what was listed: specs of subnets, annotations of workloads
    finished,    \* the last command was migrate, and has ended well
    touched,     \* history: what users have written since the command listed it
    late,        \* history: addresses of V1 that are newer than the check of clean
    starts, events

toolVars == <<tool, copy, finished, starts>>
vars == <<v1, v2, crds, ips, workloads, svcs, file, toolVars, touched, late, events>>

Existing(f) == {s \in Subnet : f[s] # None}
V1Services == {n \in Svc : <<n, "v1">> \in svcs}

-----------------------------------------------------------------------------
(* what becomes of an address that does not parse *)
ParseIP(x) == IF x = "junk" THEN "" ELSE x

(* A gateway that does not parse is left out; such a range is an error. *)
Convertible(spec) == spec.ranges # "junk"
newFlatNetworkSubnet(spec) == Spec(ParseIP(spec.gateway), spec.ranges)

isMacvlanV1Enabled(a) == a.v1 # ""

(* the annotations of a cron job's jobs, not those of its pods *)
GetTemplateObjectMeta(k, a) == IF Kind(k) = "CronJob" THEN Plain ELSE a

(* keys of V1 are renamed, and the attachment of V1 is replaced; the rest stays *)
updateAnnotation(a) ==
    [a EXCEPT !.v1 = "", !.v2 = a.v1,
              !.networks = IF @ = V1Attachment THEN "rancher-flat-network" ELSE @]

(* MacvlanSubnets are listed as MacvlanIPs, whose specs have other fields *)
listV1Resources(spec) == IF spec = None THEN None ELSE Spec("", "")

-----------------------------------------------------------------------------
(* Bug variant: subnets come last. *)
PhasesSubnetsLast(cmd) ==
    CASE cmd = "migrate" -> Kinds \o <<"subnets">>
      [] cmd = "clean" -> <<"ips", "v1", "ipCRD", "subnetCRD">>
      [] cmd = "backup" -> <<"v1", "v2", "services">>
      [] OTHER -> <<"crd", "v1", "v2", "services">>

(* Without kinds of workloads the services are not migrated either. *)
Phases(cmd) ==
    CASE cmd = "migrate" -> <<"subnets">> \o Kinds
                            \o (IF Services /\ Kinds # <<>> THEN <<"services">> ELSE <<>>)
      [] cmd = "clean" -> <<"ips", "v1", "ipCRD", "subnetCRD">>
      [] cmd = "backup" -> <<"v1", "v2", "services">>
      [] OTHER -> <<"crd", "v1", "v2", "services">>

At(cmd, phase) == /\ tool.cmd = cmd /\ tool.phase > 0
                  /\ Phases(cmd)[tool.phase] = phase
Stop == tool' = Idle
NextIs(cmd, phase) == /\ tool.cmd = cmd /\ tool.todo = {} /\ tool.phase < Len(Phases(cmd))
                      /\ Phases(cmd)[tool.phase + 1] = phase
List(items) == tool' = [tool EXCEPT !.phase = @ + 1, !.todo = items]
Did(x) == tool' = [tool EXCEPT !.todo = @ \ {x}]

Start(cmd) ==
    /\ tool = Idle /\ starts < MaxStarts
    /\ starts' = starts + 1
    /\ tool' = [Idle EXCEPT !.cmd = cmd]
    /\ finished' = FALSE
    /\ file' = IF cmd = "backup" THEN NoFile ELSE file   \* O_TRUNC
    /\ copy' = NoCopy
    /\ touched' = {}
    /\ UNCHANGED <<v1, v2, crds, ips, workloads, svcs, late, events>>

Abort == /\ tool # Idle
         /\ Stop
         /\ UNCHANGED <<v1, v2, crds, ips, workloads, svcs, file, copy, finished, starts,
                        touched, late, events>>

Finish == /\ tool # Idle /\ tool.todo = {} /\ tool.phase = Len(Phases(tool.cmd))
          /\ Stop
          /\ finished' = (tool.cmd = "migrate")
          /\ UNCHANGED <<v1, v2, crds, ips, workloads, svcs, file, copy, starts, touched, late, events>>

-----------------------------------------------------------------------------
(* migrate: subnets, which need their CRD, *)
migrateSubnets ==
    /\ NextIs("migrate", "subnets")
    /\ IF "subnet" \in crds
       THEN /\ List(Existing(v1))
            /\ copy' = [copy EXCEPT !.specs = v1]
            /\ touched' = touched \ Subnet
       ELSE Stop /\ UNCHANGED <<copy, touched>>
    /\ UNCHANGED <<v1, v2, crds, ips, workloads, svcs, file, finished, starts, late, events>>

(* Bug variant: a subnet of that name is replaced. *)
createOver(s, spec) == v2' = [v2 EXCEPT ![s] = spec]

(* a subnet of that name is left as it is *)
create(s, spec) == v2' = [v2 EXCEPT ![s] = IF @ = None THEN spec ELSE @]

migrateSubnetList(s) ==
    /\ At("migrate", "subnets") /\ s \in tool.todo
    /\ IF Convertible(copy.specs[s])
       THEN create(s, newFlatNetworkSubnet(copy.specs[s])) /\ Did(s)
       ELSE Stop /\ UNCHANGED v2
    /\ UNCHANGED <<v1, crds, ips, workloads, svcs, file, copy, finished, starts, touched, late, events>>

(* workloads of one kind after the other, *)
migrateWorkload(kind) ==
    LET items == {k \in Key : workloads[k].exists /\ Kind(k) = kind}
    IN /\ NextIs("migrate", kind)
       /\ List(items)
       /\ copy' = [NoCopy EXCEPT !.anns =
                       [k \in Key |-> IF k \in items THEN workloads[k].ann ELSE Plain]]
       /\ touched' = touched \ {k \in Key : Kind(k) = kind}
       /\ UNCHANGED <<v1, v2, crds, ips, workloads, svcs, file, finished, starts, late, events>>

(* Bug variant: what cannot be updated is left out. *)
updateWorkloadOrSkip(k, ann) ==
    /\ Did(k)
    /\ workloads' = IF workloads[k].exists /\ Kind(k) # "Job"
                    THEN [workloads EXCEPT ![k].ann = ann, ![k].v1Labels = FALSE]
                    ELSE workloads

(* The annotations that were listed and updated replace those of the latest object,
   whose labels are kept but for those of V1.  The template of a Job cannot be
   changed. *)
updateWorkload(k, ann) ==
    IF workloads[k].exists /\ Kind(k) # "Job"
    THEN /\ workloads' = [workloads EXCEPT ![k].ann = ann, ![k].v1Labels = FALSE]
         /\ Did(k)
    ELSE Stop /\ UNCHANGED workloads

processPodTemplateAnnotation(k) ==
    LET a == GetTemplateObjectMeta(k, copy.anns[k])
    IN /\ At("migrate", Kind(k)) /\ k \in tool.todo
       /\ IF isMacvlanV1Enabled(a)
          THEN updateWorkload(k, updateAnnotation(a))
          ELSE Did(k) /\ UNCHANGED workloads
       /\ UNCHANGED <<v1, v2, crds, ips, svcs, file, copy, finished, starts, touched, late, events>>

(* and the services that V1 has made. *)
migrateService ==
    /\ NextIs("migrate", "services")
    /\ List(V1Services)
    /\ UNCHANGED <<v1, v2, crds, ips, workloads, svcs, file, copy, finished, starts, touched,
                   late, events>>

migrateServiceList(n) ==
    /\ At("migrate", "services") /\ n \in tool.todo
    /\ svcs' = svcs \cup {<<n, "v2">>}
    /\ Did(n)
    /\ UNCHANGED <<v1, v2, crds, ips, workloads, file, copy, finished, starts, touched, late, events>>

-----------------------------------------------------------------------------
(* Bug variant: the addresses are not looked at. *)
cleanIPsUnchecked == List({})

(* clean: not while pods have addresses of V1; *)
cleanIPs == IF "ip" \in crds /\ ips # {} THEN Stop ELSE List({})

(* then the subnets, none of which may have gone meanwhile, *)
deleteV1Subnet(s) == IF v1[s] # None THEN v1' = [v1 EXCEPT ![s] = None] /\ Did(s)
                     ELSE Stop /\ UNCHANGED v1

(* and the two CRDs, with whatever there is of them. *)
deleteV1CRD ==
    /\ \/ /\ NextIs("clean", "ipCRD")
          /\ crds' = crds \ {"ip"} /\ ips' = {}
          /\ UNCHANGED v1
       \/ /\ NextIs("clean", "subnetCRD")
          /\ crds' = crds \ {"subnet"} /\ v1' = [s \in Subnet |-> None]
          /\ UNCHANGED ips
    /\ List({})
    /\ UNCHANGED late

Clean ==
    /\ tool.cmd = "clean"
    /\ \/ /\ NextIs("clean", "ips")
          /\ cleanIPs
          /\ late' = {}
          /\ UNCHANGED <<v1, crds, ips>>
       \/ /\ NextIs("clean", "v1")
          /\ List(IF "subnet" \in crds THEN Existing(v1) ELSE {})
          /\ UNCHANGED <<v1, crds, ips, late>>
       \/ /\ At("clean", "v1")
          /\ \E s \in tool.todo : deleteV1Subnet(s)
          /\ UNCHANGED <<crds, ips, late>>
       \/ deleteV1CRD
    /\ UNCHANGED <<v2, workloads, svcs, file, copy, finished, starts, touched, events>>

(* backup: a section of the file after the other *)
BackupV1 == /\ NextIs("backup", "v1")
            /\ file' = [file EXCEPT !.crd = "subnet" \in crds,
                                    !.v1 = [s \in Subnet |-> listV1Resources(v1[s])]]
BackupV2 == NextIs("backup", "v2") /\ file' = [file EXCEPT !.v2 = v2]
BackupV1Service == NextIs("backup", "services") /\ file' = [file EXCEPT !.svcs = V1Services]

Backup ==
    /\ BackupV1 \/ BackupV2 \/ BackupV1Service
    /\ List({})
    /\ UNCHANGED <<v1, v2, crds, ips, workloads, svcs, copy, finished, starts, touched, late,
                   events>>

(* restore: objects in the order of the file; those that exist are left as they are *)
Restore ==
    /\ tool.cmd = "restore"
    /\ \/ /\ NextIs("restore", "crd")
          /\ crds' = IF file.crd THEN crds \cup {"subnet"} ELSE crds
          /\ List({})
          /\ UNCHANGED <<v1, v2, svcs>>
       \/ /\ NextIs("restore", "v1")
          /\ List(Existing(file.v1))
          /\ UNCHANGED <<v1, v2, crds, svcs>>
       \/ /\ At("restore", "v1")
          /\ \E s \in tool.todo :
                v1' = [v1 EXCEPT ![s] = IF @ = None THEN file.v1[s] ELSE @] /\ Did(s)
          /\ UNCHANGED <<v2, crds, svcs>>
       \/ /\ NextIs("restore", "v2")
          /\ List(Existing(file.v2))
          /\ UNCHANGED <<v1, v2, crds, svcs>>
       \/ /\ At("restore", "v2")
          /\ \E s \in tool.todo : create(s, file.v2[s]) /\ Did(s)
          /\ UNCHANGED <<v1, crds, svcs>>
       \/ /\ NextIs("restore", "services")
          /\ List(file.svcs)
          /\ UNCHANGED <<v1, v2, crds, svcs>>
       \/ /\ At("restore", "services")
          /\ \E n \in tool.todo : svcs' = svcs \cup {<<n, "v1">>} /\ Did(n)
          /\ UNCHANGED <<v1, v2, crds>>
    /\ UNCHANGED <<ips, workloads, file, copy, finished, starts, touched, late, events>>

-----------------------------------------------------------------------------
(* Users and pods meanwhile: workloads are created, edited and deleted, *)
PutWorkload(k, w) ==
    /\ workloads[k] # w
    /\ workloads' = [workloads EXCEPT ![k] = w]
    /\ touched' = touched \cup {k}
    /\ UNCHANGED <<v1, v2, crds, ips, svcs, late>>
EditWorkload(k) ==
    \/ workloads[k].exists /\ PutWorkload(k, NoWorkload)
    \/ ~workloads[k].exists /\ \E s \in Subnet :
           \E n \in Networks : PutWorkload(k, V1Workload(s, n))
    \/ /\ workloads[k].exists /\ Kind(k) # "Job" /\ workloads[k].ann.other = 0
       /\ PutWorkload(k, [workloads[k] EXCEPT !.ann.other = 1])

(* pods of V1 start and end, *)
EditIPs(k) ==
    /\ \/ /\ "ip" \in crds /\ k \notin ips
          /\ workloads[k].exists /\ isMacvlanV1Enabled(workloads[k].ann)
          /\ ips' = ips \cup {k} /\ late' = late \cup {k}
       \/ k \in ips /\ ips' = ips \ {k} /\ UNCHANGED late
    /\ UNCHANGED <<v1, v2, crds, workloads, svcs, touched>>

(* and subnets are created, edited and deleted. *)
EditSubnet(s) ==
    /\ \/ /\ "subnet" \in crds /\ v1[s] = None
          /\ \E spec \in V1Specs : v1' = [v1 EXCEPT ![s] = spec]
          /\ touched' = touched \cup {s} /\ UNCHANGED v2
       \/ /\ v1[s] # None /\ v1' = [v1 EXCEPT ![s] = None]
          /\ UNCHANGED <<v2, touched>>
       \/ /\ v2[s] # None /\ v2' = [v2 EXCEPT ![s] = None]
          /\ touched' = touched \cup {s} /\ UNCHANGED v1
       \/ /\ v2[s] # None /\ ~v2[s].edited
          /\ v2' = [v2 EXCEPT ![s].edited = TRUE]
          /\ UNCHANGED <<v1, touched>>
    /\ UNCHANGED <<crds, ips, workloads, svcs, late>>

User == /\ events < MaxEvents
        /\ events' = events + 1
        /\ \/ \E k \in Key : EditWorkload(k) \/ EditIPs(k)
           \/ \E s \in Subnet : EditSubnet(s)
        /\ UNCHANGED <<file, toolVars>>

(* A cluster with V1: every workload may use a subnet that there is. *)
Init ==
    /\ v1 \in [Subnet -> V1Specs] /\ v2 = [s \in Subnet |-> None]
    /\ crds = {"ip", "subnet"}
    /\ workloads \in [Key -> {NoWorkload} \cup {V1Workload(s, V1Attachment) : s \in Subnet}]
    /\ ips = {k \in Key : workloads[k].exists}
    /\ svcs = {<<n, "v1">> : n \in Svc}
    /\ file = NoFile /\ tool = Idle /\ copy = NoCopy
    /\ finished = FALSE /\ touched = {} /\ late = {}
    /\ starts = 0 /\ events = 0

Next == \/ \E cmd \in Commands : Start(cmd)
        \/ Abort \/ Finish
        \/ migrateSubnets \/ \E s \in Subnet : migrateSubnetList(s)
        \/ \E i \in DOMAIN Kinds : migrateWorkload(Kinds[i])
        \/ \E k \in Key : processPodTemplateAnnotation(k)
        \/ migrateService \/ \E n \in Svc : migrateServiceList(n)
        \/ Clean \/ Backup \/ Restore
        \/ User

MigratorSpec == Init /\ [][Next]_vars

-----------------------------------------------------------------------------
Items == Subnet \cup Key \cup Svc
V1Spec == V1Specs \cup {None, Spec("", "")}
V2Spec == [gateway : {"", "ip"}, ranges : {"", "ip"}, edited : BOOLEAN] \cup {None}
Annotations == [v1 : Subnet \cup {""}, v2 : Subnet \cup {""}, other : 0 .. 1,
                networks : Networks \cup {"", V1Attachment, "rancher-flat-network"}]
Workload == [exists : BOOLEAN, ann : Annotations, v1Labels : BOOLEAN]
TypeOK ==
    /\ v1 \in [Subnet -> V1Spec] /\ v2 \in [Subnet -> V2Spec]
    /\ crds \subseteq {"ip", "subnet"} /\ ips \subseteq Key
    /\ workloads \in [Key -> Workload]
    /\ svcs \subseteq Svc \X {"v1", "v2"}
    /\ file \in [v1 : [Subnet -> {None, Spec("", "")}], v2 : [Subnet -> V2Spec],
                 svcs : SUBSET Svc, crd : BOOLEAN]
    /\ tool \in [cmd : Commands \cup {"idle"}, phase : Nat, todo : SUBSET Items]
    /\ IF tool.cmd = "idle" THEN tool = Idle ELSE tool.phase <= Len(Phases(tool.cmd))
    /\ copy \in [specs : [Subnet -> V1Spec], anns : [Key -> Annotations]]
    /\ finished \in BOOLEAN /\ touched \subseteq Key \cup Subnet /\ late \subseteq Key
    /\ starts \in 0 .. MaxStarts /\ events \in 0 .. MaxEvents

ByTool == events' = events

(* When migrate rewrites a template, the FlatNetworkSubnet that it now names exists:
   subnets come first, and one that cannot be converted ends the run before any
   workload is touched.  Unless the V1 subnet is gone too, or users have made it, or
   deleted its counterpart, after the subnets were listed. *)
MigratedHasSubnet ==
    [][\A k \in Key : LET s == workloads'[k].ann.v2
                      IN s \notin {"", workloads[k].ann.v2} =>
                             v2[s] # None \/ v1[s] = None \/ s \in touched]_vars

(* No command undoes what users have edited.  Another migrate, or the restore of an
   older backup, leaves a FlatNetworkSubnet that exists as it is; and annotations that
   users have put on a template stay, unless they have done so after the command has
   listed the workload. *)
EditsSurvive ==
    [][ByTool => /\ \A s \in Subnet : v2[s] # None => v2'[s] = v2[s]
                 /\ \A k \in Key : workloads'[k].ann.other # workloads[k].ann.other
                                      => k \in touched]_vars

(* When migrate ends well, however many runs have been broken off before it, every V1
   subnet and service has its counterpart and no template of the kinds asked for is
   left with V1; but for what users have written since it was listed, and for cron
   jobs, whose pod templates are never looked at. *)
MigrationIsComplete ==
    finished =>
        /\ \A s \in Subnet \ touched : v1[s] # None => v2[s] # None
        /\ \A k \in Key \ touched :
               (\E i \in DOMAIN Kinds : Kinds[i] = Kind(k)) /\ Kind(k) # "CronJob"
                   => ~isMacvlanV1Enabled(workloads[k].ann)
        /\ Services /\ Kinds # <<>> => \A n \in V1Services : <<n, "v2">> \in svcs

(* Clean takes no address from a pod that had it when clean looked for such pods. *)
CleanSparesPods == [][ByTool => ips \ ips' \subseteq late]_vars
=============================================================================
