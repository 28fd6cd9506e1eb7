CONSTANTS
    Subnet = {"s1"}
    Key = {"web", "tick", "once"}
    Kind <- MCKind
    Svc = {"svc"}
    Kinds <- MCKinds
    Services = TRUE
    Commands = {"migrate", "clean", "backup", "restore"}
    V1Specs <- MCSpecs
    Networks = {"static-macvlan-cni-attach", "custom"}
    MaxStarts = 3
    MaxEvents = 2
SPECIFICATION MigratorSpec
INVARIANTS MigrationIsComplete
PROPERTIES MigratedHasSubnet EditsSurvive CleanSparesPods
CHECK_DEADLOCK FALSE
