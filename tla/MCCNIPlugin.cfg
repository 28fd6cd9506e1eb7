SPECIFICATION FairSpec
CONSTANTS
    p1 = p1
    p2 = p2
    p3 = p3
    Pods <- MCPods
    Addr <- MCAddr
    AddrOf <- MCAddrOf
    FlatMode = "ipvlan"
    Mode = "l3"
    Flag = ""
    VLAN = TRUE
    AddPodIPToHost = TRUE
    MaxFailures = 2
INVARIANTS
    RoutesHavePods
    
PROPERTIES
    LinkStays
    NetworkComesUp
