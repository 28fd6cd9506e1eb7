SPECIFICATION FairSpec
CONSTANTS
    Pod = {1, 2}
    Kinds <- MCKinds
    InitialPods <- MCPods
    Namespace = "default"
    Annotations <- MCAnnotations
    MaxEvents = 2
PROPERTIES
    EndpointsFollowPods
    SliceFollowsPods
CHECK_DEADLOCK FALSE
